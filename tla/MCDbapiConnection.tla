-------------------------- MODULE MCDbapiConnection --------------------------
(* DbapiConnection for TLC: two or three writes, at most two connects. *)
EXTENDS DbapiConnection, TLC

CONSTANTS w1, w2, w3
==============================================================================
