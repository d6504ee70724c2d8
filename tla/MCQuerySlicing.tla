---------------------------- MODULE MCQuerySlicing ----------------------------
(* QuerySlicing for TLC.                                                       *)
EXTENDS QuerySlicing

CONSTANTS q1, q2

FewBounds == {0, 1, 3}
==============================================================================
