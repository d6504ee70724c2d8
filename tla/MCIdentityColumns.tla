-------------------------- MODULE MCIdentityColumns --------------------------
(* IdentityColumns for TLC.                                                    *)
EXTENDS IdentityColumns

CONSTANTS s1, s2, t1, t2
==============================================================================
