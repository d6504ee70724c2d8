-------------------------- MODULE MCDatabaseWrapper --------------------------
(* DatabaseWrapper for TLC: three writes, one of them dangling, blocks three    *)
(* deep, two savepoints.                                                        *)
EXTENDS DatabaseWrapper, TLC

CONSTANTS w1, w2, w3
==============================================================================
