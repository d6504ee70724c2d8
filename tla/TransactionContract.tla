------------------------- MODULE TransactionContract -------------------------
(***************************************************************************)
(* What a DB-API connection promises about the statements executed on it,  *)
(* without saying how: in manual mode the work of a transaction becomes    *)
(* durable all at once by a commit or disappears all at once; in auto mode *)
(* every statement is durable when it returns.  DbapiConnection is shown   *)
(* to implement this specification.                                        *)
(***************************************************************************)

CONSTANT Writes     \* the data changes an application may ask for

VARIABLES
    mode,           \* "none" | "manual" | "auto": no connection, or how it commits
    pending,        \* the writes of the transaction in progress
    durable         \* the writes that survive the connection

cvars == <<mode, pending, durable>>

CTypeOK ==
    /\ mode \in {"none", "manual", "auto"}
    /\ pending \in SUBSET Writes
    /\ durable \in SUBSET Writes

CInit ==
    /\ mode = "none"
    /\ pending = {}
    /\ durable = {}

\* A connection is made in one of the two modes.
Start(m) ==
    /\ mode = "none"
    /\ mode' = m
    /\ UNCHANGED <<pending, durable>>

\* A statement: part of the transaction, or durable by itself.
Write(w) ==
    \/ /\ mode = "manual"
       /\ pending' = pending \cup {w}
       /\ UNCHANGED <<mode, durable>>
    \/ /\ mode = "auto"
       /\ durable' = durable \cup {w}
       /\ UNCHANGED <<mode, pending>>

\* The whole transaction, and nothing but the transaction, becomes durable.
Commit ==
    /\ mode = "manual"
    /\ durable' = durable \cup pending
    /\ pending' = {}
    /\ UNCHANGED mode

\* The whole transaction disappears; the mode may change with it.
Discard(m) ==
    /\ mode # "none"
    /\ mode' = m
    /\ pending' = {}
    /\ UNCHANGED durable

\* The connection ends, by close or by a failure.  A failure during a commit
\* may come after the server has done it: then all the work is durable.
End ==
    /\ mode # "none"
    /\ mode' = "none"
    /\ pending' = {}
    /\ \/ UNCHANGED durable
       \/ mode = "manual" /\ durable' = durable \cup pending

CNext ==
    \/ \E m \in {"manual", "auto"} : Start(m) \/ Discard(m)
    \/ \E w \in Writes : Write(w)
    \/ Commit
    \/ End

CSpec == CInit /\ [][CNext]_cvars
==============================================================================
