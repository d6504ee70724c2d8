--------------------------- MODULE DbapiConnection ---------------------------
(***************************************************************************)
(* dbapi.Connection over one ADODB.Connection and the SQL Server session   *)
(* behind it.  An operation is split at its ADO calls: between two of them *)
(* the session can be lost.  pc names the ADO call an operation in         *)
(* progress makes next; an operation that is over leaves its outcome in    *)
(* ret.                                                                    *)
(*                                                                         *)
(* The ADO methods are external.  They are modelled from how dbapi.py uses *)
(* them: BeginTrans starts the one transaction of the session, CommitTrans *)
(* and RollbackTrans end it and start another when the provider's          *)
(* Attributes say so, and each raises when there is no transaction to end  *)
(* (which is why rollback() asks @@TRANCOUNT first), when there is one     *)
(* already, or when the session is gone.                                   *)
(***************************************************************************)
EXTENDS Naturals

CONSTANTS
    Writes,             \* the data changes the application executes, each once
    CommitRetaining,    \* adXactCommitRetaining is in adoConn.Attributes
    AbortRetaining,     \* adXactAbortRetaining is in adoConn.Attributes
    ServerAborts,       \* a statement may fail by a rollback of its transaction
                        \* (deadlock victim, XACT_ABORT)
    SessionLoss,        \* the session may be lost (network, KILL, restart)
    MaxConnects         \* bound: calls of connect()

ASSUME SwitchesAssumption ==
    /\ CommitRetaining \in BOOLEAN
    /\ AbortRetaining \in BOOLEAN
    /\ ServerAborts \in BOOLEAN
    /\ SessionLoss \in BOOLEAN

ASSUME MaxConnectsAssumption == MaxConnects \in Nat

VARIABLES
    pc,                 \* "idle", or the ADO call made next
    obj,                \* the Connection object: "none", "held" or "garbage"
    adoConn,            \* self.adoConn is not None
    supportsTransactions,
    transaction_level,
    session,            \* the server session: "none", "up" or "lost"
    trancount,          \* @@TRANCOUNT of the session
    comInit,            \* CoInitialize minus CoUninitialize calls of the thread
    pending,            \* writes of the session's open transaction
    durable,            \* writes in the database whatever happens to the session
    connects,           \* history: calls of connect()
    issued,             \* history: writes acknowledged so far
    unit,               \* history: writes acknowledged since the last boundary
    aborted,            \* history: the server ended the transaction itself and
                        \* no BeginTrans has followed
    ret                 \* the outcome of the last operation

objVars == <<obj, adoConn, supportsTransactions, comInit, connects>>
sessionVars == <<session, trancount, transaction_level, pending, durable, aborted>>
historyVars == <<issued, unit>>
vars == <<pc, objVars, sessionVars, historyVars, ret>>

Ops == {"none", "connect", "execute", "commit", "rollback", "set_autocommit",
        "close", "is_usable"}
\* "raw" is an exception that is not one of the module's Error classes.
Errors == {"Error", "DatabaseError", "InternalError", "OperationalError"}
Outcomes == Errors \cup {"ok", "raw", "False"}
Steps == {"idle", "connect.begin", "commit.begin", "rollback.trans",
          "rollback.begin", "close.ado", "del.rollback", "del.release"}

TypeOK ==
    /\ pc \in Steps
    /\ obj \in {"none", "held", "garbage"}
    /\ adoConn \in BOOLEAN
    /\ supportsTransactions \in BOOLEAN
    /\ transaction_level \in {0, 1}
    /\ session \in {"none", "up", "lost"}
    /\ trancount \in {0, 1}
    /\ comInit \in Nat
    /\ pending \in SUBSET Writes
    /\ durable \in SUBSET Writes
    /\ connects \in Nat
    /\ issued \in SUBSET Writes
    /\ unit \in SUBSET Writes
    /\ aborted \in BOOLEAN
    /\ ret \in [op : Ops, out : Outcomes, unit : SUBSET Writes]

Init ==
    /\ pc = "idle"
    /\ obj = "none"
    /\ adoConn = FALSE
    /\ supportsTransactions = FALSE
    /\ transaction_level = 0
    /\ session = "none"
    /\ trancount = 0
    /\ comInit = 0
    /\ pending = {}
    /\ durable = {}
    /\ connects = 0
    /\ issued = {}
    /\ unit = {}
    /\ aborted = FALSE
    /\ ret = [op |-> "none", out |-> "ok", unit |-> {}]

------------------------------------------------------------------------------
(* The ADO connection and the server. *)

\* A call on self.adoConn reaches the server.
AdoWorks == adoConn /\ session = "up"

CanBegin == AdoWorks /\ trancount = 0
CanEnd == AdoWorks /\ trancount = 1

BeginTrans ==
    /\ CanBegin
    /\ trancount' = 1
    /\ transaction_level' = 1
    /\ aborted' = FALSE
    /\ UNCHANGED <<session, pending, durable>>

CommitTrans ==
    /\ CanEnd
    /\ durable' = durable \cup pending
    /\ pending' = {}
    /\ trancount' = IF CommitRetaining THEN 1 ELSE 0
    /\ transaction_level' = 0
    /\ UNCHANGED <<session, aborted>>

RollbackTrans ==
    /\ CanEnd
    /\ pending' = {}
    /\ trancount' = IF AbortRetaining THEN 1 ELSE 0
    /\ transaction_level' = 0
    /\ UNCHANGED <<session, durable, aborted>>

\* The session ends as `as`; the server rolls back what it had open.
EndSession(as) ==
    /\ session' = as
    /\ trancount' = 0
    /\ pending' = {}
    /\ UNCHANGED <<transaction_level, aborted>>

\* At any time, also in the middle of an operation.
LoseSession ==
    /\ SessionLoss
    /\ session = "up"
    /\ EndSession("lost")
    /\ UNCHANGED <<pc, objVars, durable, historyVars, ret>>

------------------------------------------------------------------------------
(* Operations of the Connection object. *)

Callable == pc = "idle" /\ obj = "held"

\* The operation op is over with outcome out.
Return(op, out) ==
    /\ pc' = "idle"
    /\ ret' = [op |-> op, out |-> out, unit |-> unit]

\* The operation has made an ADO call and goes on with the one named step.
Continue(step) == pc' = step /\ UNCHANGED ret

\* A boundary of the application's unit of work, when the outcome is a success.
Boundary == unit' = {} /\ UNCHANGED issued

Fail(op, out) == Return(op, out) /\ UNCHANGED <<objVars, sessionVars, historyVars>>

------------------------------------------------------------------------------
(* Faults this code could have; no action uses them.  Each stands for the      *)
(* operation it is named after, to see that a property notices.                *)

\* A transaction is not opened where it has to be.
ConnectBeginForgotten ==
    /\ pc = "connect.begin"
    /\ Fail("connect", "ok")
CommitBeginForgotten ==
    /\ pc = "commit.begin"
    /\ Return("commit", "ok") /\ Boundary
    /\ UNCHANGED <<objVars, sessionVars>>
RollbackBeginForgotten ==
    /\ pc = "rollback.begin"
    /\ Return("rollback", "ok") /\ Boundary
    /\ UNCHANGED <<objVars, sessionVars>>

\* Only the flag moves.
SetAutocommitFlagOnly(value) ==
    /\ Callable
    /\ supportsTransactions = value
    /\ supportsTransactions' = ~value
    /\ Return("set_autocommit", "ok") /\ Boundary
    /\ UNCHANGED <<obj, adoConn, comInit, connects, sessionVars>>

\* The call is made and the flag does not move.
SetAutocommitCallOnly(value) ==
    /\ Callable
    /\ supportsTransactions = value
    /\ IF supportsTransactions THEN RollbackTrans ELSE BeginTrans
    /\ Return("set_autocommit", "ok") /\ Boundary
    /\ UNCHANGED <<objVars>>

\* The exception is swallowed.
CommitFailsSilently ==
    /\ Callable /\ supportsTransactions /\ ~CanEnd
    /\ Fail("commit", "ok")
CloseFailsSilently ==
    /\ Callable
    /\ IF supportsTransactions THEN ~CanEnd ELSE ~adoConn
    /\ Fail("close", "ok")

\* The test of @@TRANCOUNT is the wrong way round.
RollbackInverted ==
    /\ Callable /\ AdoWorks
    /\ IF trancount # 0
       THEN Return("rollback", "ok") /\ Boundary
       ELSE Continue("rollback.trans") /\ UNCHANGED historyVars
    /\ UNCHANGED <<objVars, sessionVars>>

\* __del__ without the line that lets adoConn go.
DelReleaseForgotten ==
    /\ pc = "del.release"
    /\ obj' = "none"
    /\ Continue("idle")
    /\ UNCHANGED <<adoConn, supportsTransactions, comInit, connects, sessionVars, historyVars>>

------------------------------------------------------------------------------

\* connect(): CoInitialize comes first and is not undone when Open() raises.
ConnectFails ==
    /\ pc = "idle" /\ obj = "none"
    /\ connects < MaxConnects
    /\ connects' = connects + 1
    /\ comInit' = comInit + 1
    /\ Return("connect", "OperationalError")
    /\ UNCHANGED <<obj, adoConn, supportsTransactions, sessionVars, historyVars>>

Connect(useTransactions) ==
    /\ pc = "idle" /\ obj = "none"
    /\ connects < MaxConnects
    /\ connects' = connects + 1
    /\ comInit' = comInit + 1
    /\ obj' = "held"
    /\ adoConn' = TRUE
    /\ supportsTransactions' = useTransactions
    /\ session' = "up"
    /\ trancount' = 0
    /\ transaction_level' = 0
    /\ aborted' = FALSE
    /\ Boundary
    /\ IF useTransactions THEN Continue("connect.begin") ELSE Return("connect", "ok")
    /\ UNCHANGED <<pending, durable>>

ConnectBegin ==
    /\ pc = "connect.begin"
    /\ BeginTrans
    /\ Return("connect", "ok")
    /\ UNCHANGED <<objVars, historyVars>>

\* __init__ raises: nobody holds the object, its destructor runs.
ConnectBeginFails ==
    /\ pc = "connect.begin"
    /\ ~CanBegin
    /\ obj' = "garbage"
    /\ pc' = "del.rollback"
    /\ ret' = [op |-> "connect", out |-> "OperationalError", unit |-> unit]
    /\ UNCHANGED <<adoConn, supportsTransactions, comInit, connects, sessionVars, historyVars>>

\* A data change through a cursor of the connection.
Execute(w) ==
    /\ Callable
    /\ w \notin issued
    /\ AdoWorks
    /\ IF trancount = 1
       THEN pending' = pending \cup {w} /\ UNCHANGED durable
       ELSE durable' = durable \cup {w} /\ UNCHANGED pending
    /\ issued' = issued \cup {w}
    /\ unit' = unit \cup {w}
    /\ Return("execute", "ok")
    /\ UNCHANGED <<objVars, session, trancount, transaction_level, aborted>>

\* The statement alone fails, or does not reach the server.
ExecuteFails ==
    /\ Callable
    /\ Fail("execute", "DatabaseError")

\* The statement fails and the server rolls the whole transaction back.
ExecuteAborted ==
    /\ Callable
    /\ ServerAborts
    /\ CanEnd
    /\ trancount' = 0
    /\ pending' = {}
    /\ aborted' = TRUE
    /\ Return("execute", "DatabaseError")
    /\ UNCHANGED <<objVars, session, transaction_level, durable, historyVars>>

IsUsable ==
    /\ Callable
    /\ Fail("is_usable", IF AdoWorks THEN "ok" ELSE "False")

CommitUnsupported ==
    /\ Callable
    /\ ~supportsTransactions
    /\ Return("commit", "ok")
    /\ Boundary
    /\ UNCHANGED <<objVars, sessionVars>>

Commit ==
    /\ Callable
    /\ supportsTransactions
    /\ CommitTrans
    /\ IF CommitRetaining
       THEN Return("commit", "ok") /\ Boundary
       ELSE Continue("commit.begin") /\ UNCHANGED historyVars
    /\ UNCHANGED objVars

CommitFails ==
    /\ Callable
    /\ supportsTransactions
    /\ ~CanEnd
    /\ Fail("commit", "Error")

\* The session is lost during CommitTrans, before or after the server's commit.
CommitLosesSession ==
    /\ Callable
    /\ supportsTransactions
    /\ SessionLoss
    /\ CanEnd
    /\ EndSession("lost")
    /\ durable' \in {durable, durable \cup pending}
    /\ Return("commit", "Error")
    /\ UNCHANGED <<objVars, historyVars>>

\* commit() drops the level BeginTrans returns: transaction_level stays at
\* what CommitTrans gave.
CommitBegin ==
    /\ pc = "commit.begin"
    /\ CanBegin
    /\ trancount' = 1
    /\ aborted' = FALSE
    /\ Return("commit", "ok")
    /\ Boundary
    /\ UNCHANGED <<objVars, session, transaction_level, pending, durable>>

CommitBeginFails ==
    /\ pc = "commit.begin"
    /\ ~CanBegin
    /\ Fail("commit", "Error")

\* rollback() asks for @@TRANCOUNT, whether or not the connection is manual.
Rollback ==
    /\ Callable
    /\ AdoWorks
    /\ IF trancount = 0
       THEN Return("rollback", "ok") /\ Boundary
       ELSE Continue("rollback.trans") /\ UNCHANGED historyVars
    /\ UNCHANGED <<objVars, sessionVars>>

RollbackFails ==
    /\ Callable
    /\ ~AdoWorks
    /\ Fail("rollback", "DatabaseError")

RollbackTransStep ==
    /\ pc = "rollback.trans"
    /\ RollbackTrans
    /\ IF AbortRetaining
       THEN Return("rollback", "ok") /\ Boundary
       ELSE Continue("rollback.begin") /\ UNCHANGED historyVars
    /\ UNCHANGED objVars

RollbackBegin ==
    /\ pc = "rollback.begin"
    /\ BeginTrans
    /\ Return("rollback", "ok")
    /\ Boundary
    /\ UNCHANGED objVars

\* Neither ADO call of rollback() is in a try: the COM error goes up as it is.
RollbackTransFails ==
    /\ \/ pc = "rollback.trans" /\ ~CanEnd
       \/ pc = "rollback.begin" /\ ~CanBegin
    /\ Fail("rollback", "raw")

SetAutocommitSame(value) ==
    /\ Callable
    /\ supportsTransactions = ~value
    /\ Fail("set_autocommit", "ok")

\* Turning autocommit on rolls the transaction back; turning it off starts one.
SetAutocommit(value) ==
    /\ Callable
    /\ supportsTransactions = value
    /\ IF supportsTransactions THEN RollbackTrans ELSE BeginTrans
    /\ supportsTransactions' = ~value
    /\ Return("set_autocommit", "ok")
    /\ Boundary
    /\ UNCHANGED <<obj, adoConn, comInit, connects>>

\* The ADO call raises: supportsTransactions keeps its value.
SetAutocommitFails(value) ==
    /\ Callable
    /\ supportsTransactions = value
    /\ IF supportsTransactions THEN ~CanEnd ELSE ~CanBegin
    /\ Fail("set_autocommit", "raw")

\* close(): _close_connection rolls back, then closes the ADO connection.
CloseRollback ==
    /\ Callable
    /\ adoConn
    /\ IF supportsTransactions THEN RollbackTrans ELSE UNCHANGED sessionVars
    /\ Continue("close.ado")
    /\ Boundary
    /\ UNCHANGED objVars

\* RollbackTrans raises, or adoConn is None: Close() is not reached.
CloseFails ==
    /\ Callable
    /\ IF supportsTransactions THEN ~CanEnd ELSE ~adoConn
    /\ Fail("close", "InternalError")

CloseAdo ==
    /\ pc = "close.ado"
    /\ trancount = 0
    /\ EndSession("none")
    /\ adoConn' = FALSE
    /\ comInit' = comInit - 1
    /\ Return("close", "ok")
    /\ UNCHANGED <<durable, obj, supportsTransactions, connects, historyVars>>

\* ADO refuses to close a connection with a transaction in progress.
CloseAdoFails ==
    /\ pc = "close.ado"
    /\ trancount # 0
    /\ Fail("close", "InternalError")

\* The last reference goes: __del__ runs.
Collect ==
    /\ Callable
    /\ obj' = "garbage"
    /\ pc' = "del.rollback"
    /\ UNCHANGED <<adoConn, supportsTransactions, comInit, connects, sessionVars,
                   historyVars, ret>>

\* __del__ swallows what _close_connection raises ...
DelRollback ==
    /\ pc = "del.rollback"
    /\ \/ supportsTransactions /\ RollbackTrans
       \/ ~(supportsTransactions /\ CanEnd) /\ UNCHANGED sessionVars
    /\ Continue("del.release")
    /\ UNCHANGED <<objVars, historyVars>>

\* ... and lets adoConn go, which ends the session if Close() did not.
DelRelease ==
    /\ pc = "del.release"
    /\ EndSession("none")
    /\ adoConn' = FALSE
    /\ obj' = "none"
    /\ Continue("idle")
    /\ UNCHANGED <<durable, supportsTransactions, comInit, connects, historyVars>>

------------------------------------------------------------------------------

\* The ADO calls of an operation that has begun.
OperationStep ==
    \/ ConnectBegin \/ ConnectBeginFails
    \/ CommitBegin \/ CommitBeginFails
    \/ RollbackTransStep \/ RollbackBegin \/ RollbackTransFails
    \/ CloseAdo \/ CloseAdoFails
    \/ DelRollback \/ DelRelease

Next ==
    \/ ConnectFails
    \/ \E useTransactions \in BOOLEAN : Connect(useTransactions)
    \/ \E w \in Writes : Execute(w)
    \/ ExecuteFails \/ ExecuteAborted
    \/ IsUsable
    \/ CommitUnsupported \/ Commit \/ CommitFails \/ CommitLosesSession
    \/ Rollback \/ RollbackFails
    \/ \E value \in BOOLEAN :
          SetAutocommitSame(value) \/ SetAutocommit(value) \/ SetAutocommitFails(value)
    \/ CloseRollback \/ CloseFails
    \/ Collect
    \/ OperationStep
    \/ LoseSession

Spec == Init /\ [][Next]_vars

\* A call that has begun runs to its end: one thread, no waiting.
FairSpec == Spec /\ WF_vars(OperationStep)

------------------------------------------------------------------------------
(* Safety. *)

\* Between two calls, on a connection whose session is alive.
Settled == Callable /\ AdoWorks

\* Manual mode is real: between two calls a manual connection has a
\* transaction open and the transaction holds exactly the writes acknowledged
\* since the last boundary.  The one exception is a connection whose
\* transaction the server has ended.  (__init__, commit, rollback,
\* set_autocommit each have to leave a transaction behind.)
UnitAccounted ==
    Settled /\ supportsTransactions /\ ~aborted => trancount = 1 /\ pending = unit

\* Work is never pending outside a transaction, nor after its session.
PendingInTransaction == pending # {} => session = "up" /\ trancount = 1

\* An autocommit connection has no transaction open between two calls, so that
\* what it acknowledged is durable (set_autocommit has to leave none behind).
AutoIsDurable ==
    Settled /\ ~supportsTransactions => trancount = 0 /\ unit \subseteq durable

\* When commit() returns normally on a manual connection, every write that was
\* acknowledged since the boundary before it is durable, whatever the server
\* did to the transaction meanwhile.
CommitKeeps ==
    Callable /\ supportsTransactions /\ ret.op = "commit" /\ ret.out = "ok"
        => ret.unit \subseteq durable

\* "Abort a pending transaction": when rollback() returns normally on a manual
\* connection, none of the writes acknowledged since the boundary before it is
\* durable or can still become so.
RollbackUndoes ==
    Callable /\ supportsTransactions /\ ret.op = "rollback" /\ ret.out = "ok"
        => ret.unit \cap (durable \cup pending) = {}

\* COM is initialised for as long as the thread has a live ADO connection:
\* close() uninitialises it once, however often it is called.
ComInitialised == adoConn => comInit > 0

\* The inductive invariant behind the properties above, which the theorems of
\* DbapiConnectionProofs rest on.  First, what holds in the middle of the
\* operations: who holds what when an operation goes on after an ADO call.
StepInv ==
    /\ pc \in {"connect.begin", "commit.begin", "rollback.trans", "rollback.begin",
               "close.ado"} => obj = "held" /\ adoConn
    /\ pc \in {"connect.begin", "commit.begin"} => supportsTransactions
    /\ pc \in {"connect.begin", "commit.begin", "rollback.begin"} => trancount = 0
    /\ pc = "rollback.trans" /\ session = "up" => trancount = 1
    /\ pc \in {"del.rollback", "del.release"} <=> obj = "garbage"
    /\ obj = "none" => ~adoConn
    /\ adoConn <=> session # "none"
    /\ aborted => trancount = 0

\* Second, where the writes of the unit of work are in the middle of them.
UnitStepInv ==
    /\ pc = "connect.begin" => unit = {}
    /\ pc = "commit.begin" => unit \subseteq durable
    /\ pc = "rollback.trans" /\ supportsTransactions /\ session = "up" => pending = unit
    /\ pc = "rollback.begin" /\ supportsTransactions => unit \cap durable = {}
    /\ pc = "close.ado" /\ supportsTransactions => pending = {} /\ unit = {}
    /\ pending \cap durable = {}
    /\ pending \cup durable \subseteq issued

IInv ==
    /\ TypeOK
    /\ ComInitialised
    /\ StepInv
    /\ PendingInTransaction
    /\ UnitStepInv
    /\ UnitAccounted

\* Third, for a provider whose aborts do not retain: an autocommit connection
\* has nothing open.
AutoInv ==
    /\ session = "up" /\ ~supportsTransactions => trancount = 0
    /\ ~supportsTransactions => unit \subseteq durable
    /\ pc \in {"rollback.trans", "rollback.begin"} => supportsTransactions

------------------------------------------------------------------------------
(* What a step may never do. *)

\* On a manual connection a step that makes anything durable makes the whole
\* transaction durable and nothing else: no statement commits by itself, no
\* commit keeps a part.
ManualIsAtomic ==
    [][supportsTransactions /\ durable' # durable
         => durable' = durable \cup pending /\ pending' = {}]_vars

\* An operation on a closed manual connection raises one of the module's Error
\* classes (test_close of dbapi20.py).
ClosedRaises ==
    [][Callable /\ ~adoConn /\ supportsTransactions /\ ret' # ret
          /\ ret'.op \in {"execute", "commit", "rollback", "close"}
         => ret'.out \in Errors]_vars

------------------------------------------------------------------------------
(* Liveness. *)

\* __del__ always ends the session of a collected connection, also when
\* RollbackTrans raises and Close() is not reached.
GarbageReleased ==
    obj = "garbage" ~> obj = "none" /\ session = "none" /\ ~adoConn

\* A commit that has committed comes back either with the next transaction
\* open or with an Error.
CommitReopens ==
    pc = "commit.begin" ~>
        pc = "idle" /\ ret.op = "commit" /\ (ret.out = "ok" <=> trancount = 1)

------------------------------------------------------------------------------
(* Refinement. *)

Contract == INSTANCE TransactionContract WITH
    mode <- IF session = "up"
            THEN IF supportsTransactions THEN "manual" ELSE "auto"
            ELSE "none"

\* The connection keeps the contract of TransactionContract.
ImplementsContract == Contract!CSpec

==============================================================================
