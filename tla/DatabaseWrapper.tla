--------------------------- MODULE DatabaseWrapper ---------------------------
(***************************************************************************)
(* base.DatabaseWrapper as Django's atomic() uses it: nested blocks, their *)
(* savepoints and loads with constraint checking turned off, over one      *)
(* dbapi Connection (DbapiConnection, whose steps are the steps here).     *)
(*                                                                         *)
(* atomic() itself is Django's: entering the outermost block turns         *)
(* autocommit off, leaving it commits or rolls back and turns it on again; *)
(* an inner block makes a savepoint, rolls back to it when an exception    *)
(* leaves the block, and sets needs_rollback when it cannot.  The          *)
(* application does what Django asks of it: an exception leaves the block  *)
(* it is raised in, and may be caught outside of it.                       *)
(***************************************************************************)
EXTENDS DbapiConnection, Sequences

CONSTANTS
    Dangling,           \* writes of rows that refer to a row that does not exist
    MaxDepth,           \* bound: blocks open at a time
    MaxSavepoints       \* bound: savepoints made

ASSUME DanglingAssumption == Dangling \subseteq Writes
ASSUME BoundsAssumption == MaxDepth \in Nat /\ MaxSavepoints \in Nat

VARIABLES
    step,               \* "app", or the call of the connection atomic() is in
    blocks,             \* the open blocks: savepoint and writes of each
    needs_rollback,
    failing,            \* an exception is on its way out of the current block
    savepoint_state,    \* savepoints made so far; names the next one
    saves,              \* the savepoints of the session's transaction
    checking,           \* the constraints are enabled, as the session sees it
    dbChecking,         \* ... and as they are without the session's transaction
    load,               \* a load in the current block: "none", "off", "check"
    last                \* history: what became of the last outermost block

wrapperVars == <<step, blocks, needs_rollback, failing, savepoint_state, load, last>>
catalogVars == <<saves, checking, dbChecking>>
wvars == <<vars, wrapperVars, catalogVars>>

NoSavepoint == 0

WTypeOK ==
    /\ step \in {"app", "connect", "commit", "rollback", "close", "drop"}
    /\ blocks \in Seq([sid : Nat, work : SUBSET Writes])
    /\ needs_rollback \in BOOLEAN
    /\ failing \in BOOLEAN
    /\ savepoint_state \in Nat
    /\ saves \in Seq([sid : Nat, pending : SUBSET Writes, checking : BOOLEAN])
    /\ checking \in BOOLEAN
    /\ dbChecking \in BOOLEAN
    /\ load \in {"none", "off", "check"}
    /\ last \in [how : {"none", "committed", "undone", "unknown"}, work : SUBSET Writes]

WInit ==
    /\ Init
    /\ step = "app"
    /\ blocks = <<>>
    /\ needs_rollback = FALSE
    /\ failing = FALSE
    /\ savepoint_state = 0
    /\ saves = <<>>
    /\ checking = TRUE
    /\ dbChecking = TRUE
    /\ load = "none"
    /\ last = [how |-> "none", work |-> {}]

------------------------------------------------------------------------------
(* The session's transaction, as far as it is more than its writes. *)

\* The transaction is over without a commit: the catalog is as it was.
CatalogUndone ==
    /\ saves' = <<>>
    /\ checking' = dbChecking
    /\ UNCHANGED dbChecking

CatalogCommitted ==
    /\ saves' = <<>>
    /\ dbChecking' = checking
    /\ UNCHANGED checking

\* A statement that changes the catalog, in the transaction if there is one.
SetChecking(value) ==
    /\ checking' = value
    /\ dbChecking' = IF trancount = 1 THEN dbChecking ELSE value
    /\ UNCHANGED saves

\* Any statement of the wrapper that changes nothing but the catalog.
Statement ==
    /\ AdoWorks
    /\ Return("execute", "ok")
    /\ UNCHANGED <<objVars, sessionVars, historyVars>>

------------------------------------------------------------------------------
(* Connecting, and giving a connection up. *)

InApp == step = "app" /\ pc = "idle"
Between == InApp /\ blocks = <<>>
Depth == Len(blocks)
Top == blocks[Depth]

\* get_connection_params asks for a manual connection unless OPTIONS has
\* "autocommit"; then Django turns autocommit on.
OpenConnection ==
    /\ Between /\ obj = "none"
    /\ \/ \E useTransactions \in BOOLEAN : Connect(useTransactions) /\ step' = "connect"
       \/ ConnectFails /\ UNCHANGED step
    /\ UNCHANGED <<blocks, needs_rollback, failing, savepoint_state, load, last, catalogVars>>

\* The ADO calls of the connection's own methods.  None of them leaves behind
\* what the transaction had when it began.
ConnectionStep ==
    /\ OperationStep
    /\ CatalogUndone
    /\ UNCHANGED wrapperVars

\* _set_autocommit(True), after connect() and after a block.  Only a connection
\* that was opened with autocommit has nothing to change.
RestoreAutocommit ==
    /\ step \in {"connect", "commit", "rollback"} /\ pc = "idle" /\ obj = "held"
    /\ ~(step = "rollback" /\ ret.out = "DatabaseError")
    /\ \/ SetAutocommit(TRUE) /\ step' = "app"
       \/ SetAutocommitFails(TRUE) /\ step' = "close"
       \/ step = "connect" /\ SetAutocommitSame(TRUE) /\ step' = "app"
    /\ last' = IF step = "commit" /\ ret.out = "ok" /\ step' = "app"
               THEN [last EXCEPT !.how = "committed"] ELSE last
    /\ CatalogUndone
    /\ UNCHANGED <<blocks, needs_rollback, failing, savepoint_state, load>>

\* DatabaseWrapper.close: atomic() calls it when rollback() raises an Error of
\* the module, the application when it is between blocks, and Django at the end
\* of the request when autocommit could not be restored.
CloseConnection ==
    /\ \/ Between /\ obj = "held"
       \/ step = "close" /\ pc = "idle"
       \/ step = "rollback" /\ pc = "idle" /\ ret.out = "DatabaseError"
    /\ CloseRollback \/ CloseFails
    /\ step' = "drop"
    /\ CatalogUndone
    /\ UNCHANGED <<blocks, needs_rollback, failing, savepoint_state, load, last>>

\* self.connection = None, whatever close() did: the last reference is gone.
DropConnection ==
    /\ step = "drop" /\ pc = "idle"
    /\ Collect
    /\ UNCHANGED <<wrapperVars, catalogVars>>

Dropped ==
    /\ step \in {"drop", "connect"} /\ pc = "idle" /\ obj = "none"
    /\ step' = "app"
    /\ UNCHANGED <<vars, blocks, needs_rollback, failing, savepoint_state, load, last, catalogVars>>

Lose ==
    /\ LoseSession
    /\ CatalogUndone
    /\ UNCHANGED wrapperVars

------------------------------------------------------------------------------
(* Statements of the application. *)

\* validate_no_broken_transaction lets no statement through once a rollback is
\* needed; an exception that is not caught yet lets none be made.
Working == InApp /\ obj = "held" /\ ~needs_rollback /\ ~failing

\* Rows that refer to nothing pass only while the constraints are disabled.
AppWrite(w) ==
    /\ Working /\ load # "check"
    /\ w \in Dangling => ~checking
    /\ Execute(w)
    /\ blocks' = IF Depth = 0 THEN blocks ELSE [blocks EXCEPT ![Depth].work = @ \cup {w}]
    /\ UNCHANGED <<step, needs_rollback, failing, savepoint_state, load, last, catalogVars>>

\* A statement raises; the load it was part of, if any, goes to its finally.
Raises ==
    /\ failing' = (blocks # <<>>)
    /\ load' = IF load = "off" THEN "off" ELSE "none"
    /\ UNCHANGED <<step, blocks, needs_rollback, savepoint_state, last>>

StatementFails ==
    /\ Working
    /\ \/ ExecuteFails /\ UNCHANGED catalogVars
       \/ ExecuteAborted /\ CatalogUndone
    /\ Raises

\* An exception of the application itself.
AppRaises ==
    /\ Working /\ blocks # <<>>
    /\ Raises
    /\ UNCHANGED <<vars, catalogVars>>

------------------------------------------------------------------------------
(* Entering and leaving blocks. *)

EnterOutermost ==
    /\ Between /\ obj = "held"
    /\ \/ SetAutocommit(FALSE) /\ blocks' = <<[sid |-> NoSavepoint, work |-> {}]>>
       \/ SetAutocommitFails(FALSE) /\ UNCHANGED blocks
    /\ UNCHANGED <<step, needs_rollback, failing, savepoint_state, load, last, catalogVars>>

CanEnter == InApp /\ ~failing /\ load = "none" /\ Depth \in 1..MaxDepth - 1

\* SAVE TRANSACTION, when the block asks for a savepoint.
EnterSavepoint ==
    /\ CanEnter /\ ~needs_rollback /\ CanEnd
    /\ savepoint_state < MaxSavepoints
    /\ Statement
    /\ savepoint_state' = savepoint_state + 1
    /\ saves' = Append(saves, [sid |-> savepoint_state', pending |-> pending,
                              checking |-> checking])
    /\ blocks' = Append(blocks, [sid |-> savepoint_state', work |-> {}])
    /\ UNCHANGED <<step, needs_rollback, failing, load, last, checking, dbChecking>>

EnterPlain ==
    /\ CanEnter
    /\ blocks' = Append(blocks, [sid |-> NoSavepoint, work |-> {}])
    /\ UNCHANGED <<vars, step, needs_rollback, failing, savepoint_state, load, last, catalogVars>>

\* Fault, used by no action: a rollback goes to the first savepoint.
FirstSavepoint == DOMAIN saves \cap {1}

Normal == ~failing /\ ~needs_rollback

CanLeave == InApp /\ load = "none"
Outer == SubSeq(blocks, 1, Depth - 1)

\* _savepoint_commit makes no call: the savepoint stays.
LeaveInner ==
    /\ CanLeave /\ Depth > 1 /\ Normal
    /\ blocks' = [Outer EXCEPT ![Depth - 1].work = @ \cup Top.work]
    /\ UNCHANGED <<vars, step, needs_rollback, failing, savepoint_state, load, last, catalogVars>>

\* The exception goes on, or is caught outside of the block it has left.
Leaving ==
    /\ CanLeave /\ Depth > 1 /\ ~Normal
    /\ blocks' = Outer
    /\ failing' \in {failing, FALSE}
    /\ UNCHANGED <<step, savepoint_state, load, last>>

\* The savepoint that savepoint_rollback_sql names.
Savepoint == {i \in DOMAIN saves : saves[i].sid = Top.sid}

\* ROLLBACK TRANSACTION sid: the transaction stays open, as it was when the
\* savepoint was made.
UndoInner ==
    /\ Leaving /\ CanEnd
    /\ \E i \in Savepoint :
          /\ pending' = saves[i].pending
          /\ checking' = saves[i].checking
          /\ saves' = SubSeq(saves, 1, i)
    /\ unit' = unit \ (pending \ pending')
    /\ Return("execute", "ok")
    /\ needs_rollback' = FALSE
    /\ UNCHANGED <<objVars, session, trancount, transaction_level, durable, aborted,
                   issued, dbChecking>>

\* There is no savepoint, or the statement raises.
UndoInnerFails ==
    /\ Leaving
    /\ \/ Top.sid = NoSavepoint /\ UNCHANGED <<vars, catalogVars>>
       \/ Top.sid # NoSavepoint /\ ExecuteFails /\ UNCHANGED catalogVars
       \/ Top.sid # NoSavepoint /\ ExecuteAborted /\ CatalogUndone
    /\ needs_rollback' = TRUE

Outermost(as, how) ==
    /\ CanLeave /\ Depth = 1
    /\ blocks' = <<>>
    /\ step' = as
    /\ last' = [how |-> how, work |-> Top.work]
    /\ failing' = FALSE
    /\ needs_rollback' = FALSE
    /\ UNCHANGED <<savepoint_state, load>>

\* dbapi's commit() raises its Error, which Django's `except DatabaseError`
\* does not catch: there is no rollback(), autocommit is turned on next.
LeaveOutermost ==
    /\ Normal
    /\ Outermost("commit", "unknown")
    /\ \/ Commit /\ CatalogCommitted
       \/ CommitFails /\ UNCHANGED catalogVars
       \/ CommitLosesSession /\ durable' = durable /\ CatalogUndone
       \/ CommitLosesSession /\ durable' # durable /\ CatalogCommitted

UndoOutermost ==
    /\ ~Normal
    /\ Outermost("rollback", "undone")
    /\ Rollback \/ RollbackFails
    /\ UNCHANGED catalogVars

------------------------------------------------------------------------------
(* constraint_checks_disabled() and check_constraints(), as a load of fixtures *)
(* calls them in its block.                                                    *)

DisableConstraintChecking ==
    /\ Working /\ blocks # <<>> /\ load = "none" /\ AdoWorks
    /\ Statement
    /\ SetChecking(FALSE)
    /\ load' = "off"
    /\ UNCHANGED <<step, blocks, needs_rollback, failing, savepoint_state, last>>

\* In a finally, and on a cursor of the connection itself: Django's test of
\* needs_rollback is not made.  The data is not checked.
Enabling == load = "off"

EnableConstraintChecking ==
    /\ InApp /\ Enabling /\ AdoWorks
    /\ Statement
    /\ SetChecking(TRUE)
    /\ load' = IF failing THEN "none" ELSE "check"
    /\ UNCHANGED <<step, blocks, needs_rollback, failing, savepoint_state, last>>

EnableFails ==
    /\ InApp /\ Enabling
    /\ \/ ExecuteFails /\ UNCHANGED catalogVars
       \/ ExecuteAborted /\ CatalogUndone
    /\ failing' = TRUE
    /\ load' = "none"
    /\ UNCHANGED <<step, blocks, needs_rollback, savepoint_state, last>>

\* Fault, used by no action: cursor.description is not looked at.
NothingReported == FALSE

\* DBCC CHECKCONSTRAINTS reports rows, so that the cursor has a description.
Reported == Dangling \cap (pending \cup durable) # {}

CheckConstraints ==
    /\ Working /\ load = "check" /\ AdoWorks
    /\ Statement
    /\ failing' = Reported
    /\ load' = "none"
    /\ UNCHANGED <<step, blocks, needs_rollback, savepoint_state, last, catalogVars>>

------------------------------------------------------------------------------

\* What atomic() does after the commit or rollback, also within connect().
Exiting ==
    \/ RestoreAutocommit
    \/ step = "rollback" /\ CloseConnection
    \/ DropConnection
    \/ Dropped

WNext ==
    \/ OpenConnection \/ ConnectionStep \/ RestoreAutocommit
    \/ CloseConnection \/ DropConnection \/ Dropped \/ Lose
    \/ \E w \in Writes : AppWrite(w)
    \/ StatementFails \/ AppRaises
    \/ EnterOutermost \/ EnterSavepoint \/ EnterPlain
    \/ LeaveInner \/ UndoInner \/ UndoInnerFails
    \/ LeaveOutermost \/ UndoOutermost
    \/ DisableConstraintChecking \/ EnableConstraintChecking \/ EnableFails
    \/ CheckConstraints

WSpec == WInit /\ [][WNext]_wvars

\* The exit of a block runs to its end in the one thread of the connection;
\* when the request ends, so that Django closes, is up to the application.
WFairSpec == WSpec /\ WF_wvars(ConnectionStep) /\ WF_wvars(Exiting)

------------------------------------------------------------------------------
(* Safety. *)

Union(works) == UNION {works[i] : i \in DOMAIN works}
Works == [i \in DOMAIN blocks |-> blocks[i].work]

\* While statements can be made in a block, what the session has pending is what
\* the open blocks have written: nothing of an inner block that was undone is
\* left, and rolling back to a savepoint has taken nothing of the blocks around
\* it with it, whatever failed on the way.
PendingIsWork ==
    InApp /\ blocks # <<>> /\ AdoWorks /\ ~needs_rollback /\ ~failing
        => trancount = 1 /\ pending = Union(Works)

\* What the application is told of an outermost block is true of its writes: all
\* of them are durable, none is, or all or none when an exception came out of
\* the commit itself.
BlockOutcome ==
    /\ last.how = "committed" => last.work \subseteq durable
    /\ last.how = "undone" => last.work \cap durable = {}
    /\ last.how = "unknown" => last.work \subseteq durable \/ last.work \cap durable = {}

\* No row that refers to nothing is ever committed, and the constraints are never
\* left disabled: not in the database, nor for the session between blocks, however
\* the load that disabled them ended.
IntegrityKept ==
    /\ Dangling \cap durable = {}
    /\ dbChecking
    /\ step = "app" /\ blocks = <<>> => checking

\* Why IntegrityKept holds: disabled constraints and rows that refer to nothing
\* are held in a transaction that cannot commit yet, and no savepoint remembers
\* either.
Unclean == ~checking \/ Dangling \cap pending # {}

IntegrityInv ==
    /\ WTypeOK
    /\ IntegrityKept
    /\ blocks # <<>> => /\ step = "app" /\ pc = "idle" /\ obj = "held"
                        /\ AdoWorks /\ ~needs_rollback /\ ~failing => trancount = 1
    /\ Unclean => /\ trancount = 1
                  /\ step # "app" \/ blocks # <<>>
                  /\ \/ load # "none" \/ failing \/ needs_rollback
                     \/ step \in {"rollback", "drop"}
    /\ load # "none" => blocks # <<>>
    /\ ~checking => load # "check"
    /\ \A i \in DOMAIN saves :
          saves[i].checking /\ Dangling \cap saves[i].pending = {}

\* Which calls of the connection a step of atomic() can be in the middle of.
CallInv ==
    /\ step \in {"app", "close"} => pc = "idle"
    /\ step = "connect" => pc \in {"idle", "connect.begin", "del.rollback", "del.release"}
    /\ step = "commit" => pc \in {"idle", "commit.begin"}
    /\ step = "rollback" => pc \in {"idle", "rollback.trans", "rollback.begin"}
    /\ step = "drop" => pc \in {"idle", "close.ado", "del.rollback", "del.release"}
    /\ trancount = 1 => session = "up"
    /\ step = "connect" => supportsTransactions \/ trancount = 0
    /\ blocks # <<>> => supportsTransactions
    /\ step = "app" /\ blocks = <<>> /\ obj = "held" => ~supportsTransactions

\* What a rollback to a savepoint would bring back: no less than the savepoints
\* before it, and for an open block exactly the writes of the blocks around it.
WorkAround(k) == UNION {blocks[j].work : j \in 1..(k - 1)}
SavesInv ==
    /\ saves # <<>> => trancount = 1
    /\ \A i \in DOMAIN saves : saves[i].sid \in 1..savepoint_state
    /\ \A i, j \in DOMAIN saves : i <= j => saves[i].pending \subseteq saves[j].pending
    /\ \A i \in DOMAIN saves : saves[i].pending \subseteq pending
    /\ \A k \in DOMAIN blocks : blocks[k].sid <= savepoint_state
    /\ \A k \in DOMAIN blocks, i \in DOMAIN saves :
          saves[i].sid = blocks[k].sid => saves[i].pending = WorkAround(k)

\* Whose writes are durable: none of an open block, and those of the last one as
\* soon as its commit has succeeded.
WorkInv ==
    /\ \A k \in DOMAIN blocks : blocks[k].work \subseteq issued \ durable
    /\ last.work \subseteq issued
    /\ blocks # <<>> => pending \cap last.work = {}
    /\ step = "commit" /\ (pc = "commit.begin" \/ ret.out = "ok") => last.work \subseteq durable

\* The inductive invariant behind the properties: what is open, pending and durable
\* in every step of nested blocks, of savepoints and of loads with constraint
\* checking turned off.
WInv ==
    /\ IInv
    /\ IntegrityInv
    /\ CallInv
    /\ SavesInv
    /\ WorkInv
    /\ PendingIsWork
    /\ BlockOutcome

------------------------------------------------------------------------------
(* Refinement and liveness. *)

Atomic == INSTANCE AtomicContract WITH stack <- Works

\* Nested blocks keep the contract of AtomicContract, over every failure of the
\* session, the transaction and the statements.
ImplementsAtomic == Atomic!ASpec

\* The exit of an outermost block, and connect(), always end: in autocommit, or
\* with a connection that Django closes when the request ends.
ExitEnds ==
    step \in {"connect", "commit", "rollback", "drop"} ~>
        \/ step = "app" /\ (AdoWorks => ~supportsTransactions)
        \/ step = "close"

==============================================================================
