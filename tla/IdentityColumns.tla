--------------------------- MODULE IdentityColumns ---------------------------
(***************************************************************************)
(* Inserts into tables whose key is an IDENTITY column, by the sessions of *)
(* several connections.  An insert or an update is one batch of SQL        *)
(* statements (SQLInsertCompiler, SQLUpdateCompiler); the statements of    *)
(* two sessions interleave.  sql_flush counts the rows first and gives     *)
(* statements that Django executes later, in one transaction.              *)
(*                                                                         *)
(* The server is external: IDENTITY_INSERT and NOCOUNT are settings of the *)
(* session, at most one table at a time has IDENTITY_INSERT, an error of a *)
(* statement lets its batch go on or ends it, and DBCC CHECKIDENT(RESEED)  *)
(* has "the braindeaded inconsistency" operations.py:262 is about.         *)
(***************************************************************************)
EXTENDS Integers

CONSTANTS
    Sessions,
    Tables,
    None,
    ExplicitIds,        \* the keys the application gives itself
    BatchAborts,        \* a statement may end its batch (deadlock, timeout)
    MaxId               \* bound: the greatest key generated

ASSUME IdsAssumption == ExplicitIds \in SUBSET (Nat \ {0}) /\ MaxId \in Nat
ASSUME BatchAbortsAssumption == BatchAborts \in BOOLEAN

VARIABLES
    rows,               \* the keys of each table
    last,               \* IDENT_CURRENT of each table
    virgin,             \* no row was ever inserted into the table
    identityInsert,     \* the table with SET IDENTITY_INSERT ON, or None
    nocount,            \* SET NOCOUNT ON
    call,               \* the call in progress in each session, or None
    pc,                 \* the statement its batch executes next, or "done"
    output,             \* the table variable @sqlserver_ado_return_id
    ret,                \* the outcome of the call in progress or of the last
                        \* one: known is a row count that is not -1; own is
                        \* history, the key of the row an insert wrote
    leaked,             \* history: enable_identity_insert was called, or a batch
                        \* was ended, since IDENTITY_INSERT was last put OFF
    counted             \* sql_flush: the tables that had rows, or None

tableVars == <<rows, last, virgin>>
vars == <<tableVars, identityInsert, nocount, call, pc, output, ret, leaked, counted>>

Kinds == {"insert", "update", "enable", "disable"}
Calls == [kind : Kinds, table : Tables,
          id : ExplicitIds \cup {None}, returnId : BOOLEAN]
Returns == [kind : Kinds \cup {None}, wantsId : BOOLEAN, raises : BOOLEAN, known : BOOLEAN,
            id : Int \cup {None}, own : Int \cup {None}]
Statements == {"NOCOUNT ON", "NOCOUNT OFF", "IDENTITY_INSERT ON", "IDENTITY_INSERT OFF",
               "INSERT", "UPDATE", "SELECT"}

TypeOK ==
    /\ rows \in [Tables -> SUBSET Int]
    /\ last \in [Tables -> Int]
    /\ virgin \in [Tables -> BOOLEAN]
    /\ identityInsert \in [Sessions -> Tables \cup {None}]
    /\ nocount \in [Sessions -> BOOLEAN]
    /\ call \in [Sessions -> Calls \cup {None}]
    /\ pc \in [Sessions -> Statements \cup {"done"}]
    /\ output \in [Sessions -> Int \cup {None}]
    /\ ret \in [Sessions -> Returns]
    /\ leaked \in [Sessions -> BOOLEAN]
    /\ counted \in (SUBSET Tables) \cup {None}

\* None is none of the values it stands beside.
ASSUME NoneAssumption ==
    /\ None \notin Tables /\ None \notin Int
    /\ None \notin Kinds /\ None \notin Calls

Nothing == [kind |-> None, wantsId |-> FALSE, raises |-> FALSE, known |-> FALSE,
            id |-> None, own |-> None]

\* IDENTITY (1, 1).
Init ==
    /\ rows = [t \in Tables |-> {}]
    /\ last = [t \in Tables |-> 1]
    /\ virgin = [t \in Tables |-> TRUE]
    /\ identityInsert = [s \in Sessions |-> None]
    /\ nocount = [s \in Sessions |-> FALSE]
    /\ call = [s \in Sessions |-> None]
    /\ pc = [s \in Sessions |-> "done"]
    /\ output = [s \in Sessions |-> None]
    /\ ret = [s \in Sessions |-> Nothing]
    /\ leaked = [s \in Sessions |-> FALSE]
    /\ counted = None

------------------------------------------------------------------------------
(* The server. *)

\* The key the server generates next.
NextId(t) == IF virgin[t] THEN last[t] ELSE last[t] + 1

Larger(a, b) == IF a > b THEN a ELSE b

\* The row with key id is written; a key the application gives moves the
\* counter only upwards.
Write(t, id) ==
    /\ rows' = [rows EXCEPT ![t] = @ \cup {id}]
    /\ last' = [last EXCEPT ![t] = IF virgin[t] THEN id ELSE Larger(@, id)]
    /\ virgin' = [virgin EXCEPT ![t] = FALSE]

\* A key is generated for a row that is not written after all.
Waste(t) ==
    /\ last' = [last EXCEPT ![t] = NextId(t)]
    /\ virgin' = [virgin EXCEPT ![t] = FALSE]
    /\ UNCHANGED rows

\* Reseeding gives n on a table without a history, n + 1 on any other.
Reseed(start) == last' = [t \in Tables |-> start[t]] /\ UNCHANGED virgin

------------------------------------------------------------------------------
(* Faults this code could have; no action uses them. *)

\* IDENTITY_INSERT is not put OFF again.
AfterRowLeavesOn(c) == IF c.returnId THEN "SELECT" ELSE "done"
\* An update relies on the NOCOUNT it finds.
UpdateStartPlain == "UPDATE"
\* The id is IDENT_CURRENT, as in last_insert_id, "in any session".
ReturnedIdCurrent(s) == last[call[s].table]
\* start_id is 0 for every table.
StartIdZero(t) == 0
\* A table that was empty when it was counted is not deleted from.
FlushedCounted(t) == IF t \in counted THEN {} ELSE rows[t]

------------------------------------------------------------------------------
(* The batches. *)

\* _fix_insert: NOCOUNT ON for the batch that returns the id, IDENTITY_INSERT
\* around the INSERT of a row that brings its key, then the SELECT.
Row(c) == IF c.id # None THEN "IDENTITY_INSERT ON" ELSE "INSERT"
Selection(c) == IF c.returnId THEN "SELECT" ELSE "done"
AfterRow(c) == IF c.id # None THEN "IDENTITY_INSERT OFF" ELSE Selection(c)

\* SET NOCOUNT OFF; UPDATE; SET NOCOUNT ON.
UpdateStart == "NOCOUNT OFF"

First(c) ==
    CASE c.kind = "insert"  -> IF c.returnId THEN "NOCOUNT ON" ELSE Row(c)
      [] c.kind = "update"  -> UpdateStart
      [] c.kind = "enable"  -> "IDENTITY_INSERT ON"
      [] c.kind = "disable" -> "IDENTITY_INSERT OFF"

After(c, stmt) ==
    CASE stmt = "NOCOUNT ON"          -> IF c.kind = "insert" THEN Row(c) ELSE "done"
      [] stmt = "IDENTITY_INSERT ON"  -> IF c.kind = "insert" THEN "INSERT" ELSE "done"
      [] stmt = "INSERT"              -> AfterRow(c)
      [] stmt = "IDENTITY_INSERT OFF" -> Selection(c)
      [] stmt = "SELECT"              -> "done"
      [] stmt = "NOCOUNT OFF"         -> "UPDATE"
      [] stmt = "UPDATE"              -> "NOCOUNT ON"

\* The row of the table variable the batch selects.
ReturnedId(s) == output[s]

Begin(s, c) ==
    /\ call[s] = None
    /\ c.kind # "insert" => c.id = None /\ ~c.returnId
    /\ call' = [call EXCEPT ![s] = c]
    /\ pc' = [pc EXCEPT ![s] = First(c)]
    /\ ret' = [ret EXCEPT ![s] = [Nothing EXCEPT !.kind = c.kind, !.wantsId = c.returnId]]
    /\ leaked' = [leaked EXCEPT ![s] = @ \/ c.kind = "enable"]
    /\ UNCHANGED <<tableVars, identityInsert, nocount, output, counted>>

\* The batch is over and the call returns.
Return(s) ==
    /\ call[s] # None /\ pc[s] = "done"
    /\ call' = [call EXCEPT ![s] = None]
    /\ output' = [output EXCEPT ![s] = None]
    /\ UNCHANGED <<tableVars, identityInsert, nocount, pc, ret, leaked, counted>>

\* Session s executes stmt, and the batch goes on.
Executes(s, stmt) ==
    /\ pc[s] = stmt
    /\ pc' = [pc EXCEPT ![s] = After(call[s], stmt)]
    /\ UNCHANGED <<call, counted>>

SetNocount(s) ==
    /\ \/ Executes(s, "NOCOUNT ON") /\ nocount' = [nocount EXCEPT ![s] = TRUE]
       \/ Executes(s, "NOCOUNT OFF") /\ nocount' = [nocount EXCEPT ![s] = FALSE]
    /\ UNCHANGED <<tableVars, identityInsert, output, ret, leaked>>

\* Another table may have it: then the statement is refused.
SetIdentityInsertOn(s) ==
    /\ Executes(s, "IDENTITY_INSERT ON")
    /\ IF identityInsert[s] \in {None, call[s].table}
       THEN identityInsert' = [identityInsert EXCEPT ![s] = call[s].table] /\ UNCHANGED ret
       ELSE ret' = [ret EXCEPT ![s].raises = TRUE] /\ UNCHANGED identityInsert
    /\ UNCHANGED <<tableVars, nocount, output, leaked>>

SetIdentityInsertOff(s) ==
    /\ Executes(s, "IDENTITY_INSERT OFF")
    /\ IF identityInsert[s] = call[s].table
       THEN /\ identityInsert' = [identityInsert EXCEPT ![s] = None]
            /\ leaked' = [leaked EXCEPT ![s] = FALSE]
       ELSE UNCHANGED <<identityInsert, leaked>>
    /\ UNCHANGED <<tableVars, nocount, output, ret>>

\* A key must be given exactly when the table has IDENTITY_INSERT.
Insertable(s) ==
    LET c == call[s]
    IN /\ c.id # None <=> identityInsert[s] = c.table
       /\ c.id \notin rows[c.table]

Insert(s) ==
    /\ Executes(s, "INSERT")
    /\ Insertable(s)
    /\ LET t == call[s].table
           id == IF call[s].id = None THEN NextId(t) ELSE call[s].id
       IN /\ id <= MaxId
          /\ Write(t, id)
          /\ ret' = [ret EXCEPT ![s].own = id]
          /\ output' = [output EXCEPT ![s] = IF call[s].returnId THEN id ELSE None]
    /\ UNCHANGED <<identityInsert, nocount, leaked>>

\* The statement fails, also for reasons of its own; the batch goes on.
InsertFails(s) ==
    /\ Executes(s, "INSERT")
    /\ \/ UNCHANGED tableVars
       \/ Insertable(s) /\ call[s].id = None /\ NextId(call[s].table) < MaxId
          /\ Waste(call[s].table)
    /\ ret' = [ret EXCEPT ![s].raises = TRUE]
    /\ UNCHANGED <<identityInsert, nocount, output, leaked>>

Update(s) ==
    /\ Executes(s, "UPDATE")
    /\ ret' = [ret EXCEPT ![s].known = ~nocount[s]]
    /\ UNCHANGED <<tableVars, identityInsert, nocount, output, leaked>>

Select(s) ==
    /\ Executes(s, "SELECT")
    /\ ret' = [ret EXCEPT ![s].id = ReturnedId(s)]
    /\ UNCHANGED <<tableVars, identityInsert, nocount, output, leaked>>

\* The statement in progress ends the batch: what follows is not executed.
BatchEnds(s) ==
    /\ BatchAborts
    /\ pc[s] \in {"INSERT", "UPDATE"}
    /\ pc' = [pc EXCEPT ![s] = "done"]
    /\ ret' = [ret EXCEPT ![s].raises = TRUE]
    /\ leaked' = [leaked EXCEPT ![s] = @ \/ identityInsert[s] # None]
    /\ UNCHANGED <<tableVars, identityInsert, nocount, call, output, counted>>

\* Somebody deletes rows.
Delete(t, id) ==
    /\ id \in rows[t]
    /\ rows' = [rows EXCEPT ![t] = @ \ {id}]
    /\ UNCHANGED <<last, virgin, identityInsert, nocount, call, pc, output, ret,
                   leaked, counted>>

------------------------------------------------------------------------------
(* sql_flush. *)

StartId(t) == IF t \in counted THEN 0 ELSE 1
Flushed(t) == {}

\* SELECT COUNT(*) for each sequence, before the transaction of the flush.
FlushCount ==
    /\ counted = None
    /\ counted' = {t \in Tables : rows[t] # {}}
    /\ UNCHANGED <<tableVars, identityInsert, nocount, call, pc, output, ret, leaked>>

\* The statements: ALTER TABLE locks every table until the end of them.
FlushExecute ==
    /\ counted # None
    /\ rows' = [t \in Tables |-> Flushed(t)]
    /\ Reseed([t \in Tables |-> StartId(t)])
    /\ counted' = None
    /\ UNCHANGED <<identityInsert, nocount, call, pc, output, ret, leaked>>

------------------------------------------------------------------------------

BatchStep(s) ==
    \/ Return(s)
    \/ SetNocount(s) \/ SetIdentityInsertOn(s) \/ SetIdentityInsertOff(s)
    \/ Insert(s) \/ InsertFails(s) \/ Update(s) \/ Select(s)
    \/ BatchEnds(s)

Next ==
    \/ \E s \in Sessions : BatchStep(s) \/ \E c \in Calls : Begin(s, c)
    \/ \E t \in Tables : \E id \in rows[t] : Delete(t, id)
    \/ FlushCount \/ FlushExecute

Spec == Init /\ [][Next]_vars

------------------------------------------------------------------------------
(* Safety. *)

\* The last call of session s, of that kind, has returned normally.
Returned(s, kind) == call[s] = None /\ ret[s].kind = kind /\ ~ret[s].raises

\* An insert that returns an id returns the id of the row it wrote, whatever
\* other sessions insert between its statements.
OwnIdReturned ==
    \A s \in Sessions :
        Returned(s, "insert") /\ ret[s].wantsId =>
            ret[s].id # None /\ ret[s].id = ret[s].own

\* A session leaves a call without IDENTITY_INSERT, so that its next insert is
\* not refused, also when the call raised; enable_identity_insert and a batch
\* that was ended half way are the only exceptions.
IdentityInsertReset ==
    \A s \in Sessions : call[s] = None /\ ~leaked[s] => identityInsert[s] = None

\* An update knows how many rows it changed, although the inserts of the
\* session before it leave NOCOUNT ON.
UpdateCounts ==
    \A s \in Sessions :
        Returned(s, "update") => ret[s].known

\* The server never generates a key that a row has: sql_flush, which counts
\* before it locks, does not put a counter behind rows written meanwhile.
CounterAhead ==
    \A t \in Tables : \A id \in rows[t] : id < NextId(t)

\* The inductive invariant of IdentityColumnsProofs: what a batch is doing, and
\* what it has set so far.
BatchInv(s) ==
    /\ call[s] = None => pc[s] = "done"
    /\ pc[s] = "IDENTITY_INSERT ON" =>
          call[s].kind = "enable" \/ (call[s].kind = "insert" /\ call[s].id # None)
    /\ pc[s] \in {"INSERT", "SELECT"} => call[s].kind = "insert"
    /\ pc[s] = "SELECT" => call[s].returnId
    /\ pc[s] = "IDENTITY_INSERT OFF" =>
          call[s].kind = "disable" \/ (call[s].kind = "insert" /\ call[s].id # None)
    /\ call[s] # None /\ call[s].kind # "insert" => ~call[s].returnId
    /\ call[s] # None => ret[s].kind = call[s].kind /\ ret[s].wantsId = call[s].returnId

SettingInv(s) ==
    /\ ~leaked[s] /\ identityInsert[s] # None =>
          /\ call[s] # None /\ call[s].kind = "insert" /\ call[s].id # None
          /\ identityInsert[s] = call[s].table
          /\ pc[s] \in {"INSERT", "IDENTITY_INSERT OFF"}
    /\ pc[s] = "IDENTITY_INSERT ON" /\ call[s].kind = "enable" => leaked[s]

OutputInv(s) ==
    ret[s].kind = "insert" /\ ret[s].wantsId /\ ~ret[s].raises =>
        /\ pc[s] \in {"IDENTITY_INSERT OFF", "SELECT"} =>
              ret[s].own # None /\ output[s] = ret[s].own
        /\ pc[s] = "done" => ret[s].own # None /\ ret[s].id = ret[s].own

CounterInv(t) ==
    /\ virgin[t] => rows[t] = {}
    /\ counted # None /\ t \in counted => ~virgin[t]

IInv ==
    /\ TypeOK
    /\ \A s \in Sessions : BatchInv(s) /\ SettingInv(s) /\ OutputInv(s)
    /\ \A t \in Tables : CounterInv(t)
    /\ CounterAhead

------------------------------------------------------------------------------
(* What a step may never do. *)

\* After a flush the tables are empty and their keys start at 1, if the table
\* had rows when it was counted or has never had any.
FlushRestarts ==
    [][counted # None /\ counted' = None =>
         \A t \in Tables :
            /\ rows'[t] = {}
            /\ t \in counted \/ virgin[t] => NextId(t)' = 1]_vars
==============================================================================
