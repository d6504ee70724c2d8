----------------------------- MODULE DbapiCursor -----------------------------
(***************************************************************************)
(* dbapi.Cursor: several cursors of one connection, each with the ADO      *)
(* recordset it reads.  A statement gives a batch of results; a result is  *)
(* the number of rows of a result set, or NoRows for a row count, or       *)
(* NoCount for a statement that reports none (SET NOCOUNT ON, DDL): ADO    *)
(* hands both over as a closed recordset.  The ADO objects are external.   *)
(***************************************************************************)
EXTENDS Integers, SequencesExt

CONSTANTS
    Cursors,
    Batches,            \* the batches statements may give: non-empty sequences
                        \* over Nat \cup Rowless
    ManyLengths,        \* lengths of executemany's seq_of_parameters
    Failures,           \* statements may fail on the server
    MaxExecs,           \* bound: statements sent to the server
    None

NoRows == -1
NoCount == -2
Rowless == {NoRows, NoCount}
Affected == 2           \* rows affected by a data change

ASSUME FailuresAssumption == Failures \in BOOLEAN
ASSUME BatchesAssumption == \A b \in Batches : b \in Seq(Nat \cup Rowless) /\ b # <<>>
ASSUME BoundsAssumption == ManyLengths \subseteq Nat /\ MaxExecs \in Nat

VARIABLES
    conOpen,            \* the connection has not been closed
    execs,              \* history: statements the server has executed
    attached,           \* self.connection is not None
    rs,                 \* self.rs: None, or where the recordset stands
    description,        \* self.description: None, or the result it describes
    rowcount,
    return_value,       \* the statement it is the return value of, or None
    last,               \* history: the last executeXXX or callproc
    got                 \* history: the outcome of the last call on the cursor

vars == <<conOpen, execs, attached, rs, description, rowcount, return_value, last, got>>

Recordset == [exec : Nat, batch : Batches, set : Nat, pos : Nat, open : BOOLEAN]
Description == [exec : Nat, set : Nat]
ASSUME NoneAssumption == None \notin Recordset \cup Description \cup Nat

Calls == {"new", "execute", "callproc", "fetchone", "fetchmany", "fetchall", "nextset",
          "close", "executemany"}
Kinds == {"ok", "empty", "None", "True", "FetchFailedError", "InterfaceError",
          "DatabaseError", "DataError", "Error", "raw"}
\* The outcomes of a call: without rows, of executemany, of a fetch, of a raw
\* stored procedure.
Outcomes ==
    ([call : Calls, kind : Kinds] \ [call : {"executemany"}, kind : {"ok"}])
    \cup [call : {"executemany"}, kind : {"ok"}, batches : UNION {[1..n -> Batches] : n \in ManyLengths}]
    \cup [call : Calls, kind : {"rows"}, exec : Nat, set : Nat, first : Nat, count : Nat,
          columns : {None} \cup Description]
    \cup [call : {"raw_callproc"}, kind : {"instances"}, batch : Batches, count : Nat]

TypeOK ==
    /\ conOpen \in BOOLEAN
    /\ execs \in 0..MaxExecs
    /\ attached \in [Cursors -> BOOLEAN]
    /\ rs \in [Cursors -> {None} \cup Recordset]
    /\ \A c \in Cursors :
          rs[c] # None => /\ rs[c].set \in DOMAIN rs[c].batch
                          /\ rs[c].pos \in 0..rs[c].batch[rs[c].set]
    /\ description \in [Cursors -> {None} \cup Description]
    /\ rowcount \in [Cursors -> Int]
    /\ return_value \in [Cursors -> {None} \cup Nat]
    /\ last \in [Cursors -> [exec : Nat, ok : BOOLEAN]]
    /\ got \in [Cursors -> Outcomes]

Init ==
    /\ conOpen = TRUE
    /\ execs = 0
    /\ attached = [c \in Cursors |-> TRUE]
    /\ rs = [c \in Cursors |-> None]
    /\ description = [c \in Cursors |-> None]
    /\ rowcount = [c \in Cursors |-> -1]
    /\ return_value = [c \in Cursors |-> None]
    /\ last = [c \in Cursors |-> [exec |-> 0, ok |-> FALSE]]
    /\ got = [c \in Cursors |-> [call |-> "new", kind |-> "ok"]]

------------------------------------------------------------------------------

\* The call of cursor c is over with an outcome that carries no rows.
Outcome(c, call, kind) == got' = [got EXCEPT ![c] = [call |-> call, kind |-> kind]]

(* Faults this code could have; no action uses them.  Each stands for the      *)
(* operator it is named after, to see that a property notices.                 *)

\* The early return for a closed recordset does not reset the cursor.
DescribeKeeps(c, exec, batch, set) ==
    IF batch[set] \in Rowless
    THEN UNCHANGED <<rs, description>>
    ELSE /\ rs' = [rs EXCEPT ![c] = [exec |-> exec, batch |-> batch, set |-> set,
                                     pos |-> 0, open |-> TRUE]]
         /\ description' = [description EXCEPT ![c] = [exec |-> exec, set |-> set]]

\* The description is made once per statement only.
DescribeOnce(c, exec, batch, set) ==
    /\ rs' = [rs EXCEPT ![c] = IF batch[set] \in Rowless THEN None
                               ELSE [exec |-> exec, batch |-> batch, set |-> set,
                                     pos |-> 0, open |-> TRUE]]
    /\ IF set = 1
       THEN description' = [description EXCEPT ![c] = [exec |-> exec, set |-> 1]]
       ELSE UNCHANGED description

\* executemany adds up without looking for -1.
PlainTotal(batches) ==
    FoldSeq(LAMBDA b, total : total + (IF b[1] = NoRows THEN Affected ELSE -1), 0, batches)

\* _fetch does not look at State, or asks for more rows than there are.
FetchRowsUnchecked(c, call, rows) ==
    /\ attached[c] /\ rs[c] # None
    /\ rs[c].pos < rs[c].batch[rs[c].set]
    /\ rs' = [rs EXCEPT ![c].pos = @ + rows]
    /\ got' = [got EXCEPT ![c] = [call |-> call, kind |-> "rows", exec |-> rs[c].exec,
                                  set |-> rs[c].set, first |-> rs[c].pos + 1, count |-> rows,
                                  columns |-> description[c]]]
    /\ UNCHANGED <<conOpen, execs, attached, description, rowcount, return_value, last>>

\* return_value is not reset before the statement runs.
ReturnValueKept(c, call, exec) == IF call = "callproc" THEN exec ELSE return_value[c]

------------------------------------------------------------------------------

\* _description_from_recordset for result `set` of a batch: a closed recordset
\* leaves the cursor without one.
Describe(c, exec, batch, set) ==
    IF batch[set] \in Rowless
    THEN /\ rs' = [rs EXCEPT ![c] = None]
         /\ description' = [description EXCEPT ![c] = None]
    ELSE /\ rs' = [rs EXCEPT ![c] = [exec |-> exec, batch |-> batch, set |-> set,
                                     pos |-> 0, open |-> TRUE]]
         /\ description' = [description EXCEPT ![c] = [exec |-> exec, set |-> set]]

\* What Command.Execute, then _description_from_recordset, leave in rowcount:
\* the count, and -1 for a result set and for a statement that reports none.
RowcountOf(batch) == IF batch[1] = NoRows THEN Affected ELSE -1

\* _execute_command resets return_value, callproc sets it afterwards.
ReturnValueOf(c, call, exec) == IF call = "callproc" THEN exec ELSE None

\* execute() and callproc(): the statement runs and its first result is taken.
Execute(c, call, batch) ==
    /\ attached[c] /\ conOpen
    /\ execs < MaxExecs
    /\ execs' = execs + 1
    /\ Describe(c, execs', batch, 1)
    /\ rowcount' = [rowcount EXCEPT ![c] = RowcountOf(batch)]
    /\ return_value' = [return_value EXCEPT ![c] = ReturnValueOf(c, call, execs')]
    /\ last' = [last EXCEPT ![c] = [exec |-> execs', ok |-> TRUE]]
    /\ Outcome(c, call, "ok")
    /\ UNCHANGED <<conOpen, attached>>

\* The server refuses the statement: only return_value has been reset.
ExecuteFails(c, call) ==
    /\ attached[c] /\ conOpen
    /\ Failures
    /\ execs < MaxExecs
    /\ execs' = execs + 1
    /\ return_value' = [return_value EXCEPT ![c] = None]
    /\ last' = [last EXCEPT ![c] = [exec |-> execs', ok |-> FALSE]]
    /\ Outcome(c, call, "DatabaseError")
    /\ UNCHANGED <<conOpen, attached, rs, description, rowcount>>

\* _new_command raises, or a parameter cannot be converted: nothing is sent.
ExecuteNotSent(c, call) ==
    /\ \/ ~attached[c] /\ Outcome(c, call, "InterfaceError")
       \/ attached[c] /\ ~conOpen /\ Outcome(c, call, "DatabaseError")
       \/ attached[c] /\ conOpen /\ Failures /\ Outcome(c, call, "DataError")
    /\ last' = [last EXCEPT ![c].ok = FALSE]
    /\ UNCHANGED <<conOpen, execs, attached, rs, description, rowcount, return_value>>

\* The loop of executemany: -1 once, -1 for ever.
TotalRowcount(batches) ==
    LET total[i \in 0..Len(batches)] ==
            IF i = 0 THEN 0
            ELSE IF RowcountOf(batches[i]) = -1 \/ total[i - 1] = -1 THEN -1
            ELSE total[i - 1] + RowcountOf(batches[i])
    IN  total[Len(batches)]

\* executemany() with n parameter sequences.  Without any, only rowcount moves.
ExecuteMany(c, n, batches) ==
    /\ attached[c] /\ conOpen
    /\ execs + n <= MaxExecs
    /\ execs' = execs + n
    /\ IF n = 0
       THEN UNCHANGED <<rs, description, return_value, last>>
       ELSE /\ Describe(c, execs', batches[n], 1)
            /\ return_value' = [return_value EXCEPT ![c] = None]
            /\ last' = [last EXCEPT ![c] = [exec |-> execs', ok |-> TRUE]]
    /\ rowcount' = [rowcount EXCEPT ![c] = TotalRowcount(batches)]
    /\ got' = [got EXCEPT ![c] = [call |-> "executemany", kind |-> "ok", batches |-> batches]]
    /\ UNCHANGED <<conOpen, attached>>

\* The statement after the n first ones fails: the total is not stored.
ExecuteManyFails(c, n, batches) ==
    /\ attached[c] /\ conOpen
    /\ Failures
    /\ n > 0
    /\ execs + n + 1 <= MaxExecs
    /\ execs' = execs + n + 1
    /\ Describe(c, execs + n, batches[n], 1)
    /\ rowcount' = [rowcount EXCEPT ![c] = RowcountOf(batches[n])]
    /\ return_value' = [return_value EXCEPT ![c] = None]
    /\ last' = [last EXCEPT ![c] = [exec |-> execs', ok |-> FALSE]]
    /\ Outcome(c, "executemany", "DatabaseError")
    /\ UNCHANGED <<conOpen, attached>>

------------------------------------------------------------------------------

CanFetch(c) == attached[c] /\ rs[c] # None
Left(c) == rs[c].batch[rs[c].set] - rs[c].pos

\* _fetch(rows); rows = 0 stands for None too, both ask for all of them.
FetchRows(c, call, rows) ==
    /\ CanFetch(c)
    /\ rs[c].open /\ Left(c) > 0
    /\ LET n == IF rows = 0 \/ rows > Left(c) THEN Left(c) ELSE rows
       IN /\ rs' = [rs EXCEPT ![c].pos = @ + n]
          /\ got' = [got EXCEPT ![c] =
                       [call |-> call, kind |-> "rows", exec |-> rs[c].exec,
                        set |-> rs[c].set, first |-> rs[c].pos + 1, count |-> n,
                        columns |-> description[c]]]
    /\ UNCHANGED <<conOpen, execs, attached, description, rowcount, return_value, last>>

\* The recordset is closed or at its end: None for one row, [] for more.
FetchNothing(c, call, rows) ==
    /\ CanFetch(c)
    /\ ~rs[c].open \/ Left(c) = 0
    /\ Outcome(c, call, IF rows = 1 THEN "None" ELSE "empty")
    /\ UNCHANGED <<conOpen, execs, attached, rs, description, rowcount, return_value, last>>

FetchFails(c, call) ==
    /\ ~CanFetch(c)
    /\ Outcome(c, call, "FetchFailedError")
    /\ UNCHANGED <<conOpen, execs, attached, rs, description, rowcount, return_value, last>>

Fetch(c, call, rows) ==
    FetchRows(c, call, rows) \/ FetchNothing(c, call, rows) \/ FetchFails(c, call)

\* NextRecordset clears the current recordset and gives the next.
NextSet(c) ==
    /\ CanFetch(c)
    /\ rs[c].open
    /\ rs[c].set < Len(rs[c].batch)
    /\ Describe(c, rs[c].exec, rs[c].batch, rs[c].set + 1)
    /\ rowcount' = [rowcount EXCEPT ![c] =
                      IF rs[c].batch[rs[c].set + 1] \in Rowless THEN @ ELSE -1]
    /\ Outcome(c, "nextset", "True")
    /\ UNCHANGED <<conOpen, execs, attached, return_value, last>>

\* No more results: None, and self.rs stays on the cleared recordset.
NoNextSet(c) ==
    /\ CanFetch(c)
    /\ rs[c].open
    /\ rs[c].set = Len(rs[c].batch)
    /\ rs' = [rs EXCEPT ![c].open = FALSE]
    /\ Outcome(c, "nextset", "None")
    /\ UNCHANGED <<conOpen, execs, attached, description, rowcount, return_value, last>>

\* Without a recordset an Error; on a closed one, what ADO raises.
NextSetFails(c) ==
    /\ \/ ~CanFetch(c) /\ Outcome(c, "nextset", "Error")
       \/ CanFetch(c) /\ ~rs[c].open /\ Outcome(c, "nextset", "raw")
    /\ UNCHANGED <<conOpen, execs, attached, rs, description, rowcount, return_value, last>>

\* close(): a recordset that is closed already is kept.
Close(c) ==
    /\ attached' = [attached EXCEPT ![c] = FALSE]
    /\ rs' = [rs EXCEPT ![c] = IF @ # None /\ @.open THEN None ELSE @]
    /\ Outcome(c, "close", "ok")
    /\ UNCHANGED <<conOpen, execs, description, rowcount, return_value, last>>

\* Connection.close: ADO closes the recordsets of the connection with it; the
\* cursors keep their references.
CloseConnection ==
    /\ conOpen
    /\ conOpen' = FALSE
    /\ rs' = [c \in Cursors |-> IF rs[c] = None THEN None ELSE [rs[c] EXCEPT !.open = FALSE]]
    /\ UNCHANGED <<execs, attached, description, rowcount, return_value, last, got>>

\* RawStoredProcedureQuerySet on a cursor of its own: callproc, then all the
\* rows; a FetchFailedError means a procedure without a result set.
RawCallproc(c, batch) ==
    /\ got[c].call = "new"
    /\ attached[c] /\ conOpen
    /\ execs < MaxExecs
    /\ execs' = execs + 1
    /\ IF batch[1] \in Rowless
       THEN Describe(c, execs', batch, 1)
       ELSE /\ rs' = [rs EXCEPT ![c] = [exec |-> execs', batch |-> batch, set |-> 1,
                                        pos |-> batch[1], open |-> TRUE]]
            /\ description' = [description EXCEPT ![c] = [exec |-> execs', set |-> 1]]
    /\ rowcount' = [rowcount EXCEPT ![c] = RowcountOf(batch)]
    /\ return_value' = [return_value EXCEPT ![c] = execs']
    /\ last' = [last EXCEPT ![c] = [exec |-> execs', ok |-> TRUE]]
    /\ got' = [got EXCEPT ![c] =
                 [call |-> "raw_callproc", kind |-> "instances", batch |-> batch,
                  count |-> IF batch[1] \in Rowless THEN 0 ELSE batch[1]]]
    /\ UNCHANGED <<conOpen, attached>>

Next ==
    \/ \E c \in Cursors :
          \/ \E call \in {"execute", "callproc"} :
                \/ \E b \in Batches : Execute(c, call, b)
                \/ ExecuteFails(c, call)
                \/ ExecuteNotSent(c, call)
          \/ \E n \in ManyLengths : \E bs \in [1..n -> Batches] :
                ExecuteMany(c, n, bs) \/ ExecuteManyFails(c, n, bs)
          \/ Fetch(c, "fetchone", 1)
          \/ \E rows \in 1..2 : Fetch(c, "fetchmany", rows)
          \/ Fetch(c, "fetchall", 0)
          \/ NextSet(c) \/ NoNextSet(c) \/ NextSetFails(c)
          \/ Close(c)
          \/ \E b \in Batches : RawCallproc(c, b)
    \/ CloseConnection

Spec == Init /\ [][Next]_vars

------------------------------------------------------------------------------
(* Safety. *)

\* A fetch converts each cell by the type of its column in self.description:
\* whenever rows are delivered, the description is that of the result set they
\* come from (_fetch reads rs and description separately, and execute, nextset
\* and failures move them).
RowsMatchDescription ==
    \A c \in Cursors :
        got[c].kind = "rows" => got[c].columns = [exec |-> got[c].exec, set |-> got[c].set]

\* After a statement that succeeded, the rows a fetch delivers are its rows and
\* never those of an earlier one, whatever failed in between.
FreshRows ==
    \A c \in Cursors : got[c].kind = "rows" /\ last[c].ok => got[c].exec = last[c].exec

\* callproc's return_value and the rows that can be fetched belong to the same
\* call, also after failed statements: _execute_command resets it first.
ReturnValueMatchesRows ==
    \A c \in Cursors :
        rs[c] # None /\ return_value[c] # None => return_value[c] = rs[c].exec

\* executemany's rowcount is the number of rows all its statements affected, or
\* -1 when one of them gave a result set or reported no count.
ManyRowcount ==
    \A c \in Cursors :
        got[c].call = "executemany" /\ got[c].kind = "ok" =>
            LET bs == got[c].batches
            IN rowcount[c] = IF \E i \in DOMAIN bs : bs[i][1] # NoRows THEN -1
                             ELSE Affected * Len(bs)

\* The recordset of a cursor is the one it describes, and comes from its last
\* statement when that succeeded: they are moved together, or not at all.
RecordsetDescribed ==
    \A c \in Cursors :
        rs[c] # None => description[c] = [exec |-> rs[c].exec, set |-> rs[c].set]

RecordsetFresh ==
    \A c \in Cursors : rs[c] # None /\ last[c].ok => rs[c].exec = last[c].exec

\* The recordsets of a connection close with it.
ClosedRecordsets ==
    ~conOpen => \A c \in Cursors : rs[c] # None => ~rs[c].open

\* The inductive invariant behind the properties: what execute, executemany,
\* nextset, close and the failures of each keep of every cursor.
IInv ==
    /\ TypeOK
    /\ RecordsetDescribed
    /\ RecordsetFresh
    /\ ClosedRecordsets
    /\ RowsMatchDescription
    /\ FreshRows
    /\ ReturnValueMatchesRows
    /\ ManyRowcount

------------------------------------------------------------------------------
(* What a step may never do. *)

\* After Connection.close no cursor delivers rows or goes on to another result.
ClosedConnectionIsSilent ==
    [][~conOpen => \A c \in Cursors :
          got'[c] # got[c] => got'[c].kind \notin {"rows", "True", "instances"}]_vars

------------------------------------------------------------------------------
(* What the repository says and the code does not do. *)

\* dbapi.py:697 "An Error (or subclass) exception is raised if the previous call
\* to executeXXX() did not produce any result set".
FetchAfterFailureRaises ==
    \A c \in Cursors : got[c].kind = "rows" => last[c].ok
==============================================================================
