# django-mssql in TLA+

django-mssql (`sqlserver_ado`) is a Django database backend for SQL Server.
It talks to the server through ADO: `dbapi.py` is a DB-API 2 module over
`ADODB.Connection`, `ADODB.Command` and `ADODB.Recordset`, and the rest of the
package adapts Django's SQL, schema changes and test databases to SQL Server.

This directory holds TLA+ models of the parts of it that keep state, the TLC
configurations that check them, and TLAPS proofs about them. Line numbers refer
to the files of `sqlserver_ado/`; `PROJECT.json` maps each definition to lines.

## 1. Inventory

| component | state | operations | modelled in |
|---|---|---|---|
| `dbapi.Connection` | `adoConn`, `supportsTransactions`, `transaction_level`; behind it the session and its transaction | `connect`, `commit`, `rollback`, `set_autocommit`, `close`, `__del__`, statements of cursors | `DbapiConnection`, `TransactionContract` |
| `dbapi.Cursor` | `rs`, `description`, `rowcount`, `return_value`, `connection` | `execute`, `executemany`, `callproc`, fetches, `nextset`, `close` | `DbapiCursor` |
| dbapi parameters and conversions | none | `_configure_parameter`, `_ado_type`, `_cvt*` | `FieldValues`, `DecimalText` (decimals, dates, times) |
| `models.query` | the cursor of one raw procedure call | `_execute_query`, iteration | `DbapiCursor` (`RawCallproc`) |
| `base.DatabaseWrapper` | Django's connection state; behind it savepoints and the state of the constraints | connecting, `is_usable`, `_set_autocommit`, constraint checking, savepoints | `DatabaseWrapper`, `AtomicContract`; `data_types` in `FieldTypes` |
| `operations`: identity, flush | session settings, identity counters | `enable_identity_insert`, `disable_identity_insert`, `sql_flush` | `IdentityColumns` |
| `operations`: SQL fragments | none | values to and from columns, durations, savepoint statements; date lookups, zones, batch sizes | `FieldValues`, `DatabaseWrapper` (the first three) |
| `compiler`: INSERT, UPDATE | session settings | `as_sql`, `_fix_insert` | `IdentityColumns` |
| `compiler`: SELECT, `patches` | marks of a query, `_mssql_ordering_not_allowed` | `set_limits`, `as_sql`, `get_ordering` | `QuerySlicing` |
| `schema` | the catalog, `fks_dropped`, deferred SQL | `add_field`, `_alter_field`, `remove_field`, table operations | `SchemaEditor` (fields) |
| `introspection` | none (reads the catalog) | `get_table_description`, `get_field_type`, `get_constraints`, ... | `FieldTypes`; `SchemaEditor` (what `_constraint_names` sees) |
| `fields` | none | `to_python`, `get_db_prep_value` of the date and time fields; big integer keys | `FieldValues`, `FieldTypes` (all but the keys) |
| `creation` | the test database | create, destroy, regex assembly | no |
| `expressions`, `features`, `ado_consts`, `sql_app`, `extras` | none | SQL text, flags, constants, one command | no |

How they interact:

* Django calls `DatabaseWrapper`; it opens a `Connection` and asks it for
  cursors. `atomic` blocks use `set_autocommit`, `commit`, `rollback` and
  savepoint statements.
* All cursors of a `Connection` share its session: its transaction, and the
  settings `NOCOUNT` and `IDENTITY_INSERT`, outlive the statement that made them.
* A compiler turns a query object into SQL. The object may be compiled again,
  in another role, and is changed during the compilation (compiler.py:39, 61).
* The schema editor reads the catalog through introspection to find the names
  of the constraints it drops. What it sees depends on what an earlier,
  perhaps failed, operation left.

What is hard here:

* *Failure between two calls.* `commit`, `rollback`, `close` and `connect` make
  two ADO calls each; the session may be lost between them. `_alter_field` runs up
  to twenty statements and DDL is not rolled back.
* *Server decisions.* A deadlock victim's transaction is gone without the client
  having asked.
* *Nesting.* Blocks in blocks, savepoints that are never released, an exception
  caught half way out, a load that must turn the constraints on again on every way
  out of it.
* *Representations.* One value is a Python object, text in one of four forms, a
  column of one of five precisions, a COM date; each step must take off or put on
  the zone, the fraction and the point exactly once.
* *Stale state.* A cursor whose statement failed; session settings; the attribute
  left on a query; the row count read before a flush.
* *Concurrency.* There are no threads in the package. Concurrency is that of
  sessions in one database: inserts next to inserts, writes next to schema changes,
  inserts next to a flush.
* *Off by one.* Slices of slices; `CHECKIDENT RESEED`.

The list of hazards with their lines is in `PROJECT.json`.

What makes each component correct:

* Connection: manual mode is real (a transaction is open and holds exactly the
  acknowledged work), autocommit mode leaves nothing pending, commit keeps all of a
  unit, rollback nothing of it, a dropped connection ends its session.
* Cursor: rows are those of the last statement, and are converted by the
  description of their own result set; `rowcount` does not claim what it cannot know.
* Blocks: what a nested block wrote stays exactly if it and all blocks around it
  are left normally; what the application is told of the outermost block is true;
  rows that were not checked and disabled constraints are never committed.
* Inserts: the returned id is that of the row written; settings are put back;
  the server never generates a key that is taken.
* Slicing: a sliced query takes the rows a sliced list has, in the order asked for.
* Schema: the column in the database is the one Django has recorded.
* Values: what is loaded is what was given, to the precision of the column; saving
  it again changes nothing; a column recreated by `inspectdb` is the same column.

## 2. Modules

### DbapiConnection and TransactionContract

One `Connection` object, created, used, closed and collected, up to
`MaxConnects` times. `pc` names the ADO call an operation in progress makes next;
each operation is split at its ADO calls because `LoseSession` may happen there.

| code | actions |
|---|---|
| `connect`, `Connection.__init__` | `ConnectFails`, `Connect`, `ConnectBegin`, `ConnectBeginFails` |
| `Cursor._execute_command` (a data change) | `Execute`, `ExecuteFails`, `ExecuteAborted` |
| `commit` | `CommitUnsupported`, `Commit`, `CommitBegin`, `CommitFails`, `CommitBeginFails`, `CommitLosesSession` |
| `rollback` | `Rollback`, `RollbackTransStep`, `RollbackBegin`, `RollbackFails`, `RollbackTransFails` |
| `set_autocommit` | `SetAutocommitSame`, `SetAutocommit`, `SetAutocommitFails` |
| `close`, `_close_connection` | `CloseRollback`, `CloseAdo`, `CloseFails`, `CloseAdoFails` |
| `__del__` | `Collect`, `DelRollback`, `DelRelease` |
| `DatabaseWrapper.is_usable` | `IsUsable` |

The session (`session`, `trancount`, `pending`, `durable`) is external.
Its rules come from how `dbapi.py` uses ADO: `BeginTrans` raises when a
transaction is open, the two others raise when none is, and they start a new one
when the provider's `Attributes` say so. Four constants choose the
environment: `CommitRetaining`, `AbortRetaining`, `ServerAborts` (a statement
may end the transaction) and `SessionLoss`. `issued`, `unit`, `aborted`,
`connects` and `ret` are history variables.

`TransactionContract` is what DB-API promises of a connection: in manual mode all
work of a transaction becomes durable at once or disappears at once, in auto mode
each statement is durable when it returns. `ImplementsContract` is the refinement;
`mode` is `none` when the session is gone.

### DbapiCursor

Several cursors of one connection. A statement gives a *batch*: a sequence of
results, each a row count or none at all (`NoRows`, `NoCount`: ADO hands over a closed
recordset) or a result set with a number of rows. Rows are positions, so a fetch shows which rows of
which result of which statement it delivered and which description converted
them. Actions follow the methods; `ExecuteNotSent` is a call that fails before
the server sees it, `ExecuteFails` one the server refuses. `RawCallproc` is a
`RawStoredProcedureQuerySet` evaluated on a new cursor.

### DatabaseWrapper and AtomicContract

`DatabaseWrapper` extends `DbapiConnection`: each of its actions that talks to the
server is an action of the connection, conjoined with what the wrapper and Django
do with it. `step` is the place atomic() is at between two calls of the connection.

| code | actions |
|---|---|
| `get_connection_params`, `get_new_connection`, `init_connection_state` | `OpenConnection` (manual, or with `OPTIONS['autocommit']`), then `RestoreAutocommit` |
| `_set_autocommit` | `EnterOutermost`, `RestoreAutocommit` |
| `savepoint_create_sql`, `savepoint_rollback_sql`, `_savepoint_commit` | `EnterSavepoint`, `UndoInner`, `LeaveInner` |
| `commit()`, `rollback()` of the connection at the end of a block | `LeaveOutermost`, `UndoOutermost`, `ConnectionStep` |
| `disable_constraint_checking`, `enable_constraint_checking`, `check_constraints` | `DisableConstraintChecking`, `EnableConstraintChecking`, `EnableFails`, `CheckConstraints` |
| statements on `create_cursor` | `AppWrite`, `StatementFails` |

Django's part is external and small: `blocks`, `needs_rollback`, `failing` (an
exception is on its way out), the order of the calls in `Atomic.__exit__`, and
`close()` dropping its reference whatever the connection raised (`CloseConnection`,
`DropConnection`, `Dropped`). So is the server's: `ALTER TABLE` and the rows of a
rolled back transaction come back together (`CatalogUndone`), a savepoint remembers
both (`saves`). `load` is a fixture load in the innermost block: constraints off,
writes, on again in a finally, then the check. `Dangling` are writes of rows that
refer to nothing; they pass only while the constraints are off.

Two simplifications. Autocommit that cannot be restored leaves `step = "close"`,
which only the close at the end of the request leaves; a reconnect is a later
`OpenConnection`. A load starts only when no rollback is needed.

`AtomicContract` has a stack of sets of writes and no transactions: a block left
normally hands its writes down, one left by an exception loses them, the outermost
makes all durable in one step. `ImplementsAtomic` is the refinement, with the stack
read off `blocks` and `durable` being that of the session: the commit itself, which
may also happen while its session is lost, is the step that must be `Finish`.

### FieldTypes, DecimalText and FieldValues

`FieldTypes` has the tables: `data_types`, `_datatype_to_ado_type`,
`data_types_reverse`, and `get_table_description` and `get_field_type` between
them. `DecimalText` has decimals as `as_tuple()` gives them and the text they are
sent as. `FieldValues` takes one value of one field through its column:
`DbPrepValue` (the `get_db_prep_value` of each class, over `NewToDb`, `LegacyToDb`,
`NewTimeToDb`, `LegacyTimeToDb` of operations.py and `Parameter`, which is
`_configure_parameter`) gives a text, the server reads it (`Refused`, `Converted`),
a row brings it back as text or as a COM date (`Fetched`) and the converters make a
value of it (`Convert`). `Save`, `Load`, and `Save` of what was loaded are the
actions; `Shift` is an UPDATE with `combine_duration_expression`.

A text is the value with what its form decides: how the date is written, how many
digits its fraction has, whether an offset follows and after a space. A date
is a day inside a month, as 100 * month + day, so that month and day can be
swapped, which is what `DATEFORMAT` does to `YYYY-MM-DD` in a `datetime` column.
External: the server's conversions (`datetime` keeps 1/300 s and takes at
most milliseconds, which the comments at operations.py:324 and dbapi.py:291
rely on), Django's parsers and `get_prep_value`.

### IdentityColumns

Tables with an IDENTITY key, sessions that execute the batches of
`SQLInsertCompiler` and `SQLUpdateCompiler` statement by statement (`First`,
`After`), calls of `enable_identity_insert` and `disable_identity_insert`, and a
flush: `FlushCount` is the count inside `sql_flush`, `FlushExecute` the
statements it returned, which Django executes in one transaction (the ALTER TABLE
that comes first locks every table). A statement that fails lets its batch go on
(`InsertFails`, perhaps having used up a key) or ends it (`BatchEnds`).

External: at most one table per session has `IDENTITY_INSERT`; a key must be given
exactly when the table has it; `RESEED n` makes the next key `n` on a table that
never had a row and `n + 1` on any other (the "inconsistency" operations.py:262 is about).

### QuerySlicing

Query objects that are sliced again and again (`SetLimits`, the patched
`Query.set_limits`), ordered, put into the condition of another query and compiled
in three roles: by themselves, nested, and as the derived table of an aggregate.
`rows` is a history variable: the rows a Python list has that was sliced the same
way. `statement` is the SELECT compiled last.

External: the arithmetic of `_original_set_limits`, which roles Django compiles a
query in, `as_nested_sql` clearing the ordering of an unsliced query.

### SchemaEditor

One column and one related column that may refer to it, changed by `add_field`,
`_alter_field` and `remove_field`. An operation is the sequence of the SQL
statements the code executes, in the order of the code: `todo` is the set of those
left (at first those of `AlterPlan` that `AlterNeeds` names), `Current` the first
of them in the plan, and `Execute` takes it out and does what it does. Each takes
effect by itself, because `can_rollback_ddl` is not set. A statement raises when the server refuses it in the catalog at hand
(`Refused`) or, up to `MaxFailures` times, for a reason the model does not know;
the operation is then tried again with the same target, as an unrecorded migration
is. The names an operation finds are what `get_constraints` reports in the catalog
at hand (`KeyNames`, `UniqueNames`, `IndexNames`); where there is no name no
statement is executed. A check is its text, "none" when there is none, so that one
text can follow another.

`WriteRow` is another session that leaves a NULL in a row: by leaving the column out
while there is no default (`left_out`), or by writing it while the column allows it
(`written`), which is what Django's own INSERT does. `cat.nullRows` remembers which
of the two there are; `FillRows` is the operator who removes both after a refusal.

## 3. Runs

| run | question | bounds |
|---|---|---|
| `ConnectionReliable` | does the connection keep its contract when sessions are lost but the server does not abort by itself? | 3 writes, 2 connects |
| `ConnectionAborts` | what is left of it when the server aborts transactions too and the provider retains aborts, and does everything that began end? | 2 writes, 2 connects |
| `ConnectionRollback` (counterexample) | rollback after a server-side abort | 2 writes |
| `AtomicBlocks` | do nested blocks keep their promise over every failure of statements, sessions and transactions, and do their exits end? | 3 writes (1 dangling), 3 blocks, 2 savepoints, 2 connects |
| `CursorRows` | two cursors whose statements may fail, and the connection closed under them | 4 batches, one without a count, 2 statements (2 million states) |
| `CursorStaleRows` (counterexample) | fetch after a failed execute | 2 statements |
| `IdentityInserts` | two sessions and a flush | 1 table, keys up to 3 |
| `QuerySlices` | slices of slices, in every role | 4 rows, 2 queries, marks up to 5 |
| `SchemaFields` | sequences of operations, one unexplained failure | 48 definitions (1.4 million states) |
| `SchemaRetry` (counterexample) | the foreign key after a failed alteration | 3 definitions |
| `SchemaRemoveUnique` (counterexample) | removing a unique column | 3 definitions |
| `FieldValues` | does every value survive its column, twice? | 2 days, 2 times of day, 4 fractions, 3 offsets, 468 decimals, 6 durations, 3 saves |

Why the bounds are enough to be interesting:

* Connection: two writes tell a whole transaction from a part of it and a third
  one is a later unit; the second connect meets what the first one left behind.
  `ConnectionAborts` has a provider that retains aborts (only then can ADO refuse
  `Close()`); one that retains commits is in no run, the theorems cover it.
* Blocks: three deep is an outermost block, a savepoint that is undone and one inside
  or beside it; two savepoints tell the right one from the first. Both the server
  aborts transactions and sessions are lost. The third write dangles; one write
  outside of the undone block and one inside tell a rollback that takes too much from
  one that takes too little. The provider retains nothing, as SQL Server's does not.
* Cursor: the batches have two result sets in a row, a row count after a result set and
  one before an empty result set, one statement that reports no count, and a result
  set of which a fetch leaves a row. Two statements are one good and
  one failed, or one of each cursor; the cursors are interchangeable (symmetry).
* Values: the days are one that can be read the other way round and one that cannot;
  the seconds are such that offsets of both signs cross midnight, the fractions are
  none, one `datetime` keeps, one it rounds and one that carries into the next day;
  exponents of decimals run from -3 to 2 on both sides of the number of digits;
  durations have both signs, with and without whole seconds. The third save
  would show a drift that the second might hide.
* Identity: keys 1 to 3 with explicit key 2 give a key above, at and below the
  counter. One table is checked by TLC (two take too long); that one session
  cannot have `IDENTITY_INSERT` for two tables is exercised only in the theorems,
  which are for any set of tables.
* Slicing: bounds 0, 1 and 3 of 4 rows give empty, inner, touching and too long slices;
  marks up to 5 exceed the number of rows.
* Schema: `MCFields` has every combination of NULL, UNIQUE and index, each with at most
  one of foreign key, check, other type and default, and keys of three types; two texts
  of a check and three defaults follow each other.
  Operations are not bounded in number.

`CHECK_DEADLOCK FALSE` is set for the connection and the blocks (after the last
connect there is nothing left to do) and for the values (a value that was refused,
shifted or saved `MaxSaves` times is at its end).

### Properties

* `UnitAccounted`, `AutoIsDurable`, `CommitKeeps`, `RollbackUndoes`,
  `ManualIsAtomic`, `ClosedRaises`: section 1's promises of a connection.
  `UnitAccounted` excludes a connection whose transaction the server has
  ended; `RollbackUndoes` fails there (below).
* `GarbageReleased`, `CommitReopens` (liveness): a collected connection ends its
  session whatever raises; a commit that has committed comes back.
* `PendingIsWork`: while a block can work, the session's transaction holds exactly
  what the open blocks wrote. `BlockOutcome`: what became of a block is what the
  application was told; when `commit()` raised, all or none. `WInv`: the inductive
  invariant of section 4, of which `IntegrityKept` is a part (no dangling row durable,
  constraints on in the database and between blocks). `ImplementsAtomic`: the refinement.
  `ExitEnds` (liveness): an exit comes back, in autocommit or to a connection Django closes.
* `IInv` of the connection, the cursors, the inserts and the slices: the inductive
  invariants of section 4, with the types.
* `FreshRows`, `RowsMatchDescription`, `ReturnValueMatchesRows`, `ManyRowcount`,
  `ClosedConnectionIsSilent`: after a statement that succeeded only its rows are
  delivered; rows are converted by their own description; a return value and rows
  that are both there are of one call; `executemany` does not report a partial sum.
* `OwnIdReturned`, `IdentityInsertReset`, `UpdateCounts`, `CounterAhead`,
  `FlushRestarts`. `FlushRestarts` says keys start at 1 if the table had rows when
  it was counted or never had any: a table emptied by DELETE before the flush
  continues with 2 (see divergences).
* `SliceOfSlices`, `DerivedOrder`, `OrderKept`.
* `ColumnIsDefinition`, `RelatedIsDefinition`, `ForeignKeyIsDefinition`,
  `IncomingWritesTakeDefault`. The last is about writes between the update of the
  rows and the step to NOT NULL: those that leave the column out, when the
  alteration puts the default there; an explicit NULL, or an unchanged default, leaves
  the window open (section 5). `ForeignKeyIsDefinition` is for histories in which nothing
  raised; with a failure it is `ForeignKeyRemade`, which does not hold.
* `StoredAsMeant`: a value given as Django asks for it is stored as the moment it
  means or refused, and refused only where `MayRefuse` says. `RoundTrip`: it comes
  back as given, to the precision of the column. `ResaveStable`: saving what was
  loaded changes nothing. All but for `DateOrder` (divergences). `ShiftsByDuration`: a
  duration of any length moves a datetime by itself, except where divergences say. `InspectStable`:
  the column of the field that inspectdb finds is the column it was found for.

### Fairness

`FairSpec` of `DbapiConnection` has weak fairness of `OperationStep`,
the ADO calls of an operation that has begun. A method of `Connection` is one
thread executing to its end and waits for nothing but the ADO call, which has
a command timeout; `__del__` is run by CPython when the last reference goes
(`Collect` itself is not fair). No caller is assumed to call anything.

`WFairSpec` of `DatabaseWrapper` has the same of `ConnectionStep`, and weak fairness
of `Exiting`: what atomic() does after the commit or rollback is the same thread
going on, until autocommit is back or the connection dropped. That a block is
left, that a request ends or that anything is retried is not assumed.

## 4. Proofs

Proved by TLAPS for every value of the constants that satisfies the named
assumptions of the modules.

`DbapiConnectionProofs`. The inductive invariant `IInv` is the type, what an
operation in progress knows (`StepInv`: for instance at `commit.begin` there is
no transaction, the connection is manual and its ADO object is there), and where
the writes are in the middle of it (`UnitStepInv`: at `commit.begin` the unit is
durable, at `rollback.begin` none of it is). `UnitAccounted` alone is not
inductive: that it holds after `CommitBegin` depends on what held at the step before.

* `TypeCorrect`, `InvCorrect`, `UnitIsAccounted`, `CommitKeepsWork`: no assumption
  on the environment.
* `ClosedConnectionRaises`: needs no invariant, every way to return is looked at.
* `RollbackUndoesWork`, `ManualWorkIsAtomic`: assume `~ServerAborts`.
* `AutoWorkIsDurable`: assumes `~AbortRetaining`. With it, `set_autocommit(True)`
  leaves a retained transaction open.
* `Implementation`: with both assumptions the connection implements
  `TransactionContract`.

`IdentityColumnsProofs`. `IInv` relates the statement a batch executes next with
the call, the session's setting and the table variable (`BatchInv`, `SettingInv`,
`OutputInv`), and the counter with the history of the table (`CounterInv`: a
table that was counted with rows is not virgin, which is why `RESEED 0` gives 1).
Theorems: `Invariance`, `GeneratedKeysAreNew`, `IdentityInsertIsReset`,
`ReturnedIdIsOwn`, `FlushRestartsKeys`, and `UpdatesCount` from a second invariant
(`CountInv`: NOCOUNT is OFF at an UPDATE).

`QuerySlicingProofs`. `IInv` states the marks in terms of the list:
`rows[q]` is the list sliced once from `low_mark` to `high_mark`, a query is empty
exactly when the marks meet, and `_mssql_ordering_not_allowed` is gone between
compilations. The main lemma is that slicing a slice is a slice with `Low` and
`High`. Theorems: `Invariance`, `SlicesLikeLists`, `DerivedTablesAreLegal`,
`OrderingIsKept`.

`DbapiCursorProofs`, for any cursors, batches of results and parameter sequences.
The properties are about what a fetch delivers; the invariant is about what it
reads. `RecordsetDescribed` says that `description` is that of the recordset,
`RecordsetFresh` that the recordset is of the last statement if that succeeded, and
`ClosedRecordsets` that a closed connection has only closed ones. `executemany` is a
recursive function over the sequence of batches; that it adds up is proved by the
least index at which it would not (`LeastElement`), since the induction theorems of
the library cannot be used. Theorems: `InvCorrect`, `RowsAreFresh`,
`DescriptionIsThatOfRows`, `ReturnValueIsThatOfRows`, `ManyRowcountIsSum`,
`SilentWhenClosed`.

`DatabaseWrapperProofs`, for blocks of any depth, any provider, any server. `WInv`
has the invariant of the connection and, above it:

* `IntegrityInv`: disabled constraints and rows that refer to nothing are in a
  transaction that cannot commit yet, and no savepoint remembers either;
* `CallInv`: which calls of the connection each step of atomic() can be in, without
  which an action of the connection could happen anywhere;
* `SavesInv`: a savepoint of an open block remembers exactly the writes of the blocks
  around it, so a rollback to it takes what it should, and savepoints grow;
* `WorkInv`: nothing of an open block is durable, and the work of the last one is as
  soon as its commit has succeeded.

Theorems: `WInvCorrect`, `WorkIsPending`, `OutcomeIsTrue`, `IntegrityIsKept`, and
`AtomicImplementation`: every step of the wrapper is a step of `AtomicContract` or
none. It needs no assumption about the provider. A write outside of blocks is no step
of the contract; that it is durable is `AutoIsDurable` of the connection.

`SchemaEditorProofs`, for any set of field definitions and any number of failures.
`AlterLeft` says that the statements left are those from some place of the plan on.
`Altered` says what each statement that is behind has established, given those ahead;
`Kept` what an alteration does not touch wherever it stops, which is what the next
try starts from; `Renamed` is the case that makes the two differ: an alteration that
raised after the rename finds no constraints under the old name, and its own rename
is refused. `ForeignKeyAltered` holds only until something raises (divergence 3).
Theorems: `Invariance`, `ColumnsAreDefinitions`, `RelatedColumnsFollow`,
`ForeignKeysAreRemade`, `TheDefaultIsTaken`: of the ways to leave a NULL, only an
explicit one can be there at the step to NOT NULL, if the default was put into
the database.

`FieldValuesProofs`, for all days, times of day, fractions, offsets, decimals and
durations. The invariant `IInv` says that the column holds `Stored(given)` and the
object `given` or what is loaded of the column; it is inductive because of `Survives`:
what is loaded of what is stored of a value is stored as that. `EverySurvives` proves
it field by field (`PlainSurvives`, `LegacyDateTimeSurvives`, ...), from what each
conversion does: UTC of UTC is itself (`UtcOfUtc`), 1/300 s rounded again stays
(`TickedOnce`), and is the same with the microseconds cut off before
(`TickedTruncated`); a decimal sent gets zeros, those only once (`CanonicalOnce`),
and is the same number (`CanonicalMeans`). Theorems: `Invariance`,
`ValuesAreStoredAsMeant`, `ValuesComeBack`, `SavedAgainIsTheSame`, `DurationsMove`.

`FieldTypesProofs`: `InspectedIsStable`, through the fourteen fields that
introspection can find, each of which is found for its own column.

The assumptions on the constants are what the code gives: numbers of rows and keys
are natural, switches Boolean, `None` is no value; a batch has at least one result;
definitions of fields are typed, a key is unique and not NULL and an AutoField is a
key; a time of day is one, offsets and durations are integers, a decimal is what
`as_tuple()` returns.

Only model-checked are the liveness properties `GarbageReleased`, `CommitReopens`
and `ExitEnds`, which are beyond the prover. The counterexample runs are of
properties that do not hold. `TypeCorrect` is for every constant; the runs check the
type as a part of `IInv` and `WInv`. The invariants of `SchemaEditor` and `FieldValues`
are not in a run, the properties they imply are.

## 5. Where the code differs from what the repository says

Shown by the four counterexample runs:

1. `rollback()` opens no new transaction after the server has ended one
   (dbapi.py:390): the next write commits by itself and the next `rollback()`
   does not undo it.
2. A fetch after a failed `execute` delivers rows of the statement before it
   (dbapi.py:546 against the docstring at 697).
3. An alteration that raised after it had dropped the column's foreign key does
   not make it again when it is tried again (schema.py:390 against 160).
4. `remove_field` of a unique column runs `DROP INDEX` on the index of a
   constraint (schema.py:134 against 130).

Met while reading, without a run of their own:

* `close()` raises before it closes the ADO connection when the server has ended
  the transaction (dbapi.py:349; the docstring at 347 says the connection is closed).
* `transaction_level` is 0 in a manual connection after a commit (380 against 324).
* `commit()` of a closed autocommit connection returns normally (371; dbapi20.py:291
  expects an Error). Hence `ClosedRaises` is about manual connections.
* COM errors of `rollback()` go up as they are (392).
* `fetchone` of a cursor whose connection was closed returns None (674).
* `fetchmany(1)` at the end returns None, not an empty list (675 against 709).
* `nextset` on a row count between two result sets leaves the cursor without a
  recordset, so the results after it are out of reach (736 against 724).
* A raw procedure whose first result is a row count gives no instances
  (models/query.py:51; usage.txt:85).
* Between the UPDATE and the NOT NULL (schema.py:313-324) another session can still
  write an explicit NULL, which Django's INSERT of an object does; and with a default
  that is unchanged step 1 of the four at schema.py:229 is left out (schema.py:237),
  so that rows without the column bring NULLs back too. The ALTER COLUMN is then
  refused after the rest has taken effect.
* A column that refers to a changed key is altered by its type alone and becomes
  nullable (schema.py:376).
* An alteration that raised after `ADD CONSTRAINT ... DEFAULT` cannot be
  repeated: the constraint exists (schema.py:244).
* Inbound foreign keys are made again also for relations with
  `db_constraint=False` (schema.py:394).
* A plain index is not always dropped or added when a field changes between
  unique, indexed and neither; `ColumnMatches` leaves plain indexes out.
* `get_constraints` keeps the last column of a CHECK over several (introspection.py:332).
* A table emptied by DELETE before a flush has 2 as its next key (operations.py:271).
* The search for `" order by "` (compiler.py:50) looks at nested SELECTs and raw SQL too,
  so `OFFSET` may be without an `ORDER BY`. features.py:34 declares sliced
  subqueries unsupported.
* The sign of a subtraction is not applied to the seconds of a duration that is
  an expression (operations.py:510).
* A loaded object with a `sqlserver_ado.fields.DateTimeField` cannot be saved again
  under USE_TZ: `to_python` makes the value aware, and `make_aware` of an aware
  value raises ValueError (fields.py:94-95; datatypes.txt:54, changelog.txt:80).
* A date is sent as `YYYY-MM-DD` also to a `datetime` column (`LegacyDateField`, raw
  parameters), where the login's DATEFORMAT decides what it means or that it is
  refused (dbapi.py:298; changelog.txt:65). `DateOrder` in `FieldValues`.
* A raw datetime with microseconds is refused by a `datetime` column
  (dbapi.py:292), as is the upper bound of a year lookup.
* The column of a `LegacyTimeField` is `time` (base.py:160; datatypes.txt:39 and
  fields.py:178 say `datetime`).
* `convert_datetimefield_value` names `LegacyDateField` where `LegacyDateTimeField` is
  meant (operations.py:167); datetimes do not arrive as text there, so nothing follows.
* `val = datetime.date()` would raise if it were reached (fields.py:75, 154).
* Under inspectdb a `datetime` or `datetimeoffset` column becomes a `DateTimeField`
  and a `uniqueidentifier` a guess; `InspectStable` leaves the three out.
* `commit()` raises `Error`, which Django's `except DatabaseError` does not catch
  (dbapi.py:382): there is no rollback, autocommit is turned on at once, which then
  undoes the block. When that raises too, a raw COM error (dbapi.py:334),
  the connection is unusable until Django closes it.
* Savepoints are used with MARS, the default (features.py:36, changelog.txt:127).
* The zone offset in date lookups is that of 1 January 2000, and negative half hours
  get the wrong sign (operations.py:79).
* `sql_flush` ignores `allow_cascade` and does not check the rows again.
* `_create_test_db` reads a name that is not bound when the database exists
  (creation.py:69); `create_test_db` returns None (creation.py:58).

## 6. What is not modelled

* SQL text: date lookups and truncations, zone names, `bulk_batch_size`, connection
  strings, `expressions`. Values of other types than dates, times and decimals.
* `creation`: DDL run once by a test runner; its faults are listed above.
* The text, parameters and logging of statements; error messages.
* `fetchmany(0)`, which fetches everything (dbapi.py:680), and custom `errorhandler`s.
* `_cvtComDate` of a float (dbapi.py:828), the number of days an old pywin32 gives:
  COM dates are datetimes here.
* Further statements after autocommit could not be restored (`step = "close"`):
  Django would let them reach the connection, and each would raise or be in the
  transaction that is still open.
* A second table of a session in TLC's run of the inserts, and a batch cut off between
  the two settings of `IDENTITY_INSERT`, which `IdentityInsertReset` leaves out.
* Django itself: migrations, `atomic`, the ORM. What it calls is an action with
  the arguments Django may pass.
* `SchemaEditor`: M2M fields, table renames, model creation and deletion, `strict`,
  a field that becomes or stops being an M2M field, more than one related column,
  the NULL of the related column.

## 7. Plan

1. Done: `DbapiConnection` with its contract, `DbapiCursor`, `IdentityColumns`,
   `SchemaEditor`, `QuerySlicing`.
2. Done: nested blocks with savepoints and constraint checking over `DbapiConnection`
   (`DatabaseWrapper`), with their contract.
3. Done: values and columns (`FieldValues`, `DecimalText`, `FieldTypes`).
4. Done: every invariant, action property and refinement that a run checks is a theorem.
5. `SchemaEditor`: `delete_model`, the related column's NULL, two inbound relations.
6. Theorems about what is true after a failure: which of the foreign keys survive an
   alteration that raised, and what `rollback()` keeps when the server aborts.

## 8. Running

    tlc -config ConnectionReliable.cfg MCDbapiConnection
    tlapm DbapiConnectionProofs.tla
