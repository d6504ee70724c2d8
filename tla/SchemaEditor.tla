----------------------------- MODULE SchemaEditor -----------------------------
(***************************************************************************)
(* DatabaseSchemaEditor on one column of one table, with a related table   *)
(* that may refer to the primary key.  add_field, _alter_field and         *)
(* remove_field are sequences of SQL statements; DDL is not in a           *)
(* transaction (can_rollback_ddl keeps Django's FALSE), so each statement  *)
(* takes effect by itself and an operation that raises leaves the ones     *)
(* before it behind.  The operation is then tried again from the same      *)
(* field, because the migration was not recorded.                          *)
(*                                                                         *)
(* The catalog of SQL Server and BaseDatabaseSchemaEditor (_constraint_names, *)
(* column_sql, _alter_column_type_sql) are external.                       *)
(***************************************************************************)
EXTENDS Naturals, SequencesExt

CONSTANTS
    Fields,             \* the definitions the field may have
    Removed,            \* the field that is not there
    MaxFailures         \* bound: statements that raise for a reason the model
                        \* does not know (locks, duplicate values, dependents)

ASSUME FieldsAssumption ==
    \A f \in Fields :
        /\ f \in [column : STRING, type : STRING, null : BOOLEAN, unique : BOOLEAN, pk : BOOLEAN,
                  index : BOOLEAN, rel : BOOLEAN, check : STRING, default : STRING]
        /\ f.pk => f.unique /\ ~f.null
        /\ f.type = "auto" => f.pk

ASSUME RemovedAssumption == Removed \notin Fields

ASSUME MaxFailuresAssumption == MaxFailures \in Nat

VARIABLES
    field,              \* the definition the column was made from, or Removed
    op,                 \* the operation in progress: "none", "alter", "add", "remove"
    target,             \* the definition it leads to
    todo,               \* the statements it has still to execute, in the order of Plan
    fksDropped,         \* fks_dropped is not empty
    cat,                \* the catalog and the rows
    failures,           \* history: unexplained failures
    failed,             \* history: the last operation raised; it is tried again
                        \* with the same target before anything else is done
    raised              \* history: an operation has raised

vars == <<field, op, target, todo, fksDropped, cat, failures, failed, raised>>

\* Constraints on the column; "index" is one that is not made by a constraint.
Constraints == {"pk", "unique", "index", "fk", "default"}

\* Where a row with NULL comes from: the session that wrote it left the column
\* out (or it was there before the column), or wrote NULL.
NullSources == {"left_out", "written"}

\* db_params["check"]: "none" is the field without a check.
CheckChange(old, new) == old.check # new.check

\* effective_default: "none" is None, "implicit" the empty string of a field
\* without a default that is not null.
HasDefault(f) == f.default \notin {"none", "implicit"}

\* The type of a column that refers to a key of type t.
RelatedType(t) == IF t = "auto" THEN "int" ELSE t

Catalog == [
    exists : BOOLEAN,           \* the column
    column : {f.column : f \in Fields},
    type : {f.type : f \in Fields},
    null : BOOLEAN,
    cons : SUBSET Constraints,
    check : {f.check : f \in Fields} \cup {"none"},     \* the text of its check
    nullRows : SUBSET NullSources,      \* the rows with NULL in the column
    otherPk : BOOLEAN,          \* the primary key is on another column
    related : BOOLEAN,          \* the related field has a constraint
    relFk : BOOLEAN,            \* its foreign key exists
    relType : {RelatedType(f.type) : f \in Fields} \cup {"int"} ]

------------------------------------------------------------------------------
(* When a catalog is what a definition says. *)

\* Uniqueness of a primary key may be enforced by the key alone; plain indexes
\* are left out, _alter_field neither adds nor drops all of them.
ColumnMatches(f) ==
    /\ cat.exists
    /\ cat.column = f.column /\ cat.type = f.type /\ cat.null = f.null
    /\ f.unique <=> cat.cons \cap {"unique", "pk"} # {}
    /\ f.pk => "pk" \in cat.cons
    /\ cat.check = f.check
    /\ "default" \notin cat.cons

RelatedMatches(f) ==
    /\ cat.related => cat.relFk
    /\ f.pk => cat.relType = RelatedType(f.type)

ForeignKeyMatches(f) == f.rel <=> "fk" \in cat.cons

\* The catalog create_model gives for f.
Created(f, related) ==
    [exists |-> TRUE, column |-> f.column, type |-> f.type, null |-> f.null,
     cons |-> (IF f.pk THEN {"pk"} ELSE IF f.unique THEN {"unique"} ELSE {})
              \cup (IF f.index /\ ~f.unique THEN {"index"} ELSE {})
              \cup (IF f.rel THEN {"fk"} ELSE {}),
     check |-> f.check, nullRows |-> {}, otherPk |-> ~f.pk, related |-> related, relFk |-> related,
     relType |-> RelatedType(IF f.pk THEN f.type ELSE "int")]

Init ==
    /\ field \in Fields
    /\ \E related \in BOOLEAN : cat = Created(field, related)
    /\ op = "none"
    /\ target = field
    /\ todo = {}
    /\ fksDropped = FALSE
    /\ failures = 0
    /\ failed = FALSE
    /\ raised = FALSE

------------------------------------------------------------------------------
(* The statements of an operation, in the order of the code. *)

TypeChange(old, new) == old.type # new.type
KeyTypeChange(old, new) == old.pk /\ new.pk /\ TypeChange(old, new)
BecomesKey(old, new) == ~old.pk /\ new.pk
NeedsDatabaseDefault(old, new) == old.default # new.default /\ new.default # "none"
FourWayDefaultAlteration(old, new) == HasDefault(new) /\ old.null /\ ~new.null

\* Faults this code could have; no action uses them.

\* The nullability is only restored when it is what changes.
NullChangeOnly(old, new) == old.null # new.null
\* fks_dropped is not looked at.
ForeignKeyAddedOnly(old, new) == new.rel /\ ~old.rel
\* The inbound foreign keys stay dropped.
RebuildForgotten(old, new) == FALSE
\* The rows are updated before the default is there.
DefaultAfterUpdate == <<
    "drop_fk", "drop_unique", "drop_inbound", "drop_index", "drop_check", "rename",
    "alter_type", "update_rows", "add_default", "alter_null", "alter_null_last",
    "create_unique", "create_index", "drop_pk", "create_pk", "alter_related",
    "create_fk", "rebuild_inbound", "create_check", "drop_default" >>

\* "Nullability change?": a type change loses it too.
NullAction(old, new) == old.null # new.null \/ TypeChange(old, new)

\* "Does it have a foreign key?"
CreateForeignKey(old, new) == new.rel /\ (fksDropped \/ ~old.rel)

\* "Rebuild FKs that pointed to us if we previously had to drop them".
RebuildInbound(old, new) == KeyTypeChange(old, new)

AlterPlan == <<
    "drop_fk", "drop_unique", "drop_inbound", "drop_index", "drop_check", "rename",
    "alter_type", "add_default", "alter_null", "update_rows", "alter_null_last",
    "create_unique", "create_index", "drop_pk", "create_pk", "alter_related",
    "create_fk", "rebuild_inbound", "create_check", "drop_default" >>

AlterNeeds(s, old, new) ==
    CASE s = "drop_fk"         -> old.rel
      [] s = "drop_unique"     -> old.unique /\ (~new.unique \/ BecomesKey(old, new))
      [] s = "drop_inbound"    -> KeyTypeChange(old, new)
      [] s = "drop_index"      -> old.index /\ ~new.index /\ ~old.unique
      [] s = "drop_check"      -> CheckChange(old, new) /\ old.check # "none"
      [] s = "rename"          -> old.column # new.column
      [] s = "alter_type"      -> TypeChange(old, new)
      [] s = "add_default"     -> NeedsDatabaseDefault(old, new)
      [] s = "alter_null"      -> NullAction(old, new) /\ ~FourWayDefaultAlteration(old, new)
      [] s = "update_rows"     -> FourWayDefaultAlteration(old, new)
      [] s = "alter_null_last" -> NullAction(old, new) /\ FourWayDefaultAlteration(old, new)
      [] s = "create_unique"   -> new.unique /\ (~old.unique \/ (old.pk /\ ~new.pk))
      [] s = "create_index"    -> ~old.index /\ new.index /\ ~new.unique
      [] s = "drop_pk"         -> BecomesKey(old, new)
      [] s = "create_pk"       -> BecomesKey(old, new)
      [] s = "alter_related"   -> KeyTypeChange(old, new) \/ BecomesKey(old, new)
      [] s = "create_fk"       -> new.rel
      [] s = "rebuild_inbound" -> RebuildInbound(old, new)
      [] s = "create_check"    -> CheckChange(old, new) /\ new.check # "none"
      [] s = "drop_default"    -> NeedsDatabaseDefault(old, new)

\* add_field: the index and the foreign key are deferred to the end.
AddPlan == <<"add_column", "drop_default", "create_index", "create_fk">>

AddNeeds(s, new) ==
    CASE s = "create_index" -> new.index /\ ~new.unique
      [] s = "create_fk"    -> new.rel
      [] OTHER              -> TRUE

RemovePlan == <<"drop_fk", "drop_column_pk", "drop_index", "drop_column_unique",
                "drop_check", "drop_column">>

Statements == ToSet(AlterPlan) \cup ToSet(AddPlan) \cup ToSet(RemovePlan)

TypeOK ==
    /\ field \in Fields \cup {Removed}
    /\ op \in {"none", "alter", "add", "remove"}
    /\ target \in Fields \cup {Removed}
    /\ todo \subseteq Statements
    /\ fksDropped \in BOOLEAN
    /\ cat \in Catalog
    /\ failures \in 0..MaxFailures
    /\ failed \in BOOLEAN
    /\ raised \in BOOLEAN

------------------------------------------------------------------------------
(* What a statement does to the catalog. *)

\* _constraint_names(unique=True) and (index=True): get_constraints reports a
\* primary key as unique, and every row of sys.indexes as an index.
Named(cons) == IF cat.column = field.column THEN cat.cons \cap cons ELSE {}
UniqueNames == Named({"unique", "pk"})
IndexNames == Named({"index", "unique", "pk"})
KeyNames == Named({"pk"})

Without(cons) == [cat EXCEPT !.cons = @ \ cons]
With(cons) == [cat EXCEPT !.cons = @ \cup cons]
If(cond, cons) == IF cond THEN cons ELSE {}

\* A key goes only when no foreign key refers to it.
KeyInUse == cat.relFk
TableHasKey == cat.otherPk \/ "pk" \in cat.cons

\* The server refuses the statement.  The drops run a statement for each name
\* they find, and none when there is no name.  That the server may also refuse
\* to alter a column that constraints depend on, or to add a NOT NULL column
\* without a default when there are rows, is among the failures counted by
\* MaxFailures.
Refused(s) ==
    CASE s = "drop_unique"     -> "pk" \in UniqueNames /\ KeyInUse
      [] s = "drop_index"      -> IndexNames \cap {"unique", "pk"} # {}
      [] s = "add_default"     -> "default" \in cat.cons
      [] s \in {"alter_null", "alter_null_last"} -> ~target.null /\ cat.nullRows # {}
      [] s = "drop_pk"         -> TableHasKey /\ KeyInUse
      [] s = "drop_column_pk"  -> KeyNames # {} /\ KeyInUse
      [] s = "create_pk"       -> "pk" \in cat.cons \/ cat.null
      [] s = "create_check"    -> cat.check # "none"
      [] s = "create_fk"       -> "fk" \in cat.cons
      [] s = "add_column"      -> cat.exists
      [] s = "rename"          -> cat.column # field.column
      [] s = "drop_column"     -> cat.cons # {} \/ cat.check # "none"
      [] OTHER                 -> FALSE

\* The column that ADD makes: column_sql with the default and its constraints.
Added ==
    [exists |-> TRUE, column |-> target.column, type |-> target.type, null |-> target.null,
     cons |-> If(target.default # "none", {"default"}) \cup If(target.unique, {"unique"}),
     check |-> target.check, nullRows |-> If(target.null, {"left_out"}),
     otherPk |-> cat.otherPk, related |-> cat.related, relFk |-> cat.relFk, relType |-> cat.relType]

\* _constraint_names(check=True) finds those of a column of that name.
CheckDropped == [cat EXCEPT !.check = IF cat.column = field.column THEN "none" ELSE @]

\* ALTER COLUMN without NULL or NOT NULL makes the column nullable.
Effect(s) ==
    CASE s = "drop_fk"            -> Without(Named({"fk"}))
      [] s = "drop_unique"        -> Without(UniqueNames)
      [] s = "drop_inbound"       -> [cat EXCEPT !.relFk = FALSE]
      [] s = "drop_index"         -> Without(IndexNames)
      [] s = "drop_check"         -> CheckDropped
      [] s = "drop_column_pk"     -> Without(KeyNames)
      [] s = "drop_column_unique" -> Without(Named({"unique"}))
      [] s = "rename"             -> [cat EXCEPT !.column = target.column]
      [] s = "alter_type"         -> [cat EXCEPT !.type = target.type, !.null = TRUE]
      [] s = "add_default"        -> With({"default"})
      [] s \in {"alter_null", "alter_null_last"} ->
            [cat EXCEPT !.type = target.type, !.null = target.null]
      [] s = "update_rows"        -> [cat EXCEPT !.nullRows = {}]
      [] s = "create_unique"      -> With({"unique"})
      [] s = "create_index"       -> With({"index"})
      [] s = "drop_pk"            -> [Without({"pk"}) EXCEPT !.otherPk = FALSE]
      [] s = "create_pk"          -> With({"pk"})
      [] s = "alter_related"      -> [cat EXCEPT !.relType = RelatedType(target.type)]
      [] s = "create_fk"          -> With({"fk"})
      [] s = "rebuild_inbound"    -> [cat EXCEPT !.relFk = TRUE]
      [] s = "create_check"       -> [cat EXCEPT !.check = target.check]
      [] s = "drop_default"       -> Without({"default"})
      [] s = "add_column"         -> Added
      [] s = "drop_column"        -> [cat EXCEPT !.exists = FALSE, !.nullRows = {}]

------------------------------------------------------------------------------

Begin(operation, new, statements) ==
    /\ op = "none"
    /\ failed => new = target
    /\ op' = operation
    /\ target' = new
    /\ todo' = statements
    /\ fksDropped' = FALSE
    /\ UNCHANGED <<field, cat, failures, failed, raised>>

\* Changing to an AutoField is NotSupportedError: nothing happens.
Alter(new) ==
    /\ field # Removed
    /\ new.type = "auto" => field.type = "auto"
    /\ Begin("alter", new, {s \in ToSet(AlterPlan) : AlterNeeds(s, field, new)})

AddField(new) ==
    /\ field = Removed
    /\ ~new.pk
    /\ Begin("add", new, {s \in ToSet(AddPlan) : AddNeeds(s, new)})

\* A key is neither removed nor added: Django replaces it by another field.
RemoveField ==
    /\ field # Removed /\ ~field.pk
    /\ Begin("remove", Removed, ToSet(RemovePlan))

\* The foreign key is made again only if this call has dropped one.
Skipped(s) ==
    s = "create_fk" /\ op = "alter" /\ ~CreateForeignKey(field, target)

\* The statement that is executed next.
Plan == CASE op = "alter" -> AlterPlan [] op = "add" -> AddPlan [] op = "remove" -> RemovePlan
Current(s) ==
    \E i \in DOMAIN Plan :
        /\ Plan[i] = s /\ s \in todo
        /\ \A j \in 1..(i - 1) : Plan[j] \notin todo

Execute(s) ==
    /\ Skipped(s) \/ ~Refused(s)
    /\ cat' = IF Skipped(s) THEN cat ELSE Effect(s)
    /\ fksDropped' = (fksDropped \/ (s = "drop_fk" /\ Named({"fk"}) # {}))
    /\ todo' = todo \ {s}

Statement ==
    /\ op # "none"
    /\ \E s \in todo : Current(s) /\ Execute(s)
    /\ UNCHANGED <<field, op, target, failures, failed, raised>>

Stop ==
    /\ op' = "none"
    /\ todo' = {}
    /\ fksDropped' = FALSE

\* The operation raises; what was done stays.
Raise ==
    /\ op # "none"
    /\ \E s \in todo :
        /\ Current(s) /\ ~Skipped(s)
        /\ IF Refused(s)
           THEN UNCHANGED failures
           ELSE failures < MaxFailures /\ failures' = failures + 1
    /\ raised' = TRUE
    /\ failed' = TRUE
    /\ Stop
    /\ UNCHANGED <<field, target, cat>>

Finish ==
    /\ op # "none" /\ todo = {}
    /\ field' = target
    /\ failed' = FALSE
    /\ Stop
    /\ UNCHANGED <<target, cat, failures, raised>>

\* Another session writes a row: it leaves the column out, and NULL is what is
\* stored unless there is a default, or it writes NULL, with or without one.
WriteRow(source) ==
    /\ cat.exists /\ cat.null
    /\ source = "left_out" => "default" \notin cat.cons
    /\ cat' = [cat EXCEPT !.nullRows = @ \cup {source}]
    /\ UNCHANGED <<field, op, target, todo, fksDropped, failures, failed, raised>>

\* Somebody puts the values in that NOT NULL needs.
FillRows ==
    /\ op = "none" /\ cat.nullRows # {}
    /\ cat' = [cat EXCEPT !.nullRows = {}]
    /\ UNCHANGED <<field, op, target, todo, fksDropped, failures, failed, raised>>

Next ==
    \/ \E new \in Fields : Alter(new) \/ AddField(new)
    \/ RemoveField
    \/ Statement \/ Raise \/ Finish
    \/ \E source \in NullSources : WriteRow(source)
    \/ FillRows

Spec == Init /\ [][Next]_vars

------------------------------------------------------------------------------
(* Safety. *)

\* Between two operations, none of which is half done.
Settled == op = "none" /\ field # Removed /\ ~failed

\* The column is what the definition Django has recorded says (type, NULL,
\* uniqueness, check, no default left), whatever sequence of operations led
\* there, also when some of them raised half way and were tried again.
ColumnIsDefinition == Settled => ColumnMatches(field)

\* The related column has the type of the key and its foreign key is back.
RelatedIsDefinition == Settled => RelatedMatches(field)

\* The column's own foreign key exists exactly when the definition has one, as
\* long as no operation has raised.
ForeignKeyIsDefinition == Settled /\ ~raised => ForeignKeyMatches(field)

\* "Add a default for new incoming writes": when the alteration has put the
\* default into the database before it updated the rows, none of the rows that
\* NOT NULL is refused for is one that a session wrote without the column.  Rows
\* written with NULL may be there, and so may both when the default is not a new
\* one: step 1 is then left out.
IncomingWritesTakeDefault ==
    op = "alter" /\ NeedsDatabaseDefault(field, target) /\ Current("alter_null_last") =>
        "left_out" \notin cat.nullRows

------------------------------------------------------------------------------
(* The inductive invariant of SchemaEditorProofs. *)

Unique == {"unique", "pk"}

\* What an alteration leaves as it was, wherever it stops.
Kept(old, new) ==
    /\ cat.exists
    /\ cat.column \in {old.column, new.column}
    /\ ~TypeChange(old, new) => cat.type = old.type
    /\ ~NullAction(old, new) => cat.null = old.null
    /\ ~old.unique /\ ~new.unique => cat.cons \cap Unique = {}
    /\ old.unique /\ new.unique /\ ~BecomesKey(old, new) => cat.cons \cap Unique # {}
    /\ old.pk /\ new.pk => "pk" \in cat.cons
    /\ ~CheckChange(old, new) => cat.check = old.check
    /\ ~NeedsDatabaseDefault(old, new) => "default" \notin cat.cons
    /\ ~KeyTypeChange(old, new) => (cat.related => cat.relFk)
    /\ old.pk /\ ~KeyTypeChange(old, new) => cat.relType = RelatedType(old.type)

\* The column was renamed before the operation raised: the rename that is tried
\* again is refused, and the statements before it find no constraints.
Renamed(old) == "rename" \in todo /\ cat.column # old.column

\* What the statements of an alteration that are behind have done.
Altered(old, new) ==
    /\ "rename" \notin todo => cat.column = new.column
    /\ "alter_type" \notin todo => cat.type = new.type
    /\ {"alter_null", "alter_null_last"} \cap todo = {} => cat.null = new.null
    /\ "drop_unique" \notin todo /\ ~new.unique /\ ~Renamed(old) => cat.cons \cap Unique = {}
    /\ "create_unique" \notin todo /\ new.unique /\ ~BecomesKey(old, new)
            => cat.cons \cap Unique # {}
    /\ "create_pk" \notin todo /\ new.pk => "pk" \in cat.cons
    /\ "drop_check" \notin todo /\ new.check = "none" /\ ~Renamed(old) => cat.check = "none"
    /\ "create_check" \notin todo /\ new.check # "none" => cat.check = new.check
    /\ "drop_default" \notin todo => "default" \notin cat.cons
    /\ "add_default" \notin todo /\ "drop_default" \in todo => "default" \in cat.cons
    /\ "update_rows" \notin todo /\ "alter_null_last" \in todo /\ NeedsDatabaseDefault(old, new)
            => "left_out" \notin cat.nullRows
    /\ "rebuild_inbound" \notin todo => (cat.related => cat.relFk)
    /\ "alter_related" \notin todo /\ new.pk => cat.relType = RelatedType(new.type)

\* The column's own foreign key, as long as no operation has raised.
ForeignKeyAltered(old, new) ==
    /\ "rename" \in todo => cat.column = old.column
    /\ "drop_fk" \in todo => "fk" \in cat.cons
    /\ "drop_fk" \notin todo /\ old.rel => fksDropped
    /\ "drop_fk" \notin todo /\ ("create_fk" \in todo \/ ~new.rel) => "fk" \notin cat.cons
    /\ "create_fk" \notin todo /\ new.rel => "fk" \in cat.cons

\* The statements left are those from some place of the plan on.
AlterLeft ==
    \E k \in 1..(Len(AlterPlan) + 1) :
        \A i \in DOMAIN AlterPlan :
            AlterPlan[i] \in todo <=> k <= i /\ AlterNeeds(AlterPlan[i], field, target)

IdleInv ==
    op = "none" =>
        /\ todo = {}
        /\ field # Removed =>
              IF failed THEN target # Removed => Kept(field, target)
              ELSE ColumnMatches(field) /\ RelatedMatches(field)
        /\ field # Removed /\ ~raised => ForeignKeyMatches(field)

AlterInv ==
    op = "alter" =>
        /\ field # Removed /\ target # Removed /\ todo \subseteq ToSet(AlterPlan)
        /\ AlterLeft
        /\ Kept(field, target)
        /\ Altered(field, target)
        /\ ~raised => ForeignKeyAltered(field, target)

AddInv ==
    op = "add" =>
        /\ field = Removed /\ target # Removed /\ ~target.pk /\ todo \subseteq ToSet(AddPlan)
        /\ "create_fk" \in todo => target.rel
        /\ "add_column" \in todo => todo = {s \in ToSet(AddPlan) : AddNeeds(s, target)}
        /\ "add_column" \notin todo =>
              /\ cat.exists
              /\ cat.column = target.column /\ cat.type = target.type /\ cat.null = target.null
              /\ cat.cons \cap Unique = IF target.unique THEN {"unique"} ELSE {}
              /\ cat.check = target.check
              /\ "drop_default" \notin todo => "default" \notin cat.cons
              /\ target.rel /\ "create_fk" \notin todo <=> "fk" \in cat.cons

RemoveInv ==
    op = "remove" => field # Removed /\ target = Removed /\ todo \subseteq ToSet(RemovePlan)

\* Only an alteration touches the foreign key of the related column.
CatalogInv ==
    /\ field = Removed \/ target = Removed => (cat.related => cat.relFk)
    /\ failed => raised

IInv == TypeOK /\ IdleInv /\ AlterInv /\ AddInv /\ RemoveInv /\ CatalogInv

------------------------------------------------------------------------------
(* What the repository says and the code does not do. *)

\* schema.py:160 "Drop any FK constraints, we'll remake them later".
ForeignKeyRemade == Settled => ForeignKeyMatches(field)

\* schema.py:130 "Drop all constraints", of the column that remove_field drops.
RemoveDropsConstraints ==
    op = "remove" => \A s \in todo : Current(s) => ~Refused(s)
==============================================================================
