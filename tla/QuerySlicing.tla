---------------------------- MODULE QuerySlicing ----------------------------
(***************************************************************************)
(* Slicing a query: Query.set_limits as patches.py replaces it, and the    *)
(* SELECT that SQLCompiler.as_sql emits, with ORDER BY, OFFSET and FETCH.  *)
(* A query object may be sliced many times, compiled many times and in     *)
(* different roles, and be part of the condition of another query.         *)
(*                                                                         *)
(* Django is external: which calls it makes on a query, and the arithmetic *)
(* of the set_limits it calls _original_set_limits here.  SQL Server is    *)
(* external: it refuses OFFSET without an ORDER BY of the same SELECT,     *)
(* FETCH of no rows, and ORDER BY of a nested SELECT without OFFSET.       *)
(***************************************************************************)
EXTENDS Integers, Sequences

CONSTANTS
    Queries,            \* the query objects
    N,                  \* the rows a query has before it is sliced
    Bounds,             \* the slice bounds callers use
    MaxLow,             \* bound: the greatest low_mark
    None

ASSUME RowsAssumption == N \in Nat
ASSUME BoundsAssumption == Bounds \in SUBSET Nat
ASSUME NoneAssumption == None \notin Int /\ None \notin BOOLEAN

VARIABLES
    low_mark, high_mark,
    empty,              \* set_empty() was called
    ordered,            \* the query has an ordering (order_by or Meta)
    condition,          \* the SQL of its WHERE clause has an ORDER BY
    not_allowed,        \* the attribute _mssql_ordering_not_allowed, or None
    rows,               \* history: the rows a list sliced likewise has
    statement           \* the SELECT compiled last, or None

vars == <<low_mark, high_mark, empty, ordered, condition, not_allowed, rows, statement>>

\* Where a SELECT stands: by itself, as the condition of another query
\* (as_nested_sql), or as the derived table of an aggregate (add_subquery).
Roles == {"top", "nested", "aggregate"}
Orderings == {"own", "first column", "none"}
Selects == [role : Roles, orderBy : Orderings, offset : Nat \cup {None},
            fetch : Int \cup {None}, empty : BOOLEAN,
            ofOrdered : BOOLEAN, expected : Seq(1..N)]

TypeOK ==
    /\ low_mark \in [Queries -> Nat]
    /\ high_mark \in [Queries -> Nat \cup {None}]
    /\ empty \in [Queries -> BOOLEAN]
    /\ ordered \in [Queries -> BOOLEAN]
    /\ condition \in [Queries -> BOOLEAN]
    /\ not_allowed \in [Queries -> BOOLEAN \cup {None}]
    /\ rows \in [Queries -> Seq(1..N)]
    /\ statement \in Selects \cup {None}

Sliced(q) == low_mark[q] # 0 \/ high_mark[q] # None

Smaller(a, b) == IF a < b THEN a ELSE b

\* list[start:stop], for a stop that may be None.
EndOf(list, stop) == IF stop = None THEN Len(list) ELSE Smaller(stop, Len(list))
ListSlice(list, start, stop) == SubSeq(list, start + 1, EndOf(list, stop))

All == [i \in 1..N |-> i]

Init ==
    /\ low_mark = [q \in Queries |-> 0]
    /\ high_mark = [q \in Queries |-> None]
    /\ empty = [q \in Queries |-> FALSE]
    /\ ordered \in [Queries -> BOOLEAN]
    /\ condition = [q \in Queries |-> FALSE]
    /\ not_allowed = [q \in Queries |-> None]
    /\ rows = [q \in Queries |-> All]
    /\ statement = None

------------------------------------------------------------------------------
(* Faults this code could have; no action uses them. *)

\* A slice without rows is not made an empty query.
EmptiesUnpatched(low, high) == FALSE
\* The attribute is not removed after the compilation.
AfterCompilationKept(q, aliases) == IF Sliced(q) THEN not_allowed[q] ELSE aliases
\* The attribute is not set at all.
SuppressedNever(q, aliases) == FALSE

------------------------------------------------------------------------------

\* _original_set_limits: the bounds count from the marks low and high so far.
High(low, high, stop) ==
    IF stop = None THEN high
    ELSE IF high = None THEN low + stop ELSE Smaller(high, low + stop)
Low(low, newHigh, start) ==
    IF newHigh = None THEN low + start ELSE Smaller(newHigh, low + start)

\* The patch.
Empties(low, high) == low = high

\* query[start:stop], query[k] as query[k:k+1], exists() as query[0:1].
SetLimits(q, start, stop) ==
    LET high == High(low_mark[q], high_mark[q], stop)
        low == Low(low_mark[q], high, start)
    IN /\ low <= MaxLow
       /\ low_mark' = [low_mark EXCEPT ![q] = low]
       /\ high_mark' = [high_mark EXCEPT ![q] = high]
       /\ empty' = [empty EXCEPT ![q] = @ \/ Empties(low, high)]
       /\ rows' = [rows EXCEPT ![q] = ListSlice(@, start, stop)]
       /\ UNCHANGED <<ordered, condition, not_allowed, statement>>

\* Django refuses to order a query that is sliced.
OrderBy(q) ==
    /\ ~Sliced(q)
    /\ ordered' = [ordered EXCEPT ![q] = ~@]
    /\ UNCHANGED <<low_mark, high_mark, empty, condition, not_allowed, rows, statement>>

------------------------------------------------------------------------------
(* as_sql. *)

\* get_ordering returns nothing while the attribute is TRUE; only a query
\* without limits sets it, to with_col_aliases.
Suppressed(q, aliases) == IF Sliced(q) THEN not_allowed[q] = TRUE ELSE aliases

\* The finally clause: delattr.
AfterCompilation(q, aliases) == IF Sliced(q) THEN not_allowed[q] ELSE None

\* as_nested_sql clears the ordering of a query that is not sliced.
OwnOrdering(q, role) ==
    /\ ordered[q] /\ ~Suppressed(q, role = "aggregate")
    /\ role = "nested" => Sliced(q)

Fetch(q) == IF high_mark[q] = None THEN None ELSE high_mark[q] - low_mark[q]

\* "if ' order by ' not in sql.lower()" looks at the whole text.
OrderOf(q, role) ==
    IF OwnOrdering(q, role) THEN "own"
    ELSE IF Sliced(q) /\ ~condition[q] THEN "first column" ELSE "none"

Select(q, role) ==
    [role |-> role, orderBy |-> OrderOf(q, role),
     offset |-> IF Sliced(q) THEN low_mark[q] ELSE None, fetch |-> Fetch(q),
     empty |-> empty[q], ofOrdered |-> ordered[q], expected |-> rows[q]]

\* An empty query is not sent: Django catches EmptyResultSet.
Compile(q, role) ==
    /\ statement' = Select(q, role)
    /\ not_allowed' = [not_allowed EXCEPT ![q] = AfterCompilation(q, role = "aggregate")]
    /\ UNCHANGED <<low_mark, high_mark, empty, ordered, condition, rows>>

\* q.filter(pk__in=r): the SELECT of r becomes part of the text of q's.
FilterIn(q, r) ==
    /\ q # r /\ ~Sliced(q) /\ ~empty[r]
    /\ condition' = [condition EXCEPT
                       ![q] = @ \/ condition[r] \/ OrderOf(r, "nested") # "none"]
    /\ UNCHANGED <<low_mark, high_mark, empty, ordered, not_allowed, rows, statement>>

Next ==
    \E q \in Queries :
        \/ \E start \in Bounds, stop \in Bounds \cup {None} : SetLimits(q, start, stop)
        \/ OrderBy(q)
        \/ \E role \in Roles : Compile(q, role)
        \/ \E r \in Queries : FilterIn(q, r)

Spec == Init /\ [][Next]_vars

------------------------------------------------------------------------------
(* Safety. *)

\* The rows OFFSET and FETCH take; SQL Server refuses FETCH NEXT 0 ROWS.
Taken(select) ==
    IF select.offset = None THEN All
    ELSE ListSlice(All, select.offset,
                   IF select.fetch = None THEN None ELSE select.offset + select.fetch)

\* However often a query was sliced, its SELECT takes the rows a list has that
\* was sliced the same way, and never asks for no rows at all.
SliceOfSlices ==
    statement # None =>
        IF statement.empty THEN statement.expected = <<>>
        ELSE /\ Taken(statement) = statement.expected
             /\ statement.fetch # None => statement.fetch > 0

\* A derived table has an ORDER BY only together with OFFSET.
DerivedOrder ==
    statement # None /\ statement.role # "top" /\ statement.offset = None =>
        statement.orderBy = "none"

\* A query that Django executes keeps its ordering, also when the same object
\* was compiled as a derived table before.
OrderKept ==
    statement # None /\ statement.role = "top" /\ statement.ofOrdered =>
        statement.orderBy = "own"

\* The inductive invariant of QuerySlicingProofs.
MarksInv(q) ==
    /\ high_mark[q] # None => low_mark[q] <= high_mark[q]
    /\ empty[q] <=> low_mark[q] = high_mark[q]
    /\ rows[q] = ListSlice(All, low_mark[q], high_mark[q])
    /\ not_allowed[q] = None

IInv ==
    /\ TypeOK
    /\ \A q \in Queries : MarksInv(q)
    /\ SliceOfSlices /\ DerivedOrder /\ OrderKept
==============================================================================
