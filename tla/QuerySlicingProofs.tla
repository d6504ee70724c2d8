-------------------------- MODULE QuerySlicingProofs --------------------------
(***************************************************************************)
(* Theorems about QuerySlicing, for every number of rows and every bounds. *)
(* The argument is that the two marks are one window on the rows of the    *)
(* query (MarksInv), and that slicing a window gives the window set_limits *)
(* computes (SliceOfWindow).                                               *)
(***************************************************************************)
EXTENDS QuerySlicing, SequenceTheorems, TLAPS

(* The length and the elements of a slice of a list.                           *)
LEMMA ListSliceProperties ==
  ASSUME NEW S, NEW s \in Seq(S), NEW start \in Nat, NEW stop \in Nat \cup {None}
  PROVE  /\ ListSlice(s, start, stop) \in Seq(S)
         /\ Len(ListSlice(s, start, stop))
              = IF start < EndOf(s, stop) THEN EndOf(s, stop) - start ELSE 0
         /\ \A i \in 1..(EndOf(s, stop) - start) : ListSlice(s, start, stop)[i] = s[start + i]
<1> DEFINE e == EndOf(s, stop)
<1>1. e \in Nat /\ e <= Len(s)
  BY NoneAssumption DEF EndOf, Smaller
<1> HIDE DEF e
<1>2. \A i \in (start + 1)..e : s[i] \in S
  BY <1>1
<1>3. ListSlice(s, start, stop) = SubSeq(s, start + 1, e)
  BY DEF ListSlice, e
<1>4. /\ SubSeq(s, start + 1, e) \in Seq(S)
      /\ Len(SubSeq(s, start + 1, e)) = IF start + 1 <= e THEN e - (start + 1) + 1 ELSE 0
      /\ \A i \in 1..(e - (start + 1) + 1) : SubSeq(s, start + 1, e)[i] = s[(start + 1) + i - 1]
  BY <1>1, <1>2, SubSeqProperties
<1> QED BY <1>1, <1>3, <1>4 DEF e

(* The rows of a query that is not sliced.                                     *)
LEMMA AllProperties == All \in Seq(1..N) /\ Len(All) = N /\ \A i \in 1..N : All[i] = i
  BY RowsAssumption, IsASeq DEF All

\* The end of the window the marks low and high are on the rows.
End(high) == IF high = None THEN N ELSE Smaller(high, N)

(* A window on the rows of a query.                                            *)
LEMMA WindowProperties ==
  ASSUME NEW low \in Nat, NEW high \in Nat \cup {None}
  PROVE  /\ ListSlice(All, low, high) \in Seq(1..N)
         /\ Len(ListSlice(All, low, high)) = IF low < End(high) THEN End(high) - low ELSE 0
         /\ \A i \in 1..(End(high) - low) : ListSlice(All, low, high)[i] = low + i
         /\ End(high) \in Nat /\ End(high) <= N
<1>1. End(high) \in Nat /\ End(high) <= N
  BY RowsAssumption, NoneAssumption DEF End, Smaller
<1>2. /\ ListSlice(All, low, high) \in Seq(1..N)
      /\ Len(ListSlice(All, low, high)) = IF low < End(high) THEN End(high) - low ELSE 0
      /\ \A i \in 1..(End(high) - low) : ListSlice(All, low, high)[i] = All[low + i]
  <2>1. EndOf(All, high) = End(high)
    BY AllProperties DEF End, EndOf
  <2>2. /\ ListSlice(All, low, high) \in Seq(1..N)
        /\ Len(ListSlice(All, low, high))
             = IF low < EndOf(All, high) THEN EndOf(All, high) - low ELSE 0
        /\ \A i \in 1..(EndOf(All, high) - low) : ListSlice(All, low, high)[i] = All[low + i]
    <3>1. All \in Seq(1..N)
      BY AllProperties
    <3> QED BY ONLY <3>1, low \in Nat, high \in Nat \cup {None}, ListSliceProperties
  <2> QED BY <2>1, <2>2
<1>3. ASSUME NEW i \in 1..(End(high) - low) PROVE ListSlice(All, low, high)[i] = low + i
  <2>1. low + i \in 1..N
    BY <1>1, RowsAssumption
  <2> QED BY <1>2, <2>1, AllProperties
<1> QED BY <1>1, <1>2, <1>3

(* Two windows with the same beginning and end, or both without rows.          *)
LEMMA SameWindow ==
  ASSUME NEW low \in Nat, NEW high \in Nat \cup {None}, NEW list \in Seq(1..N),
         Len(list) = IF low < End(high) THEN End(high) - low ELSE 0,
         \A i \in 1..(End(high) - low) : list[i] = low + i
  PROVE  list = ListSlice(All, low, high)
<1>1. \A i \in 1..Len(list) : i \in 1..(End(high) - low)
  BY WindowProperties
<1>2. \A i \in 1..Len(list) : list[i] = ListSlice(All, low, high)[i]
  BY <1>1, WindowProperties
<1>3. ListSlice(All, low, high) \in Seq(1..N) /\ Len(list) = Len(ListSlice(All, low, high))
  BY WindowProperties
<1> QED BY <1>2, <1>3, SeqEqual

(* A query that is not sliced is the window of all its rows.                   *)
LEMMA WholeWindow == All = ListSlice(All, 0, None)
<1>1. End(None) = N
  BY DEF End
<1>2. /\ Len(All) = IF 0 < End(None) THEN End(None) - 0 ELSE 0
      /\ \A i \in 1..(End(None) - 0) : All[i] = 0 + i
  BY <1>1, AllProperties, RowsAssumption
<1> QED BY <1>2, AllProperties, SameWindow

(* Slicing a window: the marks move as High and Low say.                       *)
LEMMA SliceOfWindow ==
  ASSUME NEW low \in Nat, NEW high \in Nat \cup {None}, high # None => low <= high,
         NEW start \in Nat, NEW stop \in Nat \cup {None}
  PROVE  ListSlice(ListSlice(All, low, high), start, stop)
           = ListSlice(All, Low(low, High(low, high, stop), start), High(low, high, stop))
<1> DEFINE newHigh == High(low, high, stop)
           newLow == Low(low, newHigh, start)
           window == ListSlice(All, low, high)
           e == EndOf(window, stop)
           list == ListSlice(window, start, stop)
<1>1. /\ newLow \in Nat /\ newHigh \in Nat \cup {None}
  BY NoneAssumption DEF High, Low, Smaller
<1>2. /\ window \in Seq(1..N) /\ Len(window) = IF low < End(high) THEN End(high) - low ELSE 0
      /\ \A i \in 1..(End(high) - low) : window[i] = low + i
      /\ End(high) \in Nat
  BY WindowProperties
<1> HIDE DEF newHigh, newLow
<1>3. /\ list \in Seq(1..N) /\ Len(list) = IF start < e THEN e - start ELSE 0
      /\ \A i \in 1..(e - start) : list[i] = window[start + i]
  <2> HIDE DEF window
  <2> QED BY <1>2, ListSliceProperties
<1>4. e \in Nat /\ e <= Len(window)
  BY <1>2, NoneAssumption DEF EndOf, Smaller
<1>5. (IF start < e THEN e - start ELSE 0)
        = IF newLow < End(newHigh) THEN End(newHigh) - newLow ELSE 0
  BY <1>2, NoneAssumption, RowsAssumption DEF End, EndOf, newHigh, newLow, High, Low, Smaller
<1>6. ASSUME NEW i \in 1..(End(newHigh) - newLow) PROVE list[i] = newLow + i
  <2>1. i \in 1..(e - start) /\ start + i \in 1..(End(high) - low) /\ newLow = low + start
    <3>1. End(newHigh) \in Nat
      BY <1>1, WindowProperties
    <3>2. newLow < End(newHigh) /\ i <= e - start
      BY <1>1, <1>4, <1>5, <3>1
    <3>3. newLow = low + start
      BY <1>1, <3>2, NoneAssumption, RowsAssumption DEF End, newHigh, newLow, High, Low, Smaller
    <3> QED BY <1>2, <1>4, <3>2, <3>3
  <2>2. list[i] = window[start + i] /\ window[start + i] = low + (start + i)
    BY <1>2, <1>3, <2>1
  <2> QED BY <2>1, <2>2
<1>7. list = ListSlice(All, newLow, newHigh)
  <2> HIDE DEF list, e, window
  <2>1. /\ Len(list) = IF newLow < End(newHigh) THEN End(newHigh) - newLow ELSE 0
        /\ list \in Seq(1..N)
    BY <1>3, <1>5
  <2>2. \A i \in 1..(End(newHigh) - newLow) : list[i] = newLow + i
    BY <1>6
  <2> QED BY <1>1, <2>1, <2>2, SameWindow
<1> QED BY <1>7 DEF newHigh, newLow

(* The initial states satisfy the inductive invariant.                         *)
LEMMA InitInv == Init => IInv
<1> SUFFICES ASSUME Init PROVE IInv
  OBVIOUS
<1>1. TypeOK
  BY AllProperties DEF Init, TypeOK
<1>3. ASSUME NEW q \in Queries PROVE MarksInv(q)
  <2>1. /\ low_mark[q] = 0 /\ high_mark[q] = None /\ ~empty[q]
        /\ not_allowed[q] = None /\ rows[q] = All
    BY DEF Init
  <2> QED BY <2>1, WholeWindow, NoneAssumption DEF MarksInv
<1> QED BY <1>1, <1>3 DEF Init, IInv, SliceOfSlices, DerivedOrder, OrderKept

(* A slice.                                                                    *)
LEMMA SetLimitsInv ==
  ASSUME IInv, NEW q \in Queries, NEW start \in Bounds, NEW stop \in Bounds \cup {None},
         SetLimits(q, start, stop)
  PROVE  IInv'
<1> DEFINE high == High(low_mark[q], high_mark[q], stop)
           low == Low(low_mark[q], high, start)
<1>0. /\ TypeOK /\ MarksInv(q) /\ start \in Nat /\ stop \in Nat \cup {None}
      /\ low_mark[q] \in Nat /\ high_mark[q] \in Nat \cup {None}
  BY BoundsAssumption DEF IInv, TypeOK
<1>1. /\ low \in Nat /\ high \in Nat \cup {None}
      /\ high # None => low <= high
      /\ low_mark[q] = high_mark[q] => low = high
      /\ ListSlice(rows[q], start, stop) = ListSlice(All, low, high)
  <2>1. /\ low_mark[q] \in Nat /\ high_mark[q] \in Nat \cup {None}
        /\ start \in Nat /\ stop \in Nat \cup {None}
    BY <1>0
  <2>3. /\ high_mark[q] # None => low_mark[q] <= high_mark[q]
        /\ rows[q] = ListSlice(All, low_mark[q], high_mark[q])
    BY <1>0 DEF MarksInv
  <2>4. /\ low \in Nat /\ high \in Nat \cup {None}
        /\ high # None => low <= high
        /\ low_mark[q] = high_mark[q] => low = high
    BY <2>1, <2>3, NoneAssumption DEF High, Low, Smaller
  <2>5. ListSlice(ListSlice(All, low_mark[q], high_mark[q]), start, stop)
          = ListSlice(All, low, high)
    BY <2>1, <2>3, SliceOfWindow
  <2> QED BY <2>3, <2>4, <2>5
<1>2. ListSlice(All, low, high) \in Seq(1..N)
  <2> HIDE DEF low, high
  <2> QED BY <1>1, WindowProperties
<1>3. /\ low_mark' = [low_mark EXCEPT ![q] = low]
      /\ high_mark' = [high_mark EXCEPT ![q] = high]
      /\ empty' = [empty EXCEPT ![q] = @ \/ low = high]
      /\ rows' = [rows EXCEPT ![q] = ListSlice(All, low, high)]
      /\ UNCHANGED <<ordered, condition, not_allowed, statement>>
  BY <1>1 DEF SetLimits, Empties
<1> HIDE DEF low, high
<1>4. TypeOK'
  BY <1>0, <1>1, <1>2, <1>3 DEF TypeOK
<1>5. ASSUME NEW r \in Queries PROVE MarksInv(r)'
  <2>1. CASE r = q
    BY <1>0, <1>1, <1>3, <2>1 DEF MarksInv, TypeOK
  <2>2. CASE r # q
    BY <1>0, <1>3, <2>2 DEF IInv, MarksInv, TypeOK
  <2> QED BY <2>1, <2>2
<1>6. (SliceOfSlices /\ DerivedOrder /\ OrderKept)'
  BY <1>3 DEF IInv, SliceOfSlices, DerivedOrder, OrderKept
<1> QED BY <1>4, <1>5, <1>6 DEF IInv

(* A SELECT is compiled.                                                       *)
LEMMA CompileInv ==
  ASSUME IInv, NEW q \in Queries, NEW role \in Roles, Compile(q, role)
  PROVE  IInv'
<1>0. /\ TypeOK /\ MarksInv(q) /\ statement' = Select(q, role)
      /\ low_mark[q] \in Nat /\ high_mark[q] \in Nat \cup {None}
      /\ rows[q] \in Seq(1..N) /\ empty[q] \in BOOLEAN /\ ordered[q] \in BOOLEAN
  BY DEF Compile, IInv, TypeOK
<1>1. UNCHANGED <<low_mark, high_mark, empty, ordered, condition, rows>> /\ not_allowed' = not_allowed
  BY <1>0 DEF Compile, AfterCompilation, MarksInv, TypeOK
<1>2. Fetch(q) \in Int \cup {None} /\ OrderOf(q, role) \in Orderings
  BY <1>0 DEF Fetch, OrderOf, Orderings
<1>3. Select(q, role) \in Selects
  BY <1>0, <1>2 DEF Select, Selects
<1>4. TypeOK'
  BY <1>0, <1>1, <1>3 DEF TypeOK
<1>5. \A r \in Queries : MarksInv(r)'
  BY <1>1 DEF IInv, MarksInv
<1>6. SliceOfSlices'
  <2>1. CASE empty[q]
    <3>1. rows[q] = <<>>
      <4>1. Len(rows[q]) = 0
        <5>1. low_mark[q] = high_mark[q] /\ high_mark[q] # None
          BY <1>0, <2>1, NoneAssumption DEF MarksInv
        <5>2. ~(low_mark[q] < End(high_mark[q]))
          BY <1>0, <5>1, RowsAssumption DEF End, Smaller
        <5>3. /\ low_mark[q] \in Nat /\ high_mark[q] \in Nat \cup {None}
              /\ rows[q] = ListSlice(All, low_mark[q], high_mark[q])
          BY <1>0 DEF MarksInv
        <5>4. Len(ListSlice(All, low_mark[q], high_mark[q]))
                = IF low_mark[q] < End(high_mark[q]) THEN End(high_mark[q]) - low_mark[q] ELSE 0
          BY <5>3, WindowProperties
        <5> QED BY <5>2, <5>3, <5>4
      <4> QED BY <1>0, <4>1, EmptySeq
    <3> QED BY <1>0, <2>1, <3>1 DEF SliceOfSlices, Select
  <2>2. CASE ~empty[q]
    <3>1. Taken(Select(q, role)) = rows[q]
      <4>1. CASE Sliced(q)
        BY <1>0, <4>1, NoneAssumption DEF Taken, Select, Fetch, MarksInv
      <4>2. CASE ~Sliced(q)
        BY <1>0, <4>2, WholeWindow DEF Taken, Select, Sliced, MarksInv
      <4> QED BY <4>1, <4>2
    <3>2. Fetch(q) # None => Fetch(q) > 0
      BY <1>0, <2>2, NoneAssumption DEF Fetch, MarksInv
    <3> QED BY <1>0, <2>2, <3>1, <3>2 DEF SliceOfSlices, Select
  <2> QED BY <1>0, <2>1, <2>2
<1>7. DerivedOrder'
  <2>1. ASSUME role # "top", ~Sliced(q) PROVE OrderOf(q, role) = "none"
    BY <2>1 DEF OrderOf, OwnOrdering, Suppressed, Roles
  <2>2. Sliced(q) => statement'.offset # None
    BY <1>0, NoneAssumption DEF Select
  <2>3. statement'.role = role /\ statement'.orderBy = OrderOf(q, role)
    BY <1>0 DEF Select
  <2> QED BY <2>1, <2>2, <2>3 DEF DerivedOrder
<1>8. OrderKept'
  BY <1>0, NoneAssumption DEF OrderKept, Select, OrderOf, OwnOrdering, Suppressed, MarksInv
<1> QED BY <1>4, <1>5, <1>6, <1>7, <1>8 DEF IInv

(* Every step keeps the inductive invariant.                                   *)
LEMMA NextInv == IInv /\ [Next]_vars => IInv'
<1> SUFFICES ASSUME IInv, [Next]_vars PROVE IInv'
  OBVIOUS
<1>1. ASSUME NEW q \in Queries, NEW start \in Bounds, NEW stop \in Bounds \cup {None},
             SetLimits(q, start, stop)
      PROVE  IInv'
  BY <1>1, SetLimitsInv
<1>2. ASSUME NEW q \in Queries, NEW role \in Roles, Compile(q, role) PROVE IInv'
  BY <1>2, CompileInv
<1>3. ASSUME NEW q \in Queries, OrderBy(q) \/ \E r \in Queries : FilterIn(q, r) PROVE IInv'
  <2>1. TypeOK'
    BY <1>3 DEF IInv, TypeOK, OrderBy, FilterIn
  <2>2. UNCHANGED <<low_mark, high_mark, empty, not_allowed, rows, statement>>
    BY <1>3 DEF OrderBy, FilterIn
  <2> QED BY <2>1, <2>2 DEF IInv, MarksInv, SliceOfSlices, DerivedOrder, OrderKept
<1>4. CASE UNCHANGED vars
  BY <1>4 DEF vars, IInv, TypeOK, MarksInv, SliceOfSlices, DerivedOrder, OrderKept
<1> QED BY <1>1, <1>2, <1>3, <1>4 DEF Next

(* The invariant holds for every number of rows, bounds and queries.           *)
THEOREM Invariance == Spec => []IInv
  BY InitInv, NextInv, PTL DEF Spec

(* OFFSET and FETCH take the rows a list has that was sliced the same way, and *)
(* FETCH never asks for no rows (set_limits, as_sql).                          *)
THEOREM SlicesLikeLists == Spec => []SliceOfSlices
<1>1. IInv => SliceOfSlices
  BY DEF IInv
<1> QED BY <1>1, Invariance, PTL

(* No derived table has an ORDER BY without OFFSET (get_ordering while         *)
(* _mssql_ordering_not_allowed is set).                                        *)
THEOREM DerivedTablesAreLegal == Spec => []DerivedOrder
<1>1. IInv => DerivedOrder
  BY DEF IInv
<1> QED BY <1>1, Invariance, PTL

(* No executed query loses its ordering to the attribute that keeps it out of  *)
(* derived tables (the finally clause of as_sql).                              *)
THEOREM OrderingIsKept == Spec => []OrderKept
<1>1. IInv => OrderKept
  BY DEF IInv
<1> QED BY <1>1, Invariance, PTL
==============================================================================
