-------------------------- MODULE DbapiCursorProofs --------------------------
(***************************************************************************)
(* Theorems about DbapiCursor, for any number of cursors of the connection *)
(* and any batches.  They rest on the inductive invariant IInv.            *)
(***************************************************************************)
EXTENDS DbapiCursor, WellFoundedInduction, TLAPS

(* Lemmas about the loop of executemany.  What it computes is shown by     *)
(* looking at the first statement at which it would be wrong.              *)

LEMMA LeastElement == ASSUME NEW T \in SUBSET Nat, T # {}
                      PROVE  \E x \in T : \A y \in T : x <= y
  <1> DEFINE R == OpToRel(<, Nat)
  <1>1. IsWellFoundedOn(R, Nat)
    BY NatLessThanWellFounded
  <1>2. \A x, y \in Nat : <<y, x>> \in R <=> y < x
    BY DEF OpToRel
  <1> HIDE DEF R
  <1>3. PICK x \in T : \A y \in T : ~(<<y, x>> \in R)
    BY <1>1, WFMin
  <1>4. ASSUME NEW y \in T PROVE x <= y
    <2>1. x \in Nat /\ y \in Nat /\ ~(y < x)
      BY <1>2, <1>3
    <2> QED
      BY <2>1
  <1> QED
    BY <1>4

LEMMA BatchType == ASSUME NEW b \in Batches
                   PROVE  /\ b \in Seq(Nat \cup Rowless)
                          /\ 1 \in DOMAIN b
                          /\ \A i \in DOMAIN b : b[i] \in Nat \cup Rowless
  <1>1. b \in Seq(Nat \cup Rowless) /\ b # <<>>
    BY BatchesAssumption
  <1> QED
    BY <1>1

\* The running total is -1 from the first result set on, and before it what the
\* statements so far have affected.
LEMMA RunningTotal ==
  ASSUME NEW n \in Nat, NEW batches \in [1..n -> Batches],
         NEW total,
         total = [i \in 0..n |->
                    IF i = 0 THEN 0
                    ELSE IF RowcountOf(batches[i]) = -1 \/ total[i - 1] = -1 THEN -1
                    ELSE total[i - 1] + RowcountOf(batches[i])]
  PROVE  \A i \in 0..n : total[i] = IF \E j \in 1..i : batches[j][1] # NoRows THEN -1
                                    ELSE Affected * i
  <1> DEFINE Expected(i) == IF \E j \in 1..i : batches[j][1] # NoRows THEN -1 ELSE Affected * i
             Wrong == {i \in 0..n : total[i] # Expected(i)}
  <1> SUFFICES ASSUME Wrong # {} PROVE FALSE
    OBVIOUS
  <1>1. PICK i \in Wrong : \A m \in Wrong : i <= m
    <2>1. Wrong \in SUBSET Nat
      OBVIOUS
    <2> HIDE DEF Wrong
    <2> QED
      BY <2>1, LeastElement
  <1>2. i # 0
    BY <1>1 DEF Affected
  <1>3. i \in 1..n /\ total[i - 1] = Expected(i - 1)
    <2>1. i \in 1..n /\ i - 1 \in 0..n /\ i - 1 \notin Wrong
      BY <1>1, <1>2
    <2> QED
      BY <2>1
  <1>4. total[i] = IF RowcountOf(batches[i]) = -1 \/ total[i - 1] = -1 THEN -1
                   ELSE total[i - 1] + RowcountOf(batches[i])
    BY <1>3
  <1>5. RowcountOf(batches[i]) = IF batches[i][1] # NoRows THEN -1 ELSE Affected
    BY DEF RowcountOf
  <1>6. (\E j \in 1..i : batches[j][1] # NoRows)
          <=> (\E j \in 1..(i - 1) : batches[j][1] # NoRows) \/ batches[i][1] # NoRows
    <2>1. 1..i = 1..(i - 1) \cup {i}
      BY <1>3
    <2> QED
      BY <2>1
  <1>7. total[i] = Expected(i)
    <2>1. CASE \E j \in 1..i : batches[j][1] # NoRows
      BY <1>3, <1>4, <1>5, <1>6, <2>1
    <2>2. CASE ~ \E j \in 1..i : batches[j][1] # NoRows
      BY <1>3, <1>4, <1>5, <1>6, <2>2 DEF Affected
    <2> QED
      BY <2>1, <2>2
  <1> QED
    BY <1>1, <1>7

\* What executemany() stores: -1 when a statement gave a result set, or else the
\* rows that all of them have affected.
LEMMA TotalIsSum ==
  ASSUME NEW n \in Nat, NEW batches \in [1..n -> Batches]
  PROVE  TotalRowcount(batches) =
           IF \E i \in DOMAIN batches : batches[i][1] # NoRows THEN -1
           ELSE Affected * Len(batches)
  <1> DEFINE Step(t, i) == IF i = 0 THEN 0
                           ELSE IF RowcountOf(batches[i]) = -1 \/ t[i - 1] = -1 THEN -1
                           ELSE t[i - 1] + RowcountOf(batches[i])
             Sum == [i \in 0..n |-> IF \E j \in 1..i : batches[j][1] # NoRows THEN -1
                                    ELSE Affected * i]
             total == CHOOSE t : t = [i \in 0..n |-> Step(t, i)]
  <1>1. Len(batches) = n /\ DOMAIN batches = 1..n
    OBVIOUS
  <1>2. Sum = [i \in 0..n |-> Step(Sum, i)]
    <2> SUFFICES ASSUME NEW i \in 0..n PROVE Sum[i] = Step(Sum, i)
      OBVIOUS
    <2>1. CASE i = 0
      BY <2>1 DEF Affected
    <2>2. CASE i # 0
      <3>1. i - 1 \in 0..n /\ 1..i = 1..(i - 1) \cup {i}
        BY <2>2
      <3>2. RowcountOf(batches[i]) = IF batches[i][1] # NoRows THEN -1 ELSE Affected
        BY DEF RowcountOf
      <3> QED
        BY <2>2, <3>1, <3>2 DEF Affected
    <2> QED
      BY <2>1, <2>2
  <1>3. total = [i \in 0..n |-> Step(total, i)]
    <2> HIDE DEF Step, Sum
    <2> QED
      BY <1>2
  <1>4. total[n] = IF \E j \in 1..n : batches[j][1] # NoRows THEN -1 ELSE Affected * n
    <2> HIDE DEF total
    <2>1. total = [i \in 0..n |->
                    IF i = 0 THEN 0
                    ELSE IF RowcountOf(batches[i]) = -1 \/ total[i - 1] = -1 THEN -1
                    ELSE total[i - 1] + RowcountOf(batches[i])]
      BY <1>3
    <2> HIDE <1>3
    <2>2. \A i \in 0..n : total[i] = IF \E j \in 1..i : batches[j][1] # NoRows THEN -1
                                    ELSE Affected * i
      BY <2>1, RunningTotal
    <2> QED
      BY <2>2
  <1>5. TotalRowcount(batches) = total[n]
    BY <1>1 DEF TotalRowcount
  <1> QED
    BY <1>1, <1>4, <1>5

------------------------------------------------------------------------------
(* The inductive invariant. *)

LEMMA InitInv == Init => IInv
  <1> SUFFICES ASSUME Init PROVE IInv
    OBVIOUS
  <1>1. TypeOK
    <2>1. [call |-> "new", kind |-> "ok"] \in Outcomes
      BY DEF Outcomes, Calls, Kinds
    <2> QED
      BY <2>1, BoundsAssumption DEF Init, TypeOK
  <1>2. RecordsetDescribed /\ RecordsetFresh /\ ClosedRecordsets /\ ReturnValueMatchesRows
    BY DEF Init, RecordsetDescribed, RecordsetFresh, ClosedRecordsets, ReturnValueMatchesRows
  <1>3. RowsMatchDescription /\ FreshRows /\ ManyRowcount
    BY DEF Init, RowsMatchDescription, FreshRows, ManyRowcount
  <1> QED
    BY <1>1, <1>2, <1>3 DEF IInv

\* An outcome without rows is none of those that carry some.
LEMMA PlainOutcome ==
  ASSUME NEW call \in Calls, NEW kind \in Kinds, call # "executemany" \/ kind # "ok"
  PROVE  [call |-> call, kind |-> kind] \in Outcomes
  BY DEF Outcomes

\* What a new result leaves in cursor c: nothing, or an open recordset of the
\* statement exec, with its description.
Taken(c, exec) ==
    /\ rs' \in [Cursors -> {None} \cup Recordset]
    /\ description' \in [Cursors -> {None} \cup Description]
    /\ \A d \in Cursors : d # c => rs'[d] = rs[d] /\ description'[d] = description[d]
    /\ rs'[c] # None => /\ rs'[c].exec = exec
                       /\ rs'[c].open = TRUE
                       /\ description'[c] = [exec |-> exec, set |-> rs'[c].set]
    /\ \A d \in Cursors :
          rs'[d] # None => /\ rs'[d].set \in DOMAIN rs'[d].batch
                          /\ rs'[d].pos \in 0..rs'[d].batch[rs'[d].set]

LEMMA DescribeType ==
  ASSUME TypeOK, NEW c \in Cursors, NEW exec \in Nat, NEW batch \in Batches,
         NEW set \in DOMAIN batch, Describe(c, exec, batch, set)
  PROVE  Taken(c, exec)
  <1>1. batch[set] \in Nat \cup Rowless /\ set \in Nat
    <2>1. batch \in Seq(Nat \cup Rowless)
      BY BatchType
    <2> QED
      BY <2>1, BatchType
  <1>2. CASE batch[set] \in Rowless
    BY <1>2 DEF Describe, TypeOK, Taken
  <1>3. CASE batch[set] \notin Rowless
    <2> DEFINE r == [exec |-> exec, batch |-> batch, set |-> set, pos |-> 0, open |-> TRUE]
               d == [exec |-> exec, set |-> set]
    <2>1. r \in Recordset /\ d \in Description
      BY <1>1 DEF Recordset, Description
    <2>2. rs' = [rs EXCEPT ![c] = r] /\ description' = [description EXCEPT ![c] = d]
      BY <1>3 DEF Describe
    <2>3. rs'[c] = r /\ description'[c] = d
      BY <2>2 DEF TypeOK
    <2>4. /\ rs' \in [Cursors -> {None} \cup Recordset]
          /\ description' \in [Cursors -> {None} \cup Description]
          /\ \A x \in Cursors : x # c => rs'[x] = rs[x] /\ description'[x] = description[x]
      <3> HIDE DEF r, d
      <3> QED
        BY <2>1, <2>2 DEF TypeOK
    <2>5. r.set \in DOMAIN r.batch /\ r.pos \in 0..r.batch[r.set]
      BY <1>1, <1>3
    <2>6. ASSUME NEW x \in Cursors, rs'[x] # None
          PROVE  rs'[x].set \in DOMAIN rs'[x].batch /\ rs'[x].pos \in 0..rs'[x].batch[rs'[x].set]
      BY <2>3, <2>4, <2>5, <2>6 DEF TypeOK
    <2> QED
      BY <2>3, <2>4, <2>6 DEF Taken
  <1> QED
    BY <1>2, <1>3

\* What IInv says of one cursor, but for the types.
CursorInv(c) ==
    /\ rs[c] # None => description[c] = [exec |-> rs[c].exec, set |-> rs[c].set]
    /\ rs[c] # None /\ last[c].ok => rs[c].exec = last[c].exec
    /\ ~conOpen /\ rs[c] # None => ~rs[c].open
    /\ got[c].kind = "rows" => got[c].columns = [exec |-> got[c].exec, set |-> got[c].set]
    /\ got[c].kind = "rows" /\ last[c].ok => got[c].exec = last[c].exec
    /\ rs[c] # None /\ return_value[c] # None => return_value[c] = rs[c].exec
    /\ got[c].call = "executemany" /\ got[c].kind = "ok" =>
          LET bs == got[c].batches
          IN rowcount[c] = IF \E i \in DOMAIN bs : bs[i][1] # NoRows THEN -1
                           ELSE Affected * Len(bs)

Others(c) ==
    \A d \in Cursors : d # c =>
        /\ rs'[d] = rs[d] /\ description'[d] = description[d]
        /\ rowcount'[d] = rowcount[d] /\ return_value'[d] = return_value[d]
        /\ last'[d] = last[d] /\ got'[d] = got[d]

LEMMA InvByCursor == IInv <=> TypeOK /\ \A c \in Cursors : CursorInv(c)
  BY DEF IInv, CursorInv, RecordsetDescribed, RecordsetFresh, ClosedRecordsets,
         RowsMatchDescription, FreshRows, ReturnValueMatchesRows, ManyRowcount

\* A call on one cursor leaves the others alone.
LEMMA OneCursor ==
  ASSUME IInv, NEW c \in Cursors, Others(c), conOpen' = conOpen, TypeOK', CursorInv(c)'
  PROVE  IInv'
  <1>1. ASSUME NEW d \in Cursors PROVE CursorInv(d)'
    <2>1. CASE d = c
      BY <2>1
    <2>2. CASE d # c
      <3>1. CursorInv(d)
        BY InvByCursor
      <3>2. /\ rs'[d] = rs[d] /\ description'[d] = description[d]
            /\ rowcount'[d] = rowcount[d] /\ return_value'[d] = return_value[d]
            /\ last'[d] = last[d] /\ got'[d] = got[d]
        BY <2>2 DEF Others
      <3> QED
        BY <3>1, <3>2 DEF CursorInv
    <2> QED
      BY <2>1, <2>2
  <1>2. TypeOK' /\ \A d \in Cursors : CursorInv(d)'
    BY <1>1
  <1> QED
    BY <1>2 DEF IInv, CursorInv, RecordsetDescribed, RecordsetFresh, ClosedRecordsets,
                RowsMatchDescription, FreshRows, ReturnValueMatchesRows, ManyRowcount

------------------------------------------------------------------------------
(* One lemma per kind of call. *)

\* The calls that run one statement and take its first result.
LEMMA ExecuteInv ==
  ASSUME IInv, NEW c \in Cursors, NEW call \in {"execute", "callproc"},
         NEW b \in Batches, Execute(c, call, b)
  PROVE  IInv'
  <1>1. TypeOK
    BY DEF IInv
  <1>2. PICK e \in Nat : e = execs' /\ e \in 0..MaxExecs
    BY <1>1, BoundsAssumption DEF Execute, TypeOK
  <1>3. Taken(c, e)
    <2>1. Describe(c, e, b, 1) /\ 1 \in DOMAIN b
      BY <1>2, BatchType DEF Execute
    <2> QED
      BY <1>1, <2>1, DescribeType
  <1>4. /\ conOpen' = conOpen /\ conOpen /\ attached' = attached
        /\ rowcount' = [rowcount EXCEPT ![c] = RowcountOf(b)]
        /\ return_value' = [return_value EXCEPT ![c] = IF call = "callproc" THEN e ELSE None]
        /\ last' = [last EXCEPT ![c] = [exec |-> e, ok |-> TRUE]]
        /\ got' = [got EXCEPT ![c] = [call |-> call, kind |-> "ok"]]
    BY <1>2 DEF Execute, Outcome, ReturnValueOf
  <1>5. TypeOK'
    <2>1. [call |-> call, kind |-> "ok"] \in Outcomes /\ RowcountOf(b) \in Int
      BY DEF Outcomes, Calls, Kinds, RowcountOf, Affected
    <2>2. rowcount' \in [Cursors -> Int] /\ return_value' \in [Cursors -> {None} \cup Nat]
      BY <1>1, <1>4, <2>1 DEF TypeOK
    <2>3. last' \in [Cursors -> [exec : Nat, ok : BOOLEAN]] /\ got' \in [Cursors -> Outcomes]
      BY <1>1, <1>4, <2>1 DEF TypeOK
    <2> QED
      BY <1>1, <1>2, <1>3, <1>4, <2>2, <2>3 DEF TypeOK, Taken
  <1>6. Others(c)
    BY <1>1, <1>3, <1>4 DEF Others, TypeOK, Taken
  <1>7. CursorInv(c)'
    <2>1. got'[c] = [call |-> call, kind |-> "ok"] /\ last'[c] = [exec |-> e, ok |-> TRUE]
      BY <1>1, <1>4 DEF TypeOK
    <2>2. return_value'[c] = IF call = "callproc" THEN e ELSE None
      BY <1>1, <1>4 DEF TypeOK
    <2> QED
      BY <1>3, <1>4, <2>1, <2>2 DEF CursorInv, Taken
  <1> QED
    BY <1>4, <1>5, <1>6, <1>7, OneCursor

\* The calls that leave the recordset alone and deliver nothing.
LEMMA PlainInv ==
  ASSUME IInv, NEW c \in Cursors, NEW call \in Calls, NEW kind \in Kinds,
         call # "executemany" \/ kind # "ok",
         Outcome(c, call, kind),
         UNCHANGED <<conOpen, rs, description, rowcount>>,
         execs' \in 0..MaxExecs,
         attached' \in [Cursors -> BOOLEAN],
         return_value' \in {return_value, [return_value EXCEPT ![c] = None]},
         NEW l \in [exec : Nat, ok : BOOLEAN],
         last' = [last EXCEPT ![c] = l], l = last[c] \/ ~l.ok
  PROVE  IInv'
  <1>1. TypeOK
    BY DEF IInv
  <1>2. [call |-> call, kind |-> kind] \in Outcomes
    BY PlainOutcome
  <1>3. TypeOK'
    <2>1. got' \in [Cursors -> Outcomes]
      BY <1>1, <1>2 DEF Outcome, TypeOK
    <2>2. /\ last' \in [Cursors -> [exec : Nat, ok : BOOLEAN]]
          /\ return_value' \in [Cursors -> {None} \cup Nat]
      BY <1>1 DEF TypeOK
    <2> QED
      BY <1>1, <2>1, <2>2 DEF TypeOK
  <1>4. Others(c)
    BY <1>1 DEF Others, Outcome, TypeOK
  <1>5. CursorInv(c)'
    <2>1. got'[c] = [call |-> call, kind |-> kind] /\ last'[c] = l
      BY <1>1 DEF Outcome, TypeOK
    <2>2. return_value'[c] \in {return_value[c], None}
      BY <1>1 DEF TypeOK
    <2>3. CursorInv(c)
      BY InvByCursor
    <2>4. kind # "rows"
      BY DEF Kinds
    <2> QED
      BY <2>1, <2>2, <2>3, <2>4 DEF CursorInv
  <1> QED
    BY <1>3, <1>4, <1>5, OneCursor

LEMMA ExecuteFailsInv ==
  ASSUME IInv, NEW c \in Cursors, NEW call \in {"execute", "callproc"},
         ExecuteFails(c, call) \/ ExecuteNotSent(c, call)
  PROVE  IInv'
  <1>1. TypeOK /\ call \in Calls /\ call # "executemany"
    BY DEF IInv, Calls
  <1>2. PICK e \in Nat : e = execs' /\ e \in 0..MaxExecs
    BY <1>1, BoundsAssumption DEF ExecuteFails, ExecuteNotSent, TypeOK
  <1>3. CASE ExecuteFails(c, call)
    <2> DEFINE l == [exec |-> e, ok |-> FALSE]
    <2>1. l \in [exec : Nat, ok : BOOLEAN] /\ ~l.ok /\ last' = [last EXCEPT ![c] = l]
      BY <1>2, <1>3 DEF ExecuteFails
    <2>2. /\ Outcome(c, call, "DatabaseError") /\ "DatabaseError" \in Kinds
          /\ UNCHANGED <<conOpen, rs, description, rowcount>>
          /\ attached' \in [Cursors -> BOOLEAN]
          /\ return_value' = [return_value EXCEPT ![c] = None]
      BY <1>1, <1>3 DEF ExecuteFails, Kinds, TypeOK
    <2> HIDE DEF l
    <2> QED
      BY <1>1, <1>2, <2>1, <2>2, PlainInv
  <1>4. CASE ExecuteNotSent(c, call)
    <2> DEFINE l == [last[c] EXCEPT !.ok = FALSE]
    <2>1. l \in [exec : Nat, ok : BOOLEAN] /\ ~l.ok
      BY <1>1 DEF TypeOK
    <2>2. last' = [last EXCEPT ![c] = l]
      BY <1>1, <1>4 DEF ExecuteNotSent, TypeOK
    <2>3. PICK kind \in Kinds : Outcome(c, call, kind)
      BY <1>4 DEF ExecuteNotSent, Kinds
    <2>4. /\ UNCHANGED <<conOpen, rs, description, rowcount>>
          /\ attached' \in [Cursors -> BOOLEAN]
          /\ return_value' = return_value
      BY <1>1, <1>4 DEF ExecuteNotSent, TypeOK
    <2> HIDE DEF l
    <2> QED
      BY <1>1, <1>2, <2>1, <2>2, <2>3, <2>4, PlainInv
  <1> QED
    BY <1>3, <1>4

\* Fetches and nextset() that deliver nothing.
LEMMA NothingInv ==
  ASSUME IInv, NEW c \in Cursors, NEW call \in Calls, call # "executemany",
         NEW kind \in Kinds, Outcome(c, call, kind),
         UNCHANGED <<conOpen, execs, attached, rs, description, rowcount, return_value, last>>
  PROVE  IInv'
  <1>1. TypeOK
    BY DEF IInv
  <1>2. last[c] \in [exec : Nat, ok : BOOLEAN] /\ last' = [last EXCEPT ![c] = last[c]]
    BY <1>1 DEF TypeOK
  <1>3. execs' \in 0..MaxExecs /\ attached' \in [Cursors -> BOOLEAN]
    BY <1>1 DEF TypeOK
  <1>4. PICK l \in [exec : Nat, ok : BOOLEAN] : l = last[c]
    BY <1>2
  <1> QED
    BY <1>2, <1>3, <1>4, PlainInv

FetchCalls == {"fetchone", "fetchmany", "fetchall"}

\* Rows are delivered with the description of the recordset they come from.
LEMMA FetchRowsInv ==
  ASSUME IInv, NEW c \in Cursors, NEW call \in FetchCalls, NEW rows \in Nat,
         FetchRows(c, call, rows)
  PROVE  IInv'
  <1>1. TypeOK /\ CursorInv(c) /\ rs[c] # None /\ rs[c] \in Recordset
    BY InvByCursor DEF FetchRows, CanFetch, TypeOK
  <1>2. /\ rs[c].batch \in Batches /\ rs[c].set \in DOMAIN rs[c].batch
        /\ rs[c].pos \in Nat /\ rs[c].exec \in Nat
        /\ rs[c].batch[rs[c].set] \in Nat
        /\ rs[c].pos <= rs[c].batch[rs[c].set]
    <2>1. rs[c].batch \in Batches /\ rs[c].set \in DOMAIN rs[c].batch
      BY <1>1 DEF TypeOK, Recordset
    <2>2. rs[c].batch[rs[c].set] \in Nat \cup Rowless
      BY <2>1, BatchType
    <2>3. rs[c].pos \in 0..rs[c].batch[rs[c].set] /\ rs[c].exec \in Nat
      BY <1>1 DEF TypeOK, Recordset
    <2> QED
      BY <2>1, <2>2, <2>3 DEF NoRows, NoCount, Rowless
  <1> DEFINE n == IF rows = 0 \/ rows > Left(c) THEN Left(c) ELSE rows
             r == [rs[c] EXCEPT !.pos = @ + n]
             g == [call |-> call, kind |-> "rows", exec |-> rs[c].exec, set |-> rs[c].set,
                   first |-> rs[c].pos + 1, count |-> n, columns |-> description[c]]
  <1>3. n \in Nat /\ rs[c].pos + n <= rs[c].batch[rs[c].set]
    BY <1>2 DEF Left
  <1>4. /\ rs' = [rs EXCEPT ![c] = r] /\ got' = [got EXCEPT ![c] = g]
        /\ UNCHANGED <<conOpen, execs, attached, description, rowcount, return_value, last>>
    BY <1>1 DEF FetchRows, TypeOK
  <1>5. /\ r \in Recordset /\ r.exec = rs[c].exec /\ r.set = rs[c].set
        /\ r.open = rs[c].open
        /\ r.set \in DOMAIN r.batch /\ r.pos \in 0..r.batch[r.set]
    <2> HIDE DEF n
    <2> QED
      BY <1>1, <1>2, <1>3 DEF Recordset
  <1>6. g \in Outcomes
    <2>1. rs[c].set \in Nat /\ description[c] \in {None} \cup Description
      BY <1>1 DEF TypeOK, Recordset
    <2> HIDE DEF n
    <2> QED
      BY <1>2, <1>3, <2>1 DEF Outcomes, FetchCalls, Calls
  <1>7. /\ g.call # "executemany" /\ g.kind = "rows" /\ g.exec = rs[c].exec
        /\ g.set = rs[c].set /\ g.columns = description[c]
    BY DEF FetchCalls
  <1> HIDE DEF n, r, g
  <1>8. TypeOK'
    BY <1>1, <1>4, <1>5, <1>6 DEF TypeOK
  <1>9. Others(c)
    BY <1>1, <1>4 DEF Others, TypeOK
  <1>10. CursorInv(c)'
    <2>1. rs'[c] = r /\ got'[c] = g
      BY <1>1, <1>4 DEF TypeOK
    <2>2. r # None /\ rs[c].open
      BY <1>5, NoneAssumption DEF FetchRows
    <2> QED
      BY <1>1, <1>4, <1>5, <1>7, <2>1, <2>2 DEF CursorInv
  <1> QED
    BY <1>4, <1>8, <1>9, <1>10, OneCursor

LEMMA FetchInv ==
  ASSUME IInv, NEW c \in Cursors, NEW call \in FetchCalls, NEW rows \in Nat,
         Fetch(c, call, rows)
  PROVE  IInv'
  <1>1. CASE FetchRows(c, call, rows)
    BY <1>1, FetchRowsInv
  <1>2. CASE FetchNothing(c, call, rows) \/ FetchFails(c, call)
    <2>1. PICK kind \in Kinds : Outcome(c, call, kind)
      BY <1>2 DEF FetchNothing, FetchFails, Kinds
    <2>2. call \in Calls /\ call # "executemany"
      BY DEF FetchCalls, Calls
    <2>3. UNCHANGED <<conOpen, execs, attached, rs, description, rowcount, return_value, last>>
      BY <1>2 DEF FetchNothing, FetchFails
    <2> QED
      BY <2>1, <2>2, <2>3, NothingInv
  <1> QED
    BY <1>1, <1>2 DEF Fetch

\* nextset(): the next result of the same statement, or none.
LEMMA NextSetInv ==
  ASSUME IInv, NEW c \in Cursors, NextSet(c) PROVE IInv'
  <1>1. TypeOK /\ CursorInv(c) /\ rs[c] # None /\ rs[c] \in Recordset
    BY InvByCursor DEF NextSet, CanFetch, TypeOK
  <1>2. PICK e \in Nat, b \in Batches, i \in Nat :
           e = rs[c].exec /\ b = rs[c].batch /\ i = rs[c].set + 1
    BY <1>1 DEF Recordset
  <1>3. i \in DOMAIN b
    <2>1. b \in Seq(Nat \cup Rowless) /\ rs[c].set \in 1..Len(b)
      BY <1>1, <1>2, BatchType DEF TypeOK
    <2> QED
      BY <1>2, <2>1 DEF NextSet
  <1>4. Taken(c, e)
    <2>1. Describe(c, e, b, i)
      BY <1>2 DEF NextSet
    <2> QED
      BY <1>1, <1>3, <2>1, DescribeType
  <1> DEFINE g == [call |-> "nextset", kind |-> "True"]
  <1>5. /\ g \in Outcomes /\ g.call # "executemany" /\ g.kind # "rows"
        /\ got' = [got EXCEPT ![c] = g]
    BY DEF NextSet, Outcome, Outcomes, Calls, Kinds
  <1>6. /\ rowcount' = [rowcount EXCEPT ![c] = IF b[i] \in Rowless THEN rowcount[c] ELSE -1]
        /\ UNCHANGED <<conOpen, execs, attached, return_value, last>>
    BY <1>1, <1>2 DEF NextSet, TypeOK
  <1> HIDE DEF g
  <1>7. TypeOK'
    <2>1. rowcount' \in [Cursors -> Int] /\ got' \in [Cursors -> Outcomes]
      BY <1>1, <1>5, <1>6 DEF TypeOK
    <2> QED
      BY <1>1, <1>4, <1>6, <2>1 DEF TypeOK, Taken
  <1>8. Others(c)
    BY <1>1, <1>4, <1>5, <1>6 DEF Others, TypeOK, Taken
  <1>9. CursorInv(c)'
    <2>1. got'[c] = g /\ conOpen
      BY <1>1, <1>5 DEF TypeOK, CursorInv, NextSet
    <2> QED
      BY <1>1, <1>2, <1>4, <1>5, <1>6, <2>1 DEF CursorInv, Taken
  <1> QED
    BY <1>6, <1>7, <1>8, <1>9, OneCursor

LEMMA NoNextSetInv ==
  ASSUME IInv, NEW c \in Cursors, NoNextSet(c) PROVE IInv'
  <1>1. TypeOK /\ CursorInv(c) /\ rs[c] # None /\ rs[c] \in Recordset
    BY InvByCursor DEF NoNextSet, CanFetch, TypeOK
  <1> DEFINE r == [rs[c] EXCEPT !.open = FALSE]
             g == [call |-> "nextset", kind |-> "None"]
  <1>2. /\ r \in Recordset /\ r # None /\ r.exec = rs[c].exec /\ r.set = rs[c].set /\ ~r.open
        /\ r.batch = rs[c].batch /\ r.pos = rs[c].pos
    BY <1>1, NoneAssumption DEF Recordset
  <1>3. g \in Outcomes /\ g.call # "executemany" /\ g.kind # "rows"
    BY DEF Outcomes, Calls, Kinds
  <1>4. /\ rs' = [rs EXCEPT ![c] = r] /\ got' = [got EXCEPT ![c] = g]
        /\ UNCHANGED <<conOpen, execs, attached, description, rowcount, return_value, last>>
    BY <1>1 DEF NoNextSet, Outcome, TypeOK
  <1> HIDE DEF r, g
  <1>5. TypeOK'
    <2>1. rs' \in [Cursors -> {None} \cup Recordset] /\ got' \in [Cursors -> Outcomes]
      BY <1>1, <1>2, <1>3, <1>4 DEF TypeOK
    <2>2. ASSUME NEW d \in Cursors, rs'[d] # None
          PROVE  rs'[d].set \in DOMAIN rs'[d].batch /\ rs'[d].pos \in 0..rs'[d].batch[rs'[d].set]
      <3>1. CASE d = c
        BY <1>1, <1>2, <1>4, <3>1 DEF TypeOK
      <3>2. CASE d # c
        BY <1>1, <1>4, <2>2, <3>2 DEF TypeOK
      <3> QED
        BY <3>1, <3>2
    <2> QED
      BY <1>1, <1>4, <2>1, <2>2 DEF TypeOK
  <1>6. Others(c)
    BY <1>1, <1>4 DEF Others, TypeOK
  <1>7. CursorInv(c)'
    <2>1. rs'[c] = r /\ got'[c] = g
      BY <1>1, <1>4 DEF TypeOK
    <2> QED
      BY <1>1, <1>2, <1>3, <1>4, <2>1 DEF CursorInv
  <1> QED
    BY <1>4, <1>5, <1>6, <1>7, OneCursor

LEMMA NextSetFailsInv ==
  ASSUME IInv, NEW c \in Cursors, NextSetFails(c) PROVE IInv'
  <1>1. PICK kind \in Kinds : Outcome(c, "nextset", kind)
    BY DEF NextSetFails, Kinds
  <1>2. PICK call \in Calls : call = "nextset"
    BY DEF Calls
  <1>3. UNCHANGED <<conOpen, execs, attached, rs, description, rowcount, return_value, last>>
    BY DEF NextSetFails
  <1> QED
    BY <1>1, <1>2, <1>3, NothingInv

\* close() lets an open recordset go and leaves the description.
LEMMA CloseInv ==
  ASSUME IInv, NEW c \in Cursors, Close(c) PROVE IInv'
  <1>1. TypeOK /\ CursorInv(c)
    BY InvByCursor
  <1> DEFINE g == [call |-> "close", kind |-> "ok"]
  <1>2. g \in Outcomes /\ g.call # "executemany" /\ g.kind # "rows"
    BY DEF Outcomes, Calls, Kinds
  <1>3. PICK r \in {None, rs[c]} : rs' = [rs EXCEPT ![c] = r]
    BY <1>1 DEF Close, TypeOK
  <1>4. /\ got' = [got EXCEPT ![c] = g] /\ attached' = [attached EXCEPT ![c] = FALSE]
        /\ UNCHANGED <<conOpen, execs, description, rowcount, return_value, last>>
    BY DEF Close, Outcome
  <1> HIDE DEF g
  <1>5. TypeOK'
    <2>1. /\ rs' \in [Cursors -> {None} \cup Recordset] /\ got' \in [Cursors -> Outcomes]
          /\ attached' \in [Cursors -> BOOLEAN]
      BY <1>1, <1>2, <1>3, <1>4 DEF TypeOK
    <2>2. ASSUME NEW d \in Cursors, rs'[d] # None PROVE rs'[d] = rs[d]
      BY <1>1, <1>3, <2>2 DEF TypeOK
    <2> QED
      BY <1>1, <1>4, <2>1, <2>2 DEF TypeOK
  <1>6. Others(c)
    BY <1>1, <1>3, <1>4 DEF Others, TypeOK
  <1>7. CursorInv(c)'
    <2>1. rs'[c] \in {None, rs[c]} /\ got'[c] = g
      BY <1>1, <1>3, <1>4 DEF TypeOK
    <2> QED
      BY <1>1, <1>2, <1>4, <2>1 DEF CursorInv
  <1> QED
    BY <1>4, <1>5, <1>6, <1>7, OneCursor

\* Connection.close: every recordset is closed, and nothing else moves.
LEMMA CloseConnectionInv ==
  ASSUME IInv, CloseConnection PROVE IInv'
  <1>1. TypeOK
    BY DEF IInv
  <1>2. ASSUME NEW c \in Cursors
        PROVE  /\ rs'[c] \in {None} \cup Recordset
               /\ rs'[c] = None <=> rs[c] = None
               /\ rs'[c] # None => /\ ~rs'[c].open /\ rs'[c].exec = rs[c].exec
                                  /\ rs'[c].set = rs[c].set /\ rs'[c].batch = rs[c].batch
                                  /\ rs'[c].pos = rs[c].pos
    <2>1. CASE rs[c] = None
      BY <2>1 DEF CloseConnection
    <2>2. CASE rs[c] # None
      <3> DEFINE r == [rs[c] EXCEPT !.open = FALSE]
      <3>1. rs[c] \in Recordset /\ rs'[c] = r
        BY <1>1, <2>2 DEF CloseConnection, TypeOK
      <3>2. r \in Recordset /\ r # None
        BY <3>1, NoneAssumption DEF Recordset
      <3>3. /\ ~r.open /\ r.exec = rs[c].exec /\ r.set = rs[c].set
            /\ r.batch = rs[c].batch /\ r.pos = rs[c].pos
        BY <3>1 DEF Recordset
      <3> QED
        BY <2>2, <3>1, <3>2, <3>3
    <2> QED
      BY <2>1, <2>2
  <1>3. /\ conOpen' = FALSE
        /\ UNCHANGED <<execs, attached, description, rowcount, return_value, last, got>>
    BY DEF CloseConnection
  <1>4. TypeOK'
    <2>1. rs' \in [Cursors -> {None} \cup Recordset]
      BY <1>2 DEF CloseConnection
    <2> QED
      BY <1>1, <1>2, <1>3, <2>1 DEF TypeOK
  <1>5. ASSUME NEW c \in Cursors PROVE CursorInv(c)'
    <2>1. CursorInv(c)
      BY InvByCursor
    <2> QED
      BY <1>2, <1>3, <2>1 DEF CursorInv
  <1> QED
    BY <1>4, <1>5 DEF IInv, CursorInv, RecordsetDescribed, RecordsetFresh, ClosedRecordsets,
                      RowsMatchDescription, FreshRows, ReturnValueMatchesRows, ManyRowcount

\* A raw stored procedure: callproc, and all the rows of its first result.
LEMMA RawCallprocInv ==
  ASSUME IInv, NEW c \in Cursors, NEW b \in Batches, RawCallproc(c, b) PROVE IInv'
  <1>1. TypeOK
    BY DEF IInv
  <1>2. PICK e \in Nat : e = execs' /\ e \in 0..MaxExecs
    BY <1>1, BoundsAssumption DEF RawCallproc, TypeOK
  <1>3. b[1] \in Nat \cup Rowless /\ 1 \in DOMAIN b
    BY BatchType
  <1>4. Taken(c, e)
    <2>1. CASE b[1] \in Rowless
      <3>1. Describe(c, e, b, 1)
        BY <1>2, <2>1 DEF RawCallproc
      <3> QED
        BY <1>1, <1>3, <3>1, DescribeType
    <2>2. CASE b[1] \notin Rowless
      <3> DEFINE r == [exec |-> e, batch |-> b, set |-> 1, pos |-> b[1], open |-> TRUE]
                 d == [exec |-> e, set |-> 1]
      <3>1. /\ r \in Recordset /\ d \in Description
            /\ r.set \in DOMAIN r.batch /\ r.pos \in 0..r.batch[r.set]
        BY <1>3, <2>2 DEF Recordset, Description
      <3>2. r.exec = e /\ r.open = TRUE /\ d = [exec |-> e, set |-> r.set]
        OBVIOUS
      <3>3. rs' = [rs EXCEPT ![c] = r] /\ description' = [description EXCEPT ![c] = d]
        BY <1>2, <2>2 DEF RawCallproc
      <3> HIDE DEF r, d
      <3>4. rs'[c] = r /\ description'[c] = d
        BY <1>1, <3>3 DEF TypeOK
      <3>5. /\ rs' \in [Cursors -> {None} \cup Recordset]
            /\ description' \in [Cursors -> {None} \cup Description]
            /\ \A x \in Cursors : x # c => rs'[x] = rs[x] /\ description'[x] = description[x]
        BY <1>1, <3>1, <3>3 DEF TypeOK
      <3>6. ASSUME NEW x \in Cursors, rs'[x] # None
            PROVE  rs'[x].set \in DOMAIN rs'[x].batch /\ rs'[x].pos \in 0..rs'[x].batch[rs'[x].set]
        BY <1>1, <3>1, <3>4, <3>5, <3>6 DEF TypeOK
      <3> QED
        BY <3>2, <3>4, <3>5, <3>6 DEF Taken
    <2> QED
      BY <2>1, <2>2
  <1> DEFINE g == [call |-> "raw_callproc", kind |-> "instances", batch |-> b,
                   count |-> IF b[1] \in Rowless THEN 0 ELSE b[1]]
  <1>5. g \in Outcomes /\ g.call # "executemany" /\ g.kind # "rows"
    BY <1>3 DEF Outcomes
  <1>6. /\ conOpen' = conOpen /\ conOpen /\ attached' = attached
        /\ rowcount' = [rowcount EXCEPT ![c] = RowcountOf(b)]
        /\ return_value' = [return_value EXCEPT ![c] = e]
        /\ last' = [last EXCEPT ![c] = [exec |-> e, ok |-> TRUE]]
        /\ got' = [got EXCEPT ![c] = g]
    BY <1>2 DEF RawCallproc
  <1> HIDE DEF g
  <1>7. TypeOK'
    <2>1. RowcountOf(b) \in Int
      BY DEF RowcountOf, Affected
    <2>2. rowcount' \in [Cursors -> Int] /\ return_value' \in [Cursors -> {None} \cup Nat]
      BY <1>1, <1>6, <2>1 DEF TypeOK
    <2>3. last' \in [Cursors -> [exec : Nat, ok : BOOLEAN]] /\ got' \in [Cursors -> Outcomes]
      BY <1>1, <1>5, <1>6 DEF TypeOK
    <2> QED
      BY <1>1, <1>2, <1>4, <1>6, <2>2, <2>3 DEF TypeOK, Taken
  <1>8. Others(c)
    BY <1>1, <1>4, <1>6 DEF Others, TypeOK, Taken
  <1>9. CursorInv(c)'
    <2>1. got'[c] = g /\ last'[c] = [exec |-> e, ok |-> TRUE] /\ return_value'[c] = e
      BY <1>1, <1>6 DEF TypeOK
    <2> QED
      BY <1>4, <1>5, <1>6, <2>1 DEF CursorInv, Taken
  <1> QED
    BY <1>6, <1>7, <1>8, <1>9, OneCursor

\* executemany(): the statements run one after the other, the last one's result
\* stays, and the rowcounts are added up.
LEMMA ExecuteManyInv ==
  ASSUME IInv, NEW c \in Cursors, NEW n \in ManyLengths, NEW bs \in [1..n -> Batches],
         ExecuteMany(c, n, bs)
  PROVE  IInv'
  <1>1. TypeOK /\ CursorInv(c) /\ n \in Nat
    BY InvByCursor, BoundsAssumption
  <1>2. PICK e \in Nat : e = execs' /\ e \in 0..MaxExecs
    BY <1>1, BoundsAssumption DEF ExecuteMany, TypeOK
  <1> DEFINE g == [call |-> "executemany", kind |-> "ok", batches |-> bs]
             Sum == IF \E i \in DOMAIN bs : bs[i][1] # NoRows THEN -1 ELSE Affected * Len(bs)
  <1>3. /\ g \in Outcomes /\ g.call = "executemany" /\ g.kind = "ok" /\ g.batches = bs
    BY DEF Outcomes
  <1>4. TotalRowcount(bs) = Sum /\ Sum \in Int
    BY <1>1, TotalIsSum DEF Affected
  <1>5. /\ conOpen' = conOpen /\ conOpen /\ attached' = attached
        /\ rowcount' = [rowcount EXCEPT ![c] = Sum]
        /\ got' = [got EXCEPT ![c] = g]
    BY <1>4 DEF ExecuteMany
  <1> HIDE DEF g, Sum
  <1>6. CASE n = 0
    <2>1. UNCHANGED <<rs, description, return_value, last>>
      BY <1>6 DEF ExecuteMany
    <2>2. TypeOK'
      <3>1. rowcount' \in [Cursors -> Int] /\ got' \in [Cursors -> Outcomes]
        BY <1>1, <1>3, <1>4, <1>5 DEF TypeOK
      <3> QED
        BY <1>1, <1>2, <1>5, <2>1, <3>1 DEF TypeOK
    <2>3. Others(c)
      BY <1>1, <1>5, <2>1 DEF Others, TypeOK
    <2>4. CursorInv(c)'
      <3>1. got'[c] = g /\ rowcount'[c] = Sum
        BY <1>1, <1>5 DEF TypeOK
      <3> QED
        BY <1>1, <1>3, <1>5, <2>1, <3>1 DEF CursorInv, Sum
    <2> QED
      BY <1>5, <2>2, <2>3, <2>4, OneCursor
  <1>7. CASE n # 0
    <2>1. /\ return_value' = [return_value EXCEPT ![c] = None]
          /\ last' = [last EXCEPT ![c] = [exec |-> e, ok |-> TRUE]]
      BY <1>2, <1>7 DEF ExecuteMany
    <2>2. Taken(c, e)
      <3>1. n \in 1..n
        BY <1>1, <1>7
      <3>2. PICK b \in Batches : b = bs[n]
        BY <3>1
      <3>3. Describe(c, e, b, 1) /\ 1 \in DOMAIN b
        BY <1>2, <1>7, <3>2, BatchType DEF ExecuteMany
      <3> QED
        BY <1>1, <3>3, DescribeType
    <2>3. TypeOK'
      <3>1. rowcount' \in [Cursors -> Int] /\ got' \in [Cursors -> Outcomes]
        BY <1>1, <1>3, <1>4, <1>5 DEF TypeOK
      <3>2. /\ return_value' \in [Cursors -> {None} \cup Nat]
            /\ last' \in [Cursors -> [exec : Nat, ok : BOOLEAN]]
        BY <1>1, <2>1 DEF TypeOK
      <3> QED
        BY <1>1, <1>2, <1>5, <2>2, <3>1, <3>2 DEF TypeOK, Taken
    <2>4. Others(c)
      BY <1>1, <1>5, <2>1, <2>2 DEF Others, TypeOK, Taken
    <2>5. CursorInv(c)'
      <3>1. got'[c] = g /\ rowcount'[c] = Sum
        BY <1>1, <1>5 DEF TypeOK
      <3>2. last'[c] = [exec |-> e, ok |-> TRUE] /\ return_value'[c] = None
        BY <1>1, <2>1 DEF TypeOK
      <3>3. rowcount'[c] = IF \E i \in DOMAIN got'[c].batches : got'[c].batches[i][1] # NoRows
                           THEN -1 ELSE Affected * Len(got'[c].batches)
        BY <1>3, <3>1 DEF Sum
      <3>4. got'[c].kind # "rows"
        BY <1>3, <3>1
      <3> QED
        BY <1>5, <2>2, <3>2, <3>3, <3>4 DEF CursorInv, Taken
    <2> QED
      BY <1>5, <2>3, <2>4, <2>5, OneCursor
  <1> QED
    BY <1>6, <1>7

LEMMA ExecuteManyFailsInv ==
  ASSUME IInv, NEW c \in Cursors, NEW n \in ManyLengths, NEW bs \in [1..n -> Batches],
         ExecuteManyFails(c, n, bs)
  PROVE  IInv'
  <1>1. TypeOK /\ n \in Nat
    BY BoundsAssumption DEF IInv
  <1>2. PICK e \in Nat, f \in Nat : f = execs' /\ f \in 0..MaxExecs /\ e = execs + n
    BY <1>1, BoundsAssumption DEF ExecuteManyFails, TypeOK
  <1>3. PICK b \in Batches : b = bs[n]
    <2>1. n \in 1..n
      BY <1>1 DEF ExecuteManyFails
    <2> QED
      BY <2>1
  <1>4. Taken(c, e)
    <2>1. Describe(c, e, b, 1) /\ 1 \in DOMAIN b
      BY <1>2, <1>3, BatchType DEF ExecuteManyFails
    <2> QED
      BY <1>1, <2>1, DescribeType
  <1> DEFINE g == [call |-> "executemany", kind |-> "DatabaseError"]
  <1>5. g \in Outcomes /\ g.kind = "DatabaseError"
    BY DEF Outcomes, Calls, Kinds
  <1>6. /\ conOpen' = conOpen /\ conOpen /\ attached' = attached
        /\ rowcount' = [rowcount EXCEPT ![c] = RowcountOf(b)]
        /\ return_value' = [return_value EXCEPT ![c] = None]
        /\ last' = [last EXCEPT ![c] = [exec |-> f, ok |-> FALSE]]
        /\ got' = [got EXCEPT ![c] = g]
    BY <1>2, <1>3 DEF ExecuteManyFails, Outcome
  <1> HIDE DEF g
  <1>7. TypeOK'
    <2>1. RowcountOf(b) \in Int
      BY DEF RowcountOf, Affected
    <2>2. rowcount' \in [Cursors -> Int] /\ return_value' \in [Cursors -> {None} \cup Nat]
      BY <1>1, <1>6, <2>1 DEF TypeOK
    <2>3. last' \in [Cursors -> [exec : Nat, ok : BOOLEAN]] /\ got' \in [Cursors -> Outcomes]
      BY <1>1, <1>5, <1>6 DEF TypeOK
    <2> QED
      BY <1>1, <1>2, <1>4, <1>6, <2>2, <2>3 DEF TypeOK, Taken
  <1>8. Others(c)
    BY <1>1, <1>4, <1>6 DEF Others, TypeOK, Taken
  <1>9. CursorInv(c)'
    <2>1. got'[c] = g /\ last'[c] = [exec |-> f, ok |-> FALSE] /\ return_value'[c] = None
      BY <1>1, <1>6 DEF TypeOK
    <2> QED
      BY <1>4, <1>5, <1>6, <2>1 DEF CursorInv, Taken
  <1> QED
    BY <1>6, <1>7, <1>8, <1>9, OneCursor

LEMMA NextInv == IInv /\ [Next]_vars => IInv'
  <1> SUFFICES ASSUME IInv, [Next]_vars PROVE IInv'
    OBVIOUS
  <1>1. ASSUME NEW c \in Cursors, NEW call \in {"execute", "callproc"},
               \/ \E b \in Batches : Execute(c, call, b)
               \/ ExecuteFails(c, call)
               \/ ExecuteNotSent(c, call)
        PROVE  IInv'
    BY <1>1, ExecuteInv, ExecuteFailsInv
  <1>2. ASSUME NEW c \in Cursors, NEW n \in ManyLengths, NEW bs \in [1..n -> Batches],
               ExecuteMany(c, n, bs) \/ ExecuteManyFails(c, n, bs)
        PROVE  IInv'
    BY <1>2, ExecuteManyInv, ExecuteManyFailsInv
  <1>3. ASSUME NEW c \in Cursors,
               \/ Fetch(c, "fetchone", 1)
               \/ \E rows \in 1..2 : Fetch(c, "fetchmany", rows)
               \/ Fetch(c, "fetchall", 0)
        PROVE  IInv'
    <2>1. PICK call \in FetchCalls, rows \in Nat : Fetch(c, call, rows)
      BY <1>3 DEF FetchCalls
    <2> QED
      BY <2>1, FetchInv
  <1>4. ASSUME NEW c \in Cursors, NextSet(c) \/ NoNextSet(c) \/ NextSetFails(c) PROVE IInv'
    BY <1>4, NextSetInv, NoNextSetInv, NextSetFailsInv
  <1>5. ASSUME NEW c \in Cursors, Close(c) PROVE IInv'
    BY <1>5, CloseInv
  <1>6. ASSUME NEW c \in Cursors, NEW b \in Batches, RawCallproc(c, b) PROVE IInv'
    BY <1>6, RawCallprocInv
  <1>7. CASE CloseConnection
    BY <1>7, CloseConnectionInv
  <1>8. CASE UNCHANGED vars
    BY <1>8 DEF vars, IInv, TypeOK, RecordsetDescribed, RecordsetFresh, ClosedRecordsets,
                RowsMatchDescription, FreshRows, ReturnValueMatchesRows, ManyRowcount
  <1> QED
    BY <1>1, <1>2, <1>3, <1>4, <1>5, <1>6, <1>7, <1>8 DEF Next

\* The recordset a cursor reads and the description it converts cells with are
\* moved together by every call, whatever fails: the invariant of the cursors.
THEOREM InvCorrect == Spec => []IInv
  BY InitInv, NextInv, PTL DEF Spec

\* The rows a fetch delivers after a statement that succeeded are its rows, however
\* many cursors, statements and failures came before (execute, executemany, nextset
\* and _fetch).
THEOREM RowsAreFresh == Spec => []FreshRows
  <1>1. IInv => FreshRows
    BY DEF IInv
  <1> QED
    BY InvCorrect, <1>1, PTL

\* Every delivered row is converted with the description of its own result set
\* (_fetch reads self.rs and self.description separately).
THEOREM DescriptionIsThatOfRows == Spec => []RowsMatchDescription
  <1>1. IInv => RowsMatchDescription
    BY DEF IInv
  <1> QED
    BY InvCorrect, <1>1, PTL

\* A return_value is never that of another call than the rows come from (callproc,
\* _execute_command).
THEOREM ReturnValueIsThatOfRows == Spec => []ReturnValueMatchesRows
  <1>1. IInv => ReturnValueMatchesRows
    BY DEF IInv
  <1> QED
    BY InvCorrect, <1>1, PTL

\* For parameter sequences of every length, executemany() leaves the number of rows
\* that all of its statements affected, or -1.
THEOREM ManyRowcountIsSum == Spec => []ManyRowcount
  <1>1. IInv => ManyRowcount
    BY DEF IInv
  <1> QED
    BY InvCorrect, <1>1, PTL

\* Connection.close silences every cursor: the recordsets have closed with it, and
\* no statement can be run.
THEOREM SilentWhenClosed == Spec => ClosedConnectionIsSilent
  <1>1. IInv /\ [Next]_vars =>
          [~conOpen => \A c \in Cursors :
             got'[c] # got[c] => got'[c].kind \notin {"rows", "True", "instances"}]_vars
    <2> SUFFICES ASSUME IInv, [Next]_vars, ~conOpen, NEW d \in Cursors, got'[d] # got[d]
                 PROVE  got'[d].kind \notin {"rows", "True", "instances"}
      OBVIOUS
    <2>1. TypeOK /\ \A c \in Cursors : rs[c] # None => ~rs[c].open
      BY DEF IInv, ClosedRecordsets
    \* What delivers rows needs an open recordset, or the connection.
    <2>2. ASSUME NEW c \in Cursors PROVE
             /\ ~NextSet(c) /\ ~NoNextSet(c)
             /\ \A call \in FetchCalls, rows \in Nat : ~FetchRows(c, call, rows)
             /\ \A call \in {"execute", "callproc"} :
                   ~ExecuteFails(c, call) /\ \A b \in Batches : ~Execute(c, call, b)
             /\ \A b \in Batches : ~RawCallproc(c, b)
             /\ \A n \in ManyLengths : \A bs \in [1..n -> Batches] :
                   ~ExecuteMany(c, n, bs) /\ ~ExecuteManyFails(c, n, bs)
      BY <2>1 DEF NextSet, NoNextSet, FetchRows, CanFetch, Execute, ExecuteFails, RawCallproc,
                  ExecuteMany, ExecuteManyFails
    <2>3. ASSUME NEW c \in Cursors, NEW call, NEW kind, Outcome(c, call, kind),
                 kind \in Kinds \ {"True"}
          PROVE  got'[d].kind \notin {"rows", "True", "instances"}
      <3>1. got'[d] = [call |-> call, kind |-> kind]
        BY <2>1, <2>3 DEF Outcome, TypeOK
      <3> QED
        BY <2>3, <3>1 DEF Kinds
    <2>4. ASSUME NEW c \in Cursors, NEW call \in {"execute", "callproc"},
                 ExecuteNotSent(c, call)
          PROVE  got'[d].kind \notin {"rows", "True", "instances"}
      <3>1. PICK kind \in Kinds \ {"True"} : Outcome(c, call, kind)
        BY <2>4 DEF ExecuteNotSent, Kinds
      <3> QED
        BY <2>3, <3>1
    <2>5. ASSUME NEW c \in Cursors, NEW call \in FetchCalls, NEW rows \in Nat,
                 Fetch(c, call, rows)
          PROVE  got'[d].kind \notin {"rows", "True", "instances"}
      <3>1. PICK kind \in Kinds \ {"True"} : Outcome(c, call, kind)
        BY <2>2, <2>5 DEF Fetch, FetchNothing, FetchFails, Kinds
      <3> QED
        BY <2>3, <3>1
    <2>6. ASSUME NEW c \in Cursors, NextSetFails(c) \/ Close(c)
          PROVE  got'[d].kind \notin {"rows", "True", "instances"}
      <3>1. PICK kind \in Kinds \ {"True"}, call \in Calls : Outcome(c, call, kind)
        BY <2>6 DEF NextSetFails, Close, Kinds, Calls
      <3> QED
        BY <2>3, <3>1
    <2>7. ASSUME NEW c \in Cursors,
                 \/ Fetch(c, "fetchone", 1)
                 \/ \E rows \in 1..2 : Fetch(c, "fetchmany", rows)
                 \/ Fetch(c, "fetchall", 0)
          PROVE  \E call \in FetchCalls, rows \in Nat : Fetch(c, call, rows)
      BY <2>7 DEF FetchCalls
    <2>8. ~CloseConnection /\ ~UNCHANGED vars
      BY DEF CloseConnection, vars
    <2> QED
      BY <2>2, <2>4, <2>5, <2>6, <2>7, <2>8 DEF Next
  <1> QED
    BY InvCorrect, <1>1, PTL DEF Spec, ClosedConnectionIsSilent

=============================================================================
