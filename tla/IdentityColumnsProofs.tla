------------------------ MODULE IdentityColumnsProofs ------------------------
(***************************************************************************)
(* Theorems about IdentityColumns, for every set of sessions, tables and   *)
(* keys, whether or not a statement may end its batch.  Each lemma says    *)
(* that one kind of step keeps the inductive invariant IInv; the theorems  *)
(* at the end follow from it.                                              *)
(***************************************************************************)
EXTENDS IdentityColumns, TLAPS

SessionInv(s) == BatchInv(s) /\ SettingInv(s) /\ OutputInv(s)

\* The key of the row the call of session s inserts.
RowId(s) == IF call[s].id = None THEN NextId(call[s].table) ELSE call[s].id

TableInv(t) == CounterInv(t) /\ \A id \in rows[t] : id < NextId(t)

(* IInv, taken apart by session and by table.                                  *)
LEMMA Parts ==
  IInv <=> /\ TypeOK
           /\ \A s \in Sessions : SessionInv(s)
           /\ \A t \in Tables : TableInv(t)
  BY DEF IInv, SessionInv, TableInv, CounterAhead

(* The initial states satisfy the inductive invariant.                         *)
LEMMA InitInv == Init => IInv
  BY NoneAssumption, IdsAssumption DEF Init, IInv, TypeOK, Nothing, Returns, Kinds, Statements,
     BatchInv, SettingInv, OutputInv, CounterInv, CounterAhead, NextId

(* A session none of whose variables changes keeps its part of the invariant.  *)
LEMMA OtherSession ==
  ASSUME NEW r \in Sessions, SessionInv(r),
         call'[r] = call[r], pc'[r] = pc[r], ret'[r] = ret[r], output'[r] = output[r],
         identityInsert'[r] = identityInsert[r], leaked'[r] = leaked[r]
  PROVE  SessionInv(r)'
  BY DEF SessionInv, BatchInv, SettingInv, OutputInv

(* Tables that do not change keep theirs.                                      *)
LEMMA SameTables ==
  ASSUME UNCHANGED <<tableVars, counted>>, NEW t \in Tables, TableInv(t)
  PROVE  TableInv(t)'
  BY DEF tableVars, TableInv, CounterInv, NextId

(* One call has one kind, and one field of it at a time leads to a statement.  *)
LEMMA FirstStatement ==
  ASSUME NEW c \in Calls
  PROVE  /\ First(c) \in {"NOCOUNT ON", "NOCOUNT OFF", "IDENTITY_INSERT ON",
                         "IDENTITY_INSERT OFF", "INSERT"}
         /\ First(c) = "INSERT" => c.kind = "insert"
         /\ First(c) = "IDENTITY_INSERT ON" =>
               c.kind = "enable" \/ (c.kind = "insert" /\ c.id # None)
         /\ First(c) = "IDENTITY_INSERT OFF" => c.kind = "disable"
  BY DEF Calls, Kinds, First, Row, UpdateStart

(* A batch in progress belongs to a call.                                      *)
LEMMA InCall ==
  ASSUME IInv, NEW s \in Sessions, pc[s] # "done"
  PROVE  call[s] \in Calls /\ call[s] # None
  BY DEF IInv, TypeOK, BatchInv

(* What follows a statement is a statement, or the end.                        *)
LEMMA NextStatement ==
  ASSUME NEW c \in Calls, NEW stmt \in Statements
  PROVE  After(c, stmt) \in Statements \cup {"done"}
  BY DEF Calls, Kinds, Statements, After, Row, AfterRow, Selection

(* Outcomes stay outcomes when one field is set, and only that field changes.  *)
LEMMA RaisesSet ==
  ASSUME NEW r \in Returns
  PROVE  /\ [r EXCEPT !.raises = TRUE] \in Returns
         /\ [r EXCEPT !.raises = TRUE].raises
         /\ [r EXCEPT !.raises = TRUE].kind = r.kind
         /\ [r EXCEPT !.raises = TRUE].wantsId = r.wantsId
  BY DEF Returns

(* The same for the field known.                                               *)
LEMMA KnownSet ==
  ASSUME NEW r \in Returns, NEW b \in BOOLEAN
  PROVE  /\ [r EXCEPT !.known = b] \in Returns
         /\ [r EXCEPT !.known = b].raises = r.raises
         /\ [r EXCEPT !.known = b].kind = r.kind
         /\ [r EXCEPT !.known = b].wantsId = r.wantsId
         /\ [r EXCEPT !.known = b].id = r.id
         /\ [r EXCEPT !.known = b].own = r.own
  BY DEF Returns

(* The same for the field id.                                                  *)
LEMMA IdSet ==
  ASSUME NEW r \in Returns, NEW i \in Int \cup {None}
  PROVE  /\ [r EXCEPT !.id = i] \in Returns
         /\ [r EXCEPT !.id = i].raises = r.raises
         /\ [r EXCEPT !.id = i].kind = r.kind
         /\ [r EXCEPT !.id = i].wantsId = r.wantsId
         /\ [r EXCEPT !.id = i].id = i
         /\ [r EXCEPT !.id = i].own = r.own
  BY DEF Returns

(* The same for the field own.                                                 *)
LEMMA OwnSet ==
  ASSUME NEW r \in Returns, NEW i \in Int \cup {None}
  PROVE  /\ [r EXCEPT !.own = i] \in Returns
         /\ [r EXCEPT !.own = i].raises = r.raises
         /\ [r EXCEPT !.own = i].kind = r.kind
         /\ [r EXCEPT !.own = i].wantsId = r.wantsId
         /\ [r EXCEPT !.own = i].own = i
  BY DEF Returns

(* A call begins: its batch starts at First.                                   *)
LEMMA BeginInv ==
  ASSUME IInv, NEW s \in Sessions, NEW c \in Calls, Begin(s, c)
  PROVE  IInv'
<1>0. TypeOK /\ (\A r \in Sessions : SessionInv(r)) /\ (\A t \in Tables : TableInv(t))
  BY Parts
<1>1. TypeOK'
  <2>1. First(c) \in Statements
    BY FirstStatement DEF Statements
  <2>2. [Nothing EXCEPT !.kind = c.kind, !.wantsId = c.returnId] \in Returns
    BY DEF Nothing, Returns, Calls
  <2> QED BY <1>0, <2>1, <2>2 DEF Begin, TypeOK, tableVars
<1>2. ASSUME NEW r \in Sessions PROVE SessionInv(r)'
  <2>1. CASE r = s
    <3>1. /\ call'[s] = c /\ pc'[s] = First(c)
          /\ ret'[s].kind = c.kind /\ ret'[s].wantsId = c.returnId
          /\ leaked'[s] = (leaked[s] \/ c.kind = "enable")
          /\ identityInsert'[s] = identityInsert[s]
      BY <1>0 DEF Begin, TypeOK, Nothing
    <3>2. c # None
      BY NoneAssumption
    <3>3. BatchInv(s)'
      BY <3>1, <3>2, FirstStatement DEF Begin, BatchInv
    <3>4. SettingInv(s)'
      BY <1>0, <3>1 DEF Begin, SessionInv, SettingInv
    <3>5. OutputInv(s)'
      BY <3>1, FirstStatement DEF OutputInv
    <3> QED BY <2>1, <3>3, <3>4, <3>5 DEF SessionInv
  <2>2. CASE r # s
    BY <1>0, <2>2, OtherSession DEF Begin, TypeOK
  <2> QED BY <2>1, <2>2
<1>3. \A t \in Tables : TableInv(t)'
  BY <1>0, SameTables DEF Begin, tableVars
<1> QED BY <1>1, <1>2, <1>3 DEF IInv, SessionInv, TableInv, CounterAhead

(* The call returns.                                                           *)
LEMMA ReturnInv ==
  ASSUME IInv, NEW s \in Sessions, Return(s)
  PROVE  IInv'
<1>0. TypeOK /\ (\A r \in Sessions : SessionInv(r)) /\ (\A t \in Tables : TableInv(t))
  BY Parts
<1>1. TypeOK'
  BY <1>0, NoneAssumption DEF Return, TypeOK, tableVars
<1>2. ASSUME NEW r \in Sessions PROVE SessionInv(r)'
  <2>1. CASE r = s
    BY <1>0, <2>1, NoneAssumption DEF Return, TypeOK, SessionInv, BatchInv, SettingInv,
       OutputInv
  <2>2. CASE r # s
    BY <1>0, <2>2, OtherSession DEF Return, TypeOK
  <2> QED BY <2>1, <2>2
<1>3. \A t \in Tables : TableInv(t)'
  BY <1>0, SameTables DEF Return, tableVars
<1> QED BY <1>1, <1>2, <1>3 DEF IInv, SessionInv, TableInv, CounterAhead

(* SET NOCOUNT ON or OFF.                                                      *)
LEMMA SetNocountInv ==
  ASSUME IInv, NEW s \in Sessions, SetNocount(s)
  PROVE  IInv'
<1>0. /\ TypeOK /\ (\A r \in Sessions : SessionInv(r)) /\ (\A t \in Tables : TableInv(t))
      /\ (pc[s] = "NOCOUNT ON" \/ pc[s] = "NOCOUNT OFF")
      /\ call[s] \in Calls /\ call[s] # None /\ ret[s] \in Returns
  BY Parts, InCall DEF SetNocount, Executes, TypeOK
<1>1. TypeOK'
  <2>1. pc' \in [Sessions -> Statements \cup {"done"}]
    BY <1>0, NextStatement DEF SetNocount, Executes, TypeOK, Statements
  <2>2. nocount' \in [Sessions -> BOOLEAN]
    BY <1>0 DEF SetNocount, TypeOK
  <2> QED BY <1>0, <2>1, <2>2 DEF SetNocount, Executes, TypeOK, tableVars
<1>2. ASSUME NEW r \in Sessions PROVE SessionInv(r)'
  <2>1. CASE r = s
    <3>1. /\ \/ pc[s] = "NOCOUNT ON" /\ pc'[s] = After(call[s], "NOCOUNT ON")
             \/ pc[s] = "NOCOUNT OFF" /\ pc'[s] = After(call[s], "NOCOUNT OFF")
          /\ call'[s] = call[s] /\ ret'[s] = ret[s]
          /\ output'[s] = output[s] /\ identityInsert'[s] = identityInsert[s] /\ leaked'[s] = leaked[s]
      BY <1>0 DEF SetNocount, Executes, TypeOK
    <3>2. BatchInv(s)'
      BY <1>0, <3>1 DEF SessionInv, BatchInv, After, Row, AfterRow, Selection, Calls, Kinds
    <3>3. SettingInv(s)'
      BY <1>0, <3>1 DEF SessionInv, SettingInv, BatchInv, After, Row, AfterRow, Calls,
         Kinds
    <3>4. OutputInv(s)'
      BY <1>0, <3>1 DEF SessionInv, OutputInv, BatchInv, After, Row, AfterRow, Selection, Calls
    <3> QED BY <2>1, <3>2, <3>3, <3>4 DEF SessionInv
  <2>2. CASE r # s
    BY <1>0, <2>2, OtherSession DEF SetNocount, Executes, TypeOK
  <2> QED BY <2>1, <2>2
<1>3. \A t \in Tables : TableInv(t)'
  BY <1>0, SameTables DEF SetNocount, Executes, tableVars
<1> QED BY <1>1, <1>2, <1>3 DEF IInv, SessionInv, TableInv, CounterAhead

(* SET IDENTITY_INSERT ON, also when the server refuses it.                    *)
LEMMA SetIdentityInsertOnInv ==
  ASSUME IInv, NEW s \in Sessions, SetIdentityInsertOn(s)
  PROVE  IInv'
<1>0. /\ TypeOK /\ (\A r \in Sessions : SessionInv(r)) /\ (\A t \in Tables : TableInv(t))
      /\ pc[s] = "IDENTITY_INSERT ON"
      /\ call[s] \in Calls /\ call[s] # None /\ ret[s] \in Returns
  BY Parts, InCall DEF SetIdentityInsertOn, Executes, TypeOK
<1>1. TypeOK'
  BY <1>0, NextStatement, RaisesSet DEF SetIdentityInsertOn, Executes, TypeOK, tableVars, Statements, Calls
<1>2. ASSUME NEW r \in Sessions PROVE SessionInv(r)'
  <2>1. CASE r = s
    <3>1. /\ pc[s] = "IDENTITY_INSERT ON" /\ pc'[s] = After(call[s], "IDENTITY_INSERT ON")
          /\ call'[s] = call[s] /\ ret'[s].kind = ret[s].kind /\ ret'[s].wantsId = ret[s].wantsId
          /\ output'[s] = output[s] /\ leaked'[s] = leaked[s]
          /\ \/ identityInsert'[s] = call[s].table /\ ret'[s] = ret[s]
             \/ /\ identityInsert[s] \notin {None, call[s].table}
                /\ identityInsert'[s] = identityInsert[s] /\ ret'[s].raises
      BY <1>0, RaisesSet DEF SetIdentityInsertOn, Executes, TypeOK, Calls
    <3>2. BatchInv(s)'
      BY <1>0, <3>1 DEF SessionInv, BatchInv, After, Row, AfterRow, Selection, Calls, Kinds
    <3>3. SettingInv(s)'
      BY <1>0, <3>1 DEF SessionInv, SettingInv, BatchInv, After, Row, AfterRow, Calls,
         Kinds
    <3>4. OutputInv(s)'
      BY <1>0, <3>1 DEF SessionInv, OutputInv, BatchInv, After, Row, AfterRow, Selection, Calls
    <3> QED BY <2>1, <3>2, <3>3, <3>4 DEF SessionInv
  <2>2. CASE r # s
    BY <1>0, <2>2, OtherSession DEF SetIdentityInsertOn, Executes, TypeOK
  <2> QED BY <2>1, <2>2
<1>3. \A t \in Tables : TableInv(t)'
  BY <1>0, SameTables DEF SetIdentityInsertOn, Executes, tableVars
<1> QED BY <1>1, <1>2, <1>3 DEF IInv, SessionInv, TableInv, CounterAhead

(* SET IDENTITY_INSERT OFF.                                                    *)
LEMMA SetIdentityInsertOffInv ==
  ASSUME IInv, NEW s \in Sessions, SetIdentityInsertOff(s)
  PROVE  IInv'
<1>0. /\ TypeOK /\ (\A r \in Sessions : SessionInv(r)) /\ (\A t \in Tables : TableInv(t))
      /\ pc[s] = "IDENTITY_INSERT OFF"
      /\ call[s] \in Calls /\ call[s] # None /\ ret[s] \in Returns
  BY Parts, InCall DEF SetIdentityInsertOff, Executes, TypeOK
<1>1. TypeOK'
  BY <1>0, NextStatement DEF SetIdentityInsertOff, Executes, TypeOK, tableVars, Statements
<1>2. ASSUME NEW r \in Sessions PROVE SessionInv(r)'
  <2>1. CASE r = s
    <3>1. /\ pc[s] = "IDENTITY_INSERT OFF" /\ pc'[s] = After(call[s], "IDENTITY_INSERT OFF")
          /\ call'[s] = call[s] /\ ret'[s] = ret[s] /\ output'[s] = output[s]
          /\ \/ identityInsert'[s] = None
             \/ /\ identityInsert[s] # call[s].table
                /\ identityInsert'[s] = identityInsert[s] /\ leaked'[s] = leaked[s]
      BY <1>0 DEF SetIdentityInsertOff, Executes, TypeOK
    <3>2. BatchInv(s)'
      BY <1>0, <3>1 DEF SessionInv, BatchInv, After, Row, AfterRow, Selection, Calls, Kinds
    <3>3. SettingInv(s)'
      BY <1>0, <3>1 DEF SessionInv, SettingInv, BatchInv, After, Row, AfterRow, Calls,
         Kinds
    <3>4. OutputInv(s)'
      <4>1. pc'[s] = Selection(call[s])
        BY <3>1 DEF After
      <4>2. BatchInv(s) /\ OutputInv(s)
        BY <1>0 DEF SessionInv
      <4> QED BY <1>0, <3>1, <4>1, <4>2 DEF OutputInv, BatchInv, Selection
    <3> QED BY <2>1, <3>2, <3>3, <3>4 DEF SessionInv
  <2>2. CASE r # s
    BY <1>0, <2>2, OtherSession DEF SetIdentityInsertOff, Executes, TypeOK
  <2> QED BY <2>1, <2>2
<1>3. \A t \in Tables : TableInv(t)'
  BY <1>0, SameTables DEF SetIdentityInsertOff, Executes, tableVars
<1> QED BY <1>1, <1>2, <1>3 DEF IInv, SessionInv, TableInv, CounterAhead

(* The UPDATE.                                                                 *)
LEMMA UpdateInv ==
  ASSUME IInv, NEW s \in Sessions, Update(s)
  PROVE  IInv'
<1>0. /\ TypeOK /\ (\A r \in Sessions : SessionInv(r)) /\ (\A t \in Tables : TableInv(t))
      /\ pc[s] = "UPDATE"
      /\ call[s] \in Calls /\ call[s] # None /\ ret[s] \in Returns
  BY Parts, InCall DEF Update, Executes, TypeOK
<1>1. TypeOK'
  BY <1>0, NextStatement, KnownSet DEF Update, Executes, TypeOK, tableVars, Statements
<1>2. ASSUME NEW r \in Sessions PROVE SessionInv(r)'
  <2>1. CASE r = s
    <3>1. /\ pc[s] = "UPDATE" /\ pc'[s] = After(call[s], "UPDATE")
          /\ call'[s] = call[s] /\ ret'[s].kind = ret[s].kind /\ ret'[s].wantsId = ret[s].wantsId
          /\ ret'[s].raises = ret[s].raises /\ ret'[s].id = ret[s].id /\ ret'[s].own = ret[s].own
          /\ output'[s] = output[s] /\ identityInsert'[s] = identityInsert[s] /\ leaked'[s] = leaked[s]
      BY <1>0, KnownSet DEF Update, Executes, TypeOK
    <3>2. BatchInv(s)'
      BY <1>0, <3>1 DEF SessionInv, BatchInv, After, Row, AfterRow, Selection, Calls, Kinds
    <3>3. SettingInv(s)'
      BY <1>0, <3>1 DEF SessionInv, SettingInv, BatchInv, After, Row, AfterRow, Calls,
         Kinds
    <3>4. OutputInv(s)'
      BY <1>0, <3>1 DEF SessionInv, OutputInv, BatchInv, After, Row, AfterRow, Selection, Calls
    <3> QED BY <2>1, <3>2, <3>3, <3>4 DEF SessionInv
  <2>2. CASE r # s
    BY <1>0, <2>2, OtherSession DEF Update, Executes, TypeOK
  <2> QED BY <2>1, <2>2
<1>3. \A t \in Tables : TableInv(t)'
  BY <1>0, SameTables DEF Update, Executes, tableVars
<1> QED BY <1>1, <1>2, <1>3 DEF IInv, SessionInv, TableInv, CounterAhead

(* The SELECT of the returned id.                                              *)
LEMMA SelectInv ==
  ASSUME IInv, NEW s \in Sessions, Select(s)
  PROVE  IInv'
<1>0. /\ TypeOK /\ (\A r \in Sessions : SessionInv(r)) /\ (\A t \in Tables : TableInv(t))
      /\ pc[s] = "SELECT"
      /\ call[s] \in Calls /\ call[s] # None /\ ret[s] \in Returns
  BY Parts, InCall DEF Select, Executes, TypeOK
<1>1. TypeOK'
  BY <1>0, NextStatement, IdSet DEF Select, Executes, TypeOK, tableVars, Statements, ReturnedId
<1>2. ASSUME NEW r \in Sessions PROVE SessionInv(r)'
  <2>1. CASE r = s
    <3>1. /\ pc[s] = "SELECT" /\ pc'[s] = After(call[s], "SELECT")
          /\ call'[s] = call[s] /\ ret'[s].kind = ret[s].kind /\ ret'[s].wantsId = ret[s].wantsId
          /\ ret'[s].raises = ret[s].raises /\ ret'[s].id = output[s] /\ ret'[s].own = ret[s].own
          /\ output'[s] = output[s] /\ identityInsert'[s] = identityInsert[s] /\ leaked'[s] = leaked[s]
      BY <1>0, IdSet DEF Select, Executes, TypeOK, ReturnedId
    <3>2. BatchInv(s)'
      BY <1>0, <3>1 DEF SessionInv, BatchInv, After, Row, AfterRow, Selection, Calls, Kinds
    <3>3. SettingInv(s)'
      BY <1>0, <3>1 DEF SessionInv, SettingInv, BatchInv, After, Row, AfterRow, Calls,
         Kinds
    <3>4. OutputInv(s)'
      BY <1>0, <3>1 DEF SessionInv, OutputInv, BatchInv, After, Row, AfterRow, Selection, Calls
    <3> QED BY <2>1, <3>2, <3>3, <3>4 DEF SessionInv
  <2>2. CASE r # s
    BY <1>0, <2>2, OtherSession DEF Select, Executes, TypeOK
  <2> QED BY <2>1, <2>2
<1>3. \A t \in Tables : TableInv(t)'
  BY <1>0, SameTables DEF Select, Executes, tableVars
<1> QED BY <1>1, <1>2, <1>3 DEF IInv, SessionInv, TableInv, CounterAhead

(* The batch is ended by a statement.                                          *)
LEMMA BatchEndsInv ==
  ASSUME IInv, NEW s \in Sessions, BatchEnds(s)
  PROVE  IInv'
<1>0. /\ TypeOK /\ (\A r \in Sessions : SessionInv(r)) /\ (\A t \in Tables : TableInv(t))
      /\ call[s] # None /\ ret[s] \in Returns
  BY Parts, InCall DEF BatchEnds, TypeOK
<1>1. TypeOK'
  BY <1>0, RaisesSet DEF BatchEnds, TypeOK, tableVars
<1>2. ASSUME NEW r \in Sessions PROVE SessionInv(r)'
  <2>1. CASE r = s
    <3>1. /\ pc'[s] = "done" /\ call'[s] = call[s] /\ ret'[s].kind = ret[s].kind /\ ret'[s].wantsId = ret[s].wantsId
          /\ ret'[s].raises /\ identityInsert'[s] = identityInsert[s]
          /\ leaked'[s] = (leaked[s] \/ identityInsert[s] # None)
      BY <1>0, RaisesSet DEF BatchEnds, TypeOK
    <3>2. BatchInv(s)'
      BY <1>0, <3>1 DEF SessionInv, BatchInv
    <3>3. SettingInv(s)'
      BY <3>1 DEF SettingInv
    <3>4. OutputInv(s)'
      BY <3>1 DEF OutputInv
    <3> QED BY <2>1, <3>2, <3>3, <3>4 DEF SessionInv
  <2>2. CASE r # s
    BY <1>0, <2>2, OtherSession DEF BatchEnds, TypeOK
  <2> QED BY <2>1, <2>2
<1>3. \A t \in Tables : TableInv(t)'
  BY <1>0, SameTables DEF BatchEnds, tableVars
<1> QED BY <1>1, <1>2, <1>3 DEF IInv, SessionInv, TableInv, CounterAhead

(* The INSERT writes its row, with the key it brings or a generated one.       *)
LEMMA InsertInv ==
  ASSUME IInv, NEW s \in Sessions, Insert(s)
  PROVE  IInv'
<1>0. /\ TypeOK /\ (\A r \in Sessions : SessionInv(r)) /\ (\A t \in Tables : TableInv(t))
      /\ pc[s] = "INSERT"
      /\ call[s] \in Calls /\ call[s] # None /\ ret[s] \in Returns
  BY Parts, InCall DEF Insert, Executes, TypeOK
<1>a. /\ call[s].table \in Tables /\ RowId(s) \in Int
      /\ Write(call[s].table, RowId(s))
      /\ ret' = [ret EXCEPT ![s].own = RowId(s)]
      /\ output' = [output EXCEPT ![s] = IF call[s].returnId THEN RowId(s) ELSE None]
      /\ (call[s].id # None <=> identityInsert[s] = call[s].table)
  BY <1>0, IdsAssumption DEF Insert, Insertable, RowId, Calls, TypeOK, NextId
<1>1. TypeOK'
  <2>1. rows' \in [Tables -> SUBSET Int] /\ last' \in [Tables -> Int]
        /\ virgin' \in [Tables -> BOOLEAN]
    BY <1>0, <1>a DEF Write, Larger, TypeOK
  <2>2. ret' \in [Sessions -> Returns]
    BY <1>0, <1>a, OwnSet DEF TypeOK
  <2>3. output' \in [Sessions -> Int \cup {None}]
    BY <1>0, <1>a DEF TypeOK
  <2>4. pc' \in [Sessions -> Statements \cup {"done"}]
    BY <1>0, NextStatement DEF Insert, Executes, TypeOK, Statements
  <2> QED BY <1>0, <2>1, <2>2, <2>3, <2>4 DEF Insert, Executes, TypeOK
<1>2. ASSUME NEW r \in Sessions PROVE SessionInv(r)'
  <2>1. CASE r = s
    <3>a. /\ ret'[s].kind = ret[s].kind /\ ret'[s].wantsId = ret[s].wantsId
          /\ ret'[s].raises = ret[s].raises /\ ret'[s].own = RowId(s)
      BY <1>0, <1>a, OwnSet DEF TypeOK
    <3>b. RowId(s) # None
      BY <1>a, NoneAssumption
    <3>1. /\ pc[s] = "INSERT" /\ pc'[s] = After(call[s], "INSERT")
          /\ call'[s] = call[s] /\ ret'[s].kind = ret[s].kind /\ ret'[s].wantsId = ret[s].wantsId
          /\ ret'[s].raises = ret[s].raises /\ ret'[s].own = RowId(s)
          /\ ret'[s].own # None
          /\ output'[s] = IF call[s].returnId THEN RowId(s) ELSE None
          /\ call[s].id # None <=> identityInsert[s] = call[s].table
          /\ identityInsert'[s] = identityInsert[s] /\ leaked'[s] = leaked[s]
      BY <1>0, <1>a, <3>a, <3>b DEF Insert, Executes, TypeOK
    <3>2. BatchInv(s)'
      BY <1>0, <3>1 DEF SessionInv, BatchInv, After, Row, AfterRow, Selection, Calls, Kinds
    <3>3. SettingInv(s)'
      BY <1>0, <3>1 DEF SessionInv, SettingInv, BatchInv, After, Row, AfterRow, Calls,
         Kinds
    <3>4. OutputInv(s)'
      BY <1>0, <3>1 DEF SessionInv, OutputInv, BatchInv, After, Row, AfterRow, Selection, Calls
    <3> QED BY <2>1, <3>2, <3>3, <3>4 DEF SessionInv
  <2>2. CASE r # s
    BY <1>0, <2>2, OtherSession DEF Insert, Executes, TypeOK
  <2> QED BY <2>1, <2>2
<1>3. ASSUME NEW t \in Tables PROVE TableInv(t)'
  <2>1. CASE t = call[s].table
    BY <1>0, <1>a, <2>1 DEF Insert, Executes, Write, TypeOK, TableInv, CounterInv, NextId, Larger
  <2>2. CASE t # call[s].table
    BY <1>0, <1>a, <2>2 DEF Insert, Executes, Write, TypeOK, TableInv, CounterInv, NextId
  <2> QED BY <2>1, <2>2
<1> QED BY <1>1, <1>2, <1>3 DEF IInv, SessionInv, TableInv, CounterAhead

(* The INSERT fails, with or without the loss of a key.                        *)
LEMMA InsertFailsInv ==
  ASSUME IInv, NEW s \in Sessions, InsertFails(s)
  PROVE  IInv'
<1>0. /\ TypeOK /\ (\A r \in Sessions : SessionInv(r)) /\ (\A t \in Tables : TableInv(t))
      /\ pc[s] = "INSERT"
      /\ call[s] \in Calls /\ call[s] # None /\ ret[s] \in Returns
  BY Parts, InCall DEF InsertFails, Executes, TypeOK
<1>1. TypeOK'
  <2>1. rows' \in [Tables -> SUBSET Int] /\ last' \in [Tables -> Int]
        /\ virgin' \in [Tables -> BOOLEAN]
    <3>1. call[s].table \in Tables
      BY <1>0 DEF Calls
    <3>2. CASE UNCHANGED tableVars
      BY <1>0, <3>2 DEF TypeOK, tableVars
    <3>3. CASE Waste(call[s].table)
      BY <1>0, <3>1, <3>3 DEF Waste, NextId, TypeOK
    <3> QED BY <3>2, <3>3 DEF InsertFails
  <2>2. ret' \in [Sessions -> Returns]
    BY <1>0, RaisesSet DEF InsertFails, TypeOK
  <2>3. pc' \in [Sessions -> Statements \cup {"done"}]
    BY <1>0, NextStatement DEF InsertFails, Executes, TypeOK, Statements
  <2> QED BY <1>0, <2>1, <2>2, <2>3 DEF InsertFails, Executes, TypeOK
<1>2. ASSUME NEW r \in Sessions PROVE SessionInv(r)'
  <2>1. CASE r = s
    <3>1. /\ pc[s] = "INSERT" /\ pc'[s] = After(call[s], "INSERT")
          /\ call'[s] = call[s] /\ ret'[s].kind = ret[s].kind /\ ret'[s].wantsId = ret[s].wantsId
          /\ ret'[s].raises
          /\ output'[s] = output[s] /\ identityInsert'[s] = identityInsert[s] /\ leaked'[s] = leaked[s]
      BY <1>0, RaisesSet DEF InsertFails, Executes, TypeOK
    <3>2. BatchInv(s)'
      BY <1>0, <3>1 DEF SessionInv, BatchInv, After, Row, AfterRow, Selection, Calls, Kinds
    <3>3. SettingInv(s)'
      <4>1. pc'[s] = AfterRow(call[s])
        BY <3>1 DEF After
      <4>2. BatchInv(s) /\ SettingInv(s)
        BY <1>0 DEF SessionInv
      <4> QED BY <1>0, <3>1, <4>1, <4>2 DEF SettingInv, BatchInv, AfterRow, Selection
    <3>4. OutputInv(s)'
      BY <1>0, <3>1 DEF SessionInv, OutputInv, BatchInv, After, Row, AfterRow, Selection, Calls
    <3> QED BY <2>1, <3>2, <3>3, <3>4 DEF SessionInv
  <2>2. CASE r # s
    BY <1>0, <2>2, OtherSession DEF InsertFails, Executes, TypeOK
  <2> QED BY <2>1, <2>2
<1>3. ASSUME NEW t \in Tables PROVE TableInv(t)'
  <2>1. CASE UNCHANGED tableVars
    BY <1>0, <2>1, SameTables DEF InsertFails, Executes
  <2>2. CASE Waste(call[s].table)
    BY <1>0, <2>2 DEF InsertFails, Executes, Waste, TypeOK, TableInv, CounterInv, NextId, Calls
  <2> QED BY <2>1, <2>2 DEF InsertFails
<1> QED BY <1>1, <1>2, <1>3 DEF IInv, SessionInv, TableInv, CounterAhead

(* Rows are deleted.                                                           *)
LEMMA DeleteInv ==
  ASSUME IInv, NEW t \in Tables, NEW id \in rows[t], Delete(t, id)
  PROVE  IInv'
<1>0. TypeOK /\ (\A r \in Sessions : SessionInv(r)) /\ (\A u \in Tables : TableInv(u))
  BY Parts
<1>1. TypeOK'
  BY <1>0 DEF Delete, TypeOK
<1>2. \A r \in Sessions : SessionInv(r)'
  BY <1>0, OtherSession DEF Delete
<1>3. \A u \in Tables : TableInv(u)'
  BY <1>0 DEF Delete, TypeOK, TableInv, CounterInv, NextId
<1> QED BY <1>1, <1>2, <1>3 DEF IInv, SessionInv, TableInv, CounterAhead

(* sql_flush counts.                                                           *)
LEMMA FlushCountInv ==
  ASSUME IInv, FlushCount
  PROVE  IInv'
<1>0. TypeOK /\ (\A r \in Sessions : SessionInv(r)) /\ (\A t \in Tables : TableInv(t))
  BY Parts
<1>1. TypeOK'
  BY <1>0 DEF FlushCount, TypeOK, tableVars
<1>2. \A r \in Sessions : SessionInv(r)'
  BY <1>0, OtherSession DEF FlushCount
<1>3. \A t \in Tables : TableInv(t)'
  BY <1>0 DEF FlushCount, tableVars, TableInv, CounterInv, NextId
<1> QED BY <1>1, <1>2, <1>3 DEF IInv, SessionInv, TableInv, CounterAhead

(* The statements of sql_flush: no table keeps a row, so no counter is behind. *)
LEMMA FlushExecuteInv ==
  ASSUME IInv, FlushExecute
  PROVE  IInv'
<1>0. TypeOK /\ (\A r \in Sessions : SessionInv(r)) /\ (\A t \in Tables : TableInv(t))
  BY Parts
<1>1. TypeOK'
  BY <1>0 DEF FlushExecute, TypeOK, Reseed, StartId, Flushed
<1>2. \A r \in Sessions : SessionInv(r)'
  BY <1>0, OtherSession DEF FlushExecute, Reseed
<1>3. \A t \in Tables : TableInv(t)'
  BY <1>0 DEF FlushExecute, Reseed, Flushed, TableInv, CounterInv
<1> QED BY <1>1, <1>2, <1>3 DEF IInv, SessionInv, TableInv, CounterAhead

(* Every step keeps the inductive invariant.                                   *)
LEMMA NextInv == IInv /\ [Next]_vars => IInv'
<1> SUFFICES ASSUME IInv, [Next]_vars PROVE IInv'
  OBVIOUS
<1>1. ASSUME NEW s \in Sessions, BatchStep(s) PROVE IInv'
  BY <1>1, ReturnInv, SetNocountInv, SetIdentityInsertOnInv, SetIdentityInsertOffInv,
     InsertInv, InsertFailsInv, UpdateInv, SelectInv, BatchEndsInv DEF BatchStep
<1>2. ASSUME NEW s \in Sessions, NEW c \in Calls, Begin(s, c) PROVE IInv'
  BY <1>2, BeginInv
<1>3. ASSUME NEW t \in Tables, NEW id \in rows[t], Delete(t, id) PROVE IInv'
  BY <1>3, DeleteInv
<1>4. CASE FlushCount
  BY <1>4, FlushCountInv
<1>5. CASE FlushExecute
  BY <1>5, FlushExecuteInv
<1>6. CASE UNCHANGED vars
  <2>1. TypeOK'
    BY <1>6 DEF vars, tableVars, IInv, TypeOK
  <2>2. \A s \in Sessions : SessionInv(s)'
    BY <1>6, Parts, OtherSession DEF vars
  <2>3. \A t \in Tables : TableInv(t)'
    BY <1>6, Parts, SameTables DEF vars
  <2> QED BY <2>1, <2>2, <2>3 DEF IInv, SessionInv, TableInv, CounterAhead
<1> QED BY <1>1, <1>2, <1>3, <1>4, <1>5, <1>6 DEF Next

(* Every reachable state satisfies the inductive invariant, and so has the     *)
(* types of TypeOK.                                                            *)
THEOREM Invariance == Spec => []IInv
  BY InitInv, NextInv, PTL DEF Spec

(* No session inserts a row, and no flush reseeds a table, so that the key the *)
(* server generates next is the key of a row (sql_flush, _fix_insert).         *)
THEOREM GeneratedKeysAreNew == Spec => []CounterAhead
<1>1. IInv => CounterAhead
  BY DEF IInv
<1> QED BY <1>1, Invariance, PTL

(* IDENTITY_INSERT does not outlive the batch of _fix_insert, for any table    *)
(* and however many sessions, except by enable_identity_insert or by the loss  *)
(* of the rest of a batch.                                                     *)
THEOREM IdentityInsertIsReset == Spec => []IdentityInsertReset
<1>1. IInv => IdentityInsertReset
  BY DEF IInv, SettingInv, IdentityInsertReset
<1> QED BY <1>1, Invariance, PTL

(* The id an insert returns is the id of the row it wrote, however the batches *)
(* of other sessions interleave with it.                                       *)
THEOREM ReturnedIdIsOwn == Spec => []OwnIdReturned
<1>1. IInv => OwnIdReturned
  <2> SUFFICES ASSUME IInv, NEW s \in Sessions, Returned(s, "insert"), ret[s].wantsId
               PROVE  ret[s].id # None /\ ret[s].id = ret[s].own
    BY DEF OwnIdReturned
  <2>1. pc[s] = "done"
    BY DEF IInv, BatchInv, Returned
  <2> QED BY <2>1 DEF IInv, OutputInv, Returned
<1> QED BY <1>1, Invariance, PTL

(* After a flush every table is empty, and its keys start at 1 if it had rows  *)
(* when they were counted or has never had any.                                *)
THEOREM FlushRestartsKeys == Spec => FlushRestarts
<1>1. IInv /\ [Next]_vars =>
        [counted # None /\ counted' = None =>
           \A t \in Tables :
              /\ rows'[t] = {}
              /\ t \in counted \/ virgin[t] => NextId(t)' = 1]_vars
  <2> SUFFICES ASSUME IInv, [Next]_vars, counted # None, counted' = None, NEW t \in Tables
               PROVE  rows'[t] = {} /\ (t \in counted \/ virgin[t] => NextId(t)' = 1)
    OBVIOUS
  <2>1. FlushExecute
    BY DEF Next, BatchStep, Return, SetNocount, SetIdentityInsertOn, SetIdentityInsertOff,
       Insert, InsertFails, Update, Select, BatchEnds, Executes, Begin, Delete, FlushCount,
       vars
  <2>2. t \in counted => ~virgin[t]
    BY DEF IInv, CounterInv
  <2> QED BY <2>1, <2>2 DEF FlushExecute, Reseed, StartId, Flushed, NextId, IInv, TypeOK
<1> QED BY <1>1, Invariance, PTL DEF Spec, FlushRestarts

(* What the batch of an update has reached: NOCOUNT is OFF at the UPDATE.      *)
CountInv(s) ==
    /\ pc[s] = "NOCOUNT OFF" => call[s].kind = "update"
    /\ pc[s] = "UPDATE" => call[s].kind = "update" /\ ~nocount[s]
    /\ call[s] # None /\ call[s].kind = "update" =>
          pc[s] \in {"NOCOUNT OFF", "UPDATE", "NOCOUNT ON", "done"}
    /\ ret[s].kind = "update" /\ pc[s] \in {"NOCOUNT ON", "done"} /\ ~ret[s].raises =>
          ret[s].known

(* A session none of whose variables changes keeps it.                         *)
LEMMA SameCount ==
  ASSUME NEW r \in Sessions, CountInv(r),
         call'[r] = call[r], pc'[r] = pc[r], ret'[r] = ret[r], nocount'[r] = nocount[r]
  PROVE  CountInv(r)'
  BY DEF CountInv

(* Every statement of a batch keeps it.                                        *)
LEMMA BatchStepCount ==
  ASSUME IInv, NEW s \in Sessions, CountInv(s), BatchStep(s)
  PROVE  CountInv(s)'
<1>0. /\ TypeOK /\ BatchInv(s) /\ ret[s] \in Returns
      /\ pc[s] # "done" => call[s] \in Calls /\ call[s] # None
  BY InCall DEF IInv, TypeOK
<1>1. CASE Return(s)
  BY <1>0, <1>1 DEF Return, TypeOK, CountInv
<1>2. CASE SetNocount(s)
  <2>1. /\ pc[s] \in {"NOCOUNT ON", "NOCOUNT OFF"} /\ call'[s] = call[s] /\ ret'[s] = ret[s]
        /\ pc'[s] = After(call[s], pc[s])
        /\ pc[s] = "NOCOUNT OFF" => ~nocount'[s]
    BY <1>0, <1>2 DEF SetNocount, Executes, TypeOK
  <2> QED BY <1>0, <2>1 DEF After, Row, CountInv, BatchInv
<1>3. CASE SetIdentityInsertOn(s) \/ SetIdentityInsertOff(s) \/ Select(s) \/ Insert(s)
           \/ InsertFails(s)
  <2>1. /\ pc[s] \in {"IDENTITY_INSERT ON", "IDENTITY_INSERT OFF", "SELECT", "INSERT"}
        /\ call'[s] = call[s] /\ pc'[s] = After(call[s], pc[s])
        /\ ret'[s].kind = ret[s].kind
    <3>1. CASE SetIdentityInsertOn(s)
      BY <1>0, <3>1, RaisesSet DEF SetIdentityInsertOn, Executes, TypeOK
    <3>2. CASE SetIdentityInsertOff(s)
      BY <1>0, <3>2 DEF SetIdentityInsertOff, Executes, TypeOK
    <3>3. CASE Select(s)
      BY <1>0, <3>3 DEF Select, Executes, TypeOK, Returns
    <3>4. CASE Insert(s)
      BY <1>0, <3>4 DEF Insert, Executes, TypeOK, Returns
    <3>5. CASE InsertFails(s)
      BY <1>0, <3>5, RaisesSet DEF InsertFails, Executes, TypeOK
    <3> QED BY <1>3, <3>1, <3>2, <3>3, <3>4, <3>5
  <2>2. call[s].kind # "update" /\ ret[s].kind # "update"
    BY <1>0, <2>1 DEF BatchInv
  <2>3. After(call[s], pc[s]) \notin {"NOCOUNT OFF", "UPDATE"}
    BY <2>1 DEF After, AfterRow, Selection
  <2> QED BY <2>1, <2>2, <2>3 DEF CountInv
<1>4. CASE Update(s)
  <2>1. /\ pc[s] = "UPDATE" /\ pc'[s] = "NOCOUNT ON" /\ call'[s] = call[s]
        /\ ret'[s] = [ret[s] EXCEPT !.known = ~nocount[s]]
    BY <1>0, <1>4 DEF Update, Executes, After, TypeOK
  <2>2. ret'[s].known = ~nocount[s]
    BY <1>0, <2>1 DEF Returns
  <2> QED BY <2>1, <2>2 DEF CountInv
<1>5. CASE BatchEnds(s)
  <2>1. pc'[s] = "done" /\ call'[s] = call[s] /\ ret'[s].raises
    BY <1>0, <1>5, RaisesSet DEF BatchEnds, TypeOK
  <2> QED BY <2>1 DEF CountInv
<1> QED BY <1>1, <1>2, <1>3, <1>4, <1>5 DEF BatchStep

(* An update always knows how many rows it changed: the NOCOUNT ON that the    *)
(* inserts and updates of its session leave does not reach it.                 *)
THEOREM UpdatesCount == Spec => []UpdateCounts
<1> DEFINE Inv == \A s \in Sessions : CountInv(s)
<1>1. Init => Inv
  <2> SUFFICES ASSUME Init, NEW s \in Sessions PROVE CountInv(s)
    OBVIOUS
  <2>1. call[s] = None /\ pc[s] = "done" /\ ret[s] = Nothing
    BY DEF Init
  <2>2. None # "update" /\ Nothing.kind = None
    BY NoneAssumption DEF Nothing, Kinds
  <2> QED BY <2>1, <2>2 DEF CountInv
<1>2. IInv /\ Inv /\ [Next]_vars => Inv'
  <2> SUFFICES ASSUME IInv, Inv, [Next]_vars, NEW r \in Sessions PROVE CountInv(r)'
    OBVIOUS
  <2>0. TypeOK
    BY DEF IInv
  <2>1. ASSUME NEW s \in Sessions, BatchStep(s) PROVE CountInv(r)'
    <3>1. CASE r = s
      BY <2>1, <3>1, BatchStepCount
    <3>2. CASE r # s
      <4>1. call'[r] = call[r] /\ pc'[r] = pc[r] /\ ret'[r] = ret[r] /\ nocount'[r] = nocount[r]
        BY <2>0, <2>1, <3>2 DEF BatchStep, Return, SetNocount, SetIdentityInsertOn,
           SetIdentityInsertOff, Insert, InsertFails, Update, Select, BatchEnds, Executes, TypeOK
      <4> QED BY <4>1, SameCount
    <3> QED BY <3>1, <3>2
  <2>2. ASSUME NEW s \in Sessions, NEW c \in Calls, Begin(s, c) PROVE CountInv(r)'
    <3>1. CASE r = s
      <4>1. call'[s] = c /\ pc'[s] = First(c) /\ ret'[s].kind = c.kind
        BY <2>0, <2>2 DEF Begin, TypeOK, Nothing
      <4>2. /\ c.kind = "update" <=> First(c) = "NOCOUNT OFF"
            /\ First(c) \notin {"UPDATE", "done"}
            /\ First(c) = "NOCOUNT ON" => c.kind = "insert"
        BY DEF First, Calls, Kinds, Row, UpdateStart
      <4> QED BY <3>1, <4>1, <4>2 DEF CountInv
    <3>2. CASE r # s
      BY <2>0, <2>2, <3>2, SameCount DEF Begin, TypeOK
    <3> QED BY <3>1, <3>2
  <2>3. CASE (\E t \in Tables : \E id \in rows[t] : Delete(t, id)) \/ FlushCount
             \/ FlushExecute \/ UNCHANGED vars
    BY <2>3, SameCount DEF Delete, FlushCount, FlushExecute, vars
  <2> QED BY <2>1, <2>2, <2>3 DEF Next
<1>3. IInv /\ Inv => UpdateCounts
  <2> SUFFICES ASSUME IInv, NEW s \in Sessions, CountInv(s), Returned(s, "update")
               PROVE  ret[s].known
    BY DEF UpdateCounts
  <2>1. pc[s] = "done"
    BY DEF IInv, BatchInv, Returned
  <2> QED BY <2>1 DEF CountInv, Returned
<1> QED BY Invariance, <1>1, <1>2, <1>3, PTL DEF Spec
==============================================================================
