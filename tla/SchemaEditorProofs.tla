-------------------------- MODULE SchemaEditorProofs --------------------------
(***************************************************************************)
(* Theorems about SchemaEditor, for every set of definitions, any number   *)
(* of operations and any number of failures.                               *)
(***************************************************************************)
EXTENDS SchemaEditor, TLAPS

(* The statements of an alteration, in the order of the code.                  *)
LEMMA AlterPlanIs ==
  /\ DOMAIN AlterPlan = 1..20 /\ Len(AlterPlan) = 20
  /\ AlterPlan[1] = "drop_fk" /\ AlterPlan[2] = "drop_unique"
  /\ AlterPlan[3] = "drop_inbound" /\ AlterPlan[4] = "drop_index"
  /\ AlterPlan[5] = "drop_check" /\ AlterPlan[6] = "rename"
  /\ AlterPlan[7] = "alter_type" /\ AlterPlan[8] = "add_default"
  /\ AlterPlan[9] = "alter_null" /\ AlterPlan[10] = "update_rows"
  /\ AlterPlan[11] = "alter_null_last" /\ AlterPlan[12] = "create_unique"
  /\ AlterPlan[13] = "create_index" /\ AlterPlan[14] = "drop_pk"
  /\ AlterPlan[15] = "create_pk" /\ AlterPlan[16] = "alter_related"
  /\ AlterPlan[17] = "create_fk" /\ AlterPlan[18] = "rebuild_inbound"
  /\ AlterPlan[19] = "create_check" /\ AlterPlan[20] = "drop_default"
  BY DEF AlterPlan

(* Effect, statement by statement.                                             *)
LEMMA AlterEffects ==
  /\ Effect("drop_fk") = Without(Named({"fk"}))
  /\ Effect("drop_unique") = Without(UniqueNames)
  /\ Effect("drop_inbound") = [cat EXCEPT !.relFk = FALSE]
  /\ Effect("drop_index") = Without(IndexNames)
  /\ Effect("drop_check") = CheckDropped
  /\ Effect("rename") = [cat EXCEPT !.column = target.column]
  /\ Effect("alter_type") = [cat EXCEPT !.type = target.type, !.null = TRUE]
  /\ Effect("add_default") = With({"default"})
  /\ Effect("alter_null") = [cat EXCEPT !.type = target.type, !.null = target.null]
  /\ Effect("update_rows") = [cat EXCEPT !.nullRows = {}]
  /\ Effect("alter_null_last") = [cat EXCEPT !.type = target.type, !.null = target.null]
  /\ Effect("create_unique") = With({"unique"})
  /\ Effect("create_index") = With({"index"})
  /\ Effect("drop_pk") = [Without({"pk"}) EXCEPT !.otherPk = FALSE]
  /\ Effect("create_pk") = With({"pk"})
  /\ Effect("alter_related") = [cat EXCEPT !.relType = RelatedType(target.type)]
  /\ Effect("create_fk") = With({"fk"})
  /\ Effect("rebuild_inbound") = [cat EXCEPT !.relFk = TRUE]
  /\ Effect("create_check") = [cat EXCEPT !.check = target.check]
  /\ Effect("drop_default") = Without({"default"})
  BY DEF Effect

LEMMA AlterStatements ==
  ToSet(AlterPlan) = {
    "drop_fk", "drop_unique", "drop_inbound", "drop_index", "drop_check", "rename",
    "alter_type", "add_default", "alter_null", "update_rows", "alter_null_last",
    "create_unique", "create_index", "drop_pk", "create_pk", "alter_related",
    "create_fk", "rebuild_inbound", "create_check", "drop_default" }
  BY AlterPlanIs DEF ToSet

(* What the statements of an alteration do to each part of the catalog.        *)
LEMMA EffectOnCatalog ==
  ASSUME cat \in Catalog, NEW s \in ToSet(AlterPlan)
  PROVE  /\ Effect(s).exists = cat.exists
         /\ Effect(s).column = IF s = "rename" THEN target.column ELSE cat.column
         /\ Effect(s).type = IF s \in {"alter_type", "alter_null", "alter_null_last"}
                             THEN target.type ELSE cat.type
         /\ Effect(s).null = IF s = "alter_type" THEN TRUE
                             ELSE IF s \in {"alter_null", "alter_null_last"} THEN target.null
                             ELSE cat.null
         /\ Effect(s).nullRows = IF s = "update_rows" THEN {} ELSE cat.nullRows
         /\ Effect(s).check = IF s = "create_check" THEN target.check
                              ELSE IF s = "drop_check" /\ cat.column = field.column THEN "none"
                              ELSE cat.check
         /\ Effect(s).related = cat.related
         /\ Effect(s).relFk = IF s = "drop_inbound" THEN FALSE
                              ELSE IF s = "rebuild_inbound" THEN TRUE ELSE cat.relFk
         /\ Effect(s).relType = IF s = "alter_related" THEN RelatedType(target.type)
                                ELSE cat.relType
<1>1. CASE s = "drop_fk"
  BY <1>1, AlterEffects DEF Catalog, Without, With
<1>2. CASE s = "drop_unique"
  BY <1>2, AlterEffects DEF Catalog, Without, With
<1>3. CASE s = "drop_inbound"
  <2>1. Effect(s) = [cat EXCEPT !.relFk = FALSE]
    BY <1>3, AlterEffects
  <2>2. Effect(s).relFk = FALSE
    BY <2>1 DEF Catalog
  <2>3. \A a \in DOMAIN cat : a # "relFk" => Effect(s)[a] = cat[a]
    BY <2>1
  <2> QED BY <1>3, <2>2, <2>3 DEF Catalog
<1>4. CASE s = "drop_index"
  BY <1>4, AlterEffects DEF Catalog, Without, With
<1>5. CASE s = "drop_check"
  BY <1>5, AlterEffects DEF Catalog, CheckDropped
<1>6. CASE s = "rename"
  BY <1>6, AlterEffects DEF Catalog, Without, With
<1>7. CASE s = "alter_type"
  <2> DEFINE typed == [cat EXCEPT !.type = target.type]
  <2>1. Effect(s) = [typed EXCEPT !.null = TRUE]
    BY <1>7, AlterEffects
  <2>2. DOMAIN typed = DOMAIN cat /\ \A a \in DOMAIN cat : a # "type" => typed[a] = cat[a]
    OBVIOUS
  <2>3. typed.type = target.type
    BY DEF Catalog
  <2> QED BY <1>7, <2>1, <2>2, <2>3 DEF Catalog
<1>8. CASE s = "add_default"
  BY <1>8, AlterEffects DEF Catalog, Without, With
<1>9. CASE s = "alter_null"
  <2> DEFINE typed == [cat EXCEPT !.type = target.type]
  <2>1. Effect(s) = [typed EXCEPT !.null = target.null]
    BY <1>9, AlterEffects
  <2>2. DOMAIN typed = DOMAIN cat /\ \A a \in DOMAIN cat : a # "type" => typed[a] = cat[a]
    OBVIOUS
  <2>3. typed.type = target.type
    BY DEF Catalog
  <2> HIDE DEF typed
  <2> QED BY <1>9, <2>1, <2>2, <2>3 DEF Catalog
<1>10. CASE s = "update_rows"
  BY <1>10, AlterEffects DEF Catalog, Without, With
<1>11. CASE s = "alter_null_last"
  <2> DEFINE typed == [cat EXCEPT !.type = target.type]
  <2>1. Effect(s) = [typed EXCEPT !.null = target.null]
    BY <1>11, AlterEffects
  <2>2. DOMAIN typed = DOMAIN cat /\ \A a \in DOMAIN cat : a # "type" => typed[a] = cat[a]
    OBVIOUS
  <2>3. typed.type = target.type
    BY DEF Catalog
  <2> HIDE DEF typed
  <2> QED BY <1>11, <2>1, <2>2, <2>3 DEF Catalog
<1>12. CASE s = "create_unique"
  BY <1>12, AlterEffects DEF Catalog, Without, With
<1>13. CASE s = "create_index"
  BY <1>13, AlterEffects DEF Catalog, Without, With
<1>14. CASE s = "drop_pk"
  BY <1>14, AlterEffects DEF Catalog, Without, With
<1>15. CASE s = "create_pk"
  BY <1>15, AlterEffects DEF Catalog, Without, With
<1>16. CASE s = "alter_related"
  BY <1>16, AlterEffects DEF Catalog, Without, With
<1>17. CASE s = "create_fk"
  BY <1>17, AlterEffects DEF Catalog, Without, With
<1>18. CASE s = "rebuild_inbound"
  BY <1>18, AlterEffects DEF Catalog, Without, With
<1>19. CASE s = "create_check"
  BY <1>19, AlterEffects DEF Catalog, Without, With
<1>20. CASE s = "drop_default"
  BY <1>20, AlterEffects DEF Catalog, Without, With
<1> QED BY <1>1, <1>2, <1>3, <1>4, <1>5, <1>6, <1>7, <1>8, <1>9, <1>10, <1>11, <1>12, <1>13, <1>14, <1>15, <1>16, <1>17, <1>18, <1>19, <1>20, AlterStatements

(* What they do to the constraints of the column: the drops by name find none  *)
(* once the column is renamed.                                                 *)
LEMMA EffectOnConstraints ==
  ASSUME cat \in Catalog, NEW s \in ToSet(AlterPlan)
  PROVE  LET named == cat.column = field.column
             cons == Effect(s).cons
         IN  /\ cons \in SUBSET Constraints
             /\ "unique" \in cons <=>
                  \/ s = "create_unique"
                  \/ "unique" \in cat.cons /\ ~(named /\ s \in {"drop_unique", "drop_index"})
             /\ "pk" \in cons <=>
                  \/ s = "create_pk"
                  \/ /\ "pk" \in cat.cons /\ s # "drop_pk"
                     /\ ~(named /\ s \in {"drop_unique", "drop_index"})
             /\ "fk" \in cons <=>
                  s = "create_fk" \/ ("fk" \in cat.cons /\ ~(named /\ s = "drop_fk"))
             /\ "default" \in cons <=>
                  s = "add_default" \/ ("default" \in cat.cons /\ s # "drop_default")
<1> USE DEF Constraints
<1>1. CASE s = "drop_fk"
  BY <1>1, AlterEffects
     DEF Catalog, Without, With, Named, UniqueNames, IndexNames
<1>2. CASE s = "drop_unique"
  BY <1>2, AlterEffects
     DEF Catalog, Without, With, Named, UniqueNames, IndexNames
<1>3. CASE s = "drop_inbound"
  BY <1>3, AlterEffects
     DEF Catalog, Without, With, Named, UniqueNames, IndexNames
<1>4. CASE s = "drop_index"
  BY <1>4, AlterEffects
     DEF Catalog, Without, With, Named, UniqueNames, IndexNames
<1>5. CASE s = "drop_check"
  BY <1>5, AlterEffects
     DEF Catalog, CheckDropped
<1>6. CASE s = "rename"
  BY <1>6, AlterEffects
     DEF Catalog, Without, With, Named, UniqueNames, IndexNames
<1>7. CASE s = "alter_type"
  BY <1>7, AlterEffects
     DEF Catalog, Without, With, Named, UniqueNames, IndexNames
<1>8. CASE s = "add_default"
  BY <1>8, AlterEffects
     DEF Catalog, Without, With, Named, UniqueNames, IndexNames
<1>9. CASE s = "alter_null"
  BY <1>9, AlterEffects
     DEF Catalog, Without, With, Named, UniqueNames, IndexNames
<1>10. CASE s = "update_rows"
  BY <1>10, AlterEffects
     DEF Catalog, Without, With, Named, UniqueNames, IndexNames
<1>11. CASE s = "alter_null_last"
  BY <1>11, AlterEffects
     DEF Catalog, Without, With, Named, UniqueNames, IndexNames
<1>12. CASE s = "create_unique"
  BY <1>12, AlterEffects
     DEF Catalog, Without, With, Named, UniqueNames, IndexNames
<1>13. CASE s = "create_index"
  BY <1>13, AlterEffects
     DEF Catalog, Without, With, Named, UniqueNames, IndexNames
<1>14. CASE s = "drop_pk"
  <2>1. Without({"pk"}).cons = cat.cons \ {"pk"} /\ Without({"pk"}) \in Catalog
    BY DEF Catalog, Without
  <2>2. Effect(s).cons = cat.cons \ {"pk"}
    BY <1>14, <2>1, AlterEffects DEF Catalog
  <2> QED BY <1>14, <2>2 DEF Catalog
<1>15. CASE s = "create_pk"
  BY <1>15, AlterEffects
     DEF Catalog, Without, With, Named, UniqueNames, IndexNames
<1>16. CASE s = "alter_related"
  BY <1>16, AlterEffects
     DEF Catalog, Without, With, Named, UniqueNames, IndexNames
<1>17. CASE s = "create_fk"
  BY <1>17, AlterEffects
     DEF Catalog, Without, With, Named, UniqueNames, IndexNames
<1>18. CASE s = "rebuild_inbound"
  BY <1>18, AlterEffects
     DEF Catalog, Without, With, Named, UniqueNames, IndexNames
<1>19. CASE s = "create_check"
  BY <1>19, AlterEffects
     DEF Catalog, Without, With, Named, UniqueNames, IndexNames
<1>20. CASE s = "drop_default"
  BY <1>20, AlterEffects
     DEF Catalog, Without, With, Named, UniqueNames, IndexNames
<1> QED BY <1>1, <1>2, <1>3, <1>4, <1>5, <1>6, <1>7, <1>8, <1>9, <1>10, <1>11, <1>12, <1>13, <1>14, <1>15, <1>16, <1>17, <1>18, <1>19, <1>20, AlterStatements

\* The statements left of an alteration that has come to number k.
LeftFrom(k, left, old, new) ==
    /\ "drop_fk" \in left <=> k <= 1 /\ old.rel
    /\ "drop_unique" \in left <=>
         k <= 2 /\ old.unique /\ (~new.unique \/ BecomesKey(old, new))
    /\ "drop_inbound" \in left <=> k <= 3 /\ KeyTypeChange(old, new)
    /\ "drop_index" \in left <=> k <= 4 /\ old.index /\ ~new.index /\ ~old.unique
    /\ "drop_check" \in left <=> k <= 5 /\ CheckChange(old, new) /\ old.check # "none"
    /\ "rename" \in left <=> k <= 6 /\ old.column # new.column
    /\ "alter_type" \in left <=> k <= 7 /\ TypeChange(old, new)
    /\ "add_default" \in left <=> k <= 8 /\ NeedsDatabaseDefault(old, new)
    /\ "alter_null" \in left <=>
         k <= 9 /\ NullAction(old, new) /\ ~FourWayDefaultAlteration(old, new)
    /\ "update_rows" \in left <=> k <= 10 /\ FourWayDefaultAlteration(old, new)
    /\ "alter_null_last" \in left <=>
         k <= 11 /\ NullAction(old, new) /\ FourWayDefaultAlteration(old, new)
    /\ "create_unique" \in left <=>
         k <= 12 /\ new.unique /\ (~old.unique \/ (old.pk /\ ~new.pk))
    /\ "create_index" \in left <=> k <= 13 /\ ~old.index /\ new.index /\ ~new.unique
    /\ "drop_pk" \in left <=> k <= 14 /\ BecomesKey(old, new)
    /\ "create_pk" \in left <=> k <= 15 /\ BecomesKey(old, new)
    /\ "alter_related" \in left <=>
         k <= 16 /\ (KeyTypeChange(old, new) \/ BecomesKey(old, new))
    /\ "create_fk" \in left <=> k <= 17 /\ new.rel
    /\ "rebuild_inbound" \in left <=> k <= 18 /\ KeyTypeChange(old, new)
    /\ "create_check" \in left <=> k <= 19 /\ CheckChange(old, new) /\ new.check # "none"
    /\ "drop_default" \in left <=> k <= 20 /\ NeedsDatabaseDefault(old, new)

(* AlterNeeds, statement by statement.                                         *)
LEMMA NeedsOfAlteration ==
  ASSUME NEW old, NEW new
  PROVE  /\ AlterNeeds("drop_fk", old, new) <=> old.rel
         /\ AlterNeeds("drop_unique", old, new) <=>
              old.unique /\ (~new.unique \/ BecomesKey(old, new))
         /\ AlterNeeds("drop_inbound", old, new) <=> KeyTypeChange(old, new)
         /\ AlterNeeds("drop_index", old, new) <=> old.index /\ ~new.index /\ ~old.unique
         /\ AlterNeeds("drop_check", old, new) <=> CheckChange(old, new) /\ old.check # "none"
         /\ AlterNeeds("rename", old, new) <=> old.column # new.column
         /\ AlterNeeds("alter_type", old, new) <=> TypeChange(old, new)
         /\ AlterNeeds("add_default", old, new) <=> NeedsDatabaseDefault(old, new)
         /\ AlterNeeds("alter_null", old, new) <=>
              NullAction(old, new) /\ ~FourWayDefaultAlteration(old, new)
         /\ AlterNeeds("update_rows", old, new) <=> FourWayDefaultAlteration(old, new)
         /\ AlterNeeds("alter_null_last", old, new) <=>
              NullAction(old, new) /\ FourWayDefaultAlteration(old, new)
         /\ AlterNeeds("create_unique", old, new) <=>
              new.unique /\ (~old.unique \/ (old.pk /\ ~new.pk))
         /\ AlterNeeds("create_index", old, new) <=> ~old.index /\ new.index /\ ~new.unique
         /\ AlterNeeds("drop_pk", old, new) <=> BecomesKey(old, new)
         /\ AlterNeeds("create_pk", old, new) <=> BecomesKey(old, new)
         /\ AlterNeeds("alter_related", old, new) <=>
              KeyTypeChange(old, new) \/ BecomesKey(old, new)
         /\ AlterNeeds("create_fk", old, new) <=> new.rel
         /\ AlterNeeds("rebuild_inbound", old, new) <=> KeyTypeChange(old, new)
         /\ AlterNeeds("create_check", old, new) <=> CheckChange(old, new) /\ new.check # "none"
         /\ AlterNeeds("drop_default", old, new) <=> NeedsDatabaseDefault(old, new)
  BY DEF AlterNeeds, RebuildInbound

(* AlterLeft and LeftFrom are the same.                                        *)
LEMMA LeftFromIs ==
  ASSUME NEW k \in 1..21, NEW left, NEW old, NEW new
  PROVE  LeftFrom(k, left, old, new) <=>
           \A i \in 1..20 : AlterPlan[i] \in left <=> k <= i /\ AlterNeeds(AlterPlan[i], old, new)
<1>1. ASSUME \A i \in 1..20 : AlterPlan[i] \in left <=> k <= i /\ AlterNeeds(AlterPlan[i], old, new)
      PROVE  LeftFrom(k, left, old, new)
  BY <1>1, AlterPlanIs, NeedsOfAlteration DEF LeftFrom
<1>2. ASSUME LeftFrom(k, left, old, new), NEW i \in 1..20
      PROVE  AlterPlan[i] \in left <=> k <= i /\ AlterNeeds(AlterPlan[i], old, new)
  BY <1>2, AlterPlanIs, NeedsOfAlteration DEF LeftFrom
<1> QED BY <1>1, <1>2

(* Where an alteration is, and the statement it executes there.                *)
LEMMA AlterPlace ==
  ASSUME op = "alter", AlterLeft
  PROVE  \E k \in 1..21 : LeftFrom(k, todo, field, target)
  BY LeftFromIs, AlterPlanIs DEF AlterLeft

LEMMA AlterCurrent ==
  ASSUME op = "alter", AlterLeft, NEW s, Current(s)
  PROVE  \E k \in 1..20 : AlterPlan[k] = s /\ LeftFrom(k, todo, field, target)
<1>1. PICK k \in 1..20 : /\ AlterPlan[k] = s /\ s \in todo
                         /\ \A j \in 1..(k - 1) : AlterPlan[j] \notin todo
  BY AlterPlanIs DEF Current, Plan
<1>2. PICK l \in 1..21 : \A i \in 1..20 :
        AlterPlan[i] \in todo <=> l <= i /\ AlterNeeds(AlterPlan[i], field, target)
  BY AlterPlanIs DEF AlterLeft
<1>3. ASSUME NEW i \in 1..20
      PROVE  AlterPlan[i] \in todo <=> k <= i /\ AlterNeeds(AlterPlan[i], field, target)
  <2>1. CASE i < k
    <3>1. i \in 1..(k - 1)
      BY <2>1
    <3> QED BY <1>1, <2>1, <3>1
  <2>2. CASE k <= i
    <3>1. l <= k
      BY <1>1, <1>2
    <3> QED BY <1>2, <2>2, <3>1
  <2> QED BY <2>1, <2>2
<1>4. LeftFrom(k, todo, field, target)
  BY <1>3, LeftFromIs
<1> QED BY <1>1, <1>4

(* The statements of the plan are different ones.                              *)
LEMMA AlterPlanInjective ==
  \A i, j \in 1..20 : AlterPlan[i] = AlterPlan[j] => i = j
  BY AlterPlanIs

(* After the statement at its place, an alteration has come to the next.       *)
LEMMA AlterLeftNext ==
  ASSUME op = "alter", AlterLeft, NEW s, Current(s), todo' = todo \ {s},
         UNCHANGED <<field, target>>
  PROVE  AlterLeft'
<1>1. PICK k \in 1..20 : AlterPlan[k] = s /\ LeftFrom(k, todo, field, target)
  BY AlterCurrent
<1>2. ASSUME NEW i \in 1..20
      PROVE  AlterPlan[i] \in todo' <=> k + 1 <= i /\ AlterNeeds(AlterPlan[i], field', target')
  <2>1. AlterPlan[i] \in todo <=> k <= i /\ AlterNeeds(AlterPlan[i], field, target)
    BY <1>1, LeftFromIs
  <2>2. AlterPlan[i] = s <=> i = k
    BY <1>1, AlterPlanInjective
  <2> QED BY <2>1, <2>2
<1>3. k + 1 \in 1..(Len(AlterPlan) + 1) /\ DOMAIN AlterPlan = 1..20
  BY AlterPlanIs
<1> QED BY <1>2, <1>3 DEF AlterLeft

(* What the server refuses.                                                    *)
LEMMA Refusals ==
  /\ Refused("rename") <=> cat.column # field.column
  /\ Refused("add_column") <=> cat.exists
  BY DEF Refused

LEMMA FieldType ==
  ASSUME NEW f \in Fields
  PROVE  /\ f.column \in {g.column : g \in Fields} /\ f.type \in {g.type : g \in Fields}
         /\ RelatedType(f.type) \in {RelatedType(g.type) : g \in Fields} \cup {"int"}
         /\ f.null \in BOOLEAN /\ f.unique \in BOOLEAN /\ f.pk \in BOOLEAN
         /\ f.index \in BOOLEAN /\ f.rel \in BOOLEAN
         /\ f.check \in {g.check : g \in Fields}
         /\ f.pk => f.unique /\ ~f.null
  BY FieldsAssumption

(* A statement of an alteration and its place.                                 *)
LEMMA AlterStatement ==
  ASSUME IInv, op = "alter", Statement
  PROVE  \E k \in 1..20, s \in ToSet(AlterPlan) :
           /\ AlterPlan[k] = s /\ LeftFrom(k, todo, field, target) /\ s \in todo
           /\ Execute(s)
           /\ UNCHANGED <<field, op, target, failures, failed, raised>>
           /\ AlterLeft'
           /\ field \in Fields /\ target \in Fields /\ cat \in Catalog
<1>1. PICK s \in todo : Current(s) /\ Execute(s)
  BY DEF Statement
<1>2. AlterLeft /\ todo \subseteq ToSet(AlterPlan) /\ field \in Fields /\ target \in Fields
        /\ cat \in Catalog
  BY DEF IInv, AlterInv, TypeOK
<1>3. PICK k \in 1..20 : AlterPlan[k] = s /\ LeftFrom(k, todo, field, target)
  BY <1>1, <1>2, AlterCurrent
<1>4. UNCHANGED <<field, op, target, failures, failed, raised>>
  BY DEF Statement
<1>5. AlterLeft'
  BY <1>1, <1>2, <1>4, AlterLeftNext DEF Execute
<1> QED BY <1>1, <1>2, <1>3, <1>4, <1>5

(* Wherever an alteration stops, it leaves alone what it does not change.      *)
LEMMA KeptNext ==
  ASSUME IInv, op = "alter", Statement
  PROVE  Kept(field, target)'
<1>1. PICK k \in 1..20, s \in ToSet(AlterPlan) :
        /\ AlterPlan[k] = s /\ LeftFrom(k, todo, field, target) /\ s \in todo
        /\ Execute(s)
        /\ UNCHANGED <<field, op, target, failures, failed, raised>>
        /\ AlterLeft'
        /\ field \in Fields /\ target \in Fields /\ cat \in Catalog
  BY AlterStatement
<1>2. Kept(field, target)
  BY DEF IInv, AlterInv
<1>3. CASE Skipped(s)
  BY <1>1, <1>2, <1>3 DEF Kept, CheckChange, Execute, TypeChange, KeyTypeChange, NullAction, BecomesKey, NeedsDatabaseDefault
<1>4. CASE ~Skipped(s)
  <2>1. cat' = Effect(s)
    BY <1>1, <1>4 DEF Execute
  <2>2. field' = field /\ target' = target
    BY <1>1
  <2>3. cat'.exists /\ cat'.column \in {field.column, target.column}
    BY <1>1, <1>2, <2>1, EffectOnCatalog DEF Kept
  <2>4. /\ ~TypeChange(field, target) => cat'.type = field.type
        /\ ~NullAction(field, target) => cat'.null = field.null
    BY <1>1, <1>2, <2>1, EffectOnCatalog DEF Kept, LeftFrom, NullAction, TypeChange
  <2>5. ~field.unique /\ ~target.unique => cat'.cons \cap Unique = {}
    BY <1>1, <1>2, <2>1, EffectOnConstraints, FieldType DEF Kept, LeftFrom, Unique, BecomesKey
  <2>6. field.unique /\ target.unique /\ ~BecomesKey(field, target) => cat'.cons \cap Unique # {}
    BY <1>1, <1>2, <2>1, EffectOnConstraints, FieldType DEF Kept, LeftFrom, Unique, BecomesKey
  <2>7. field.pk /\ target.pk => "pk" \in cat'.cons
    BY <1>1, <1>2, <2>1, EffectOnConstraints, FieldType DEF Kept, LeftFrom, BecomesKey
  <2>8. ~CheckChange(field, target) => cat'.check = field.check
    BY <1>1, <1>2, <2>1, EffectOnCatalog DEF Kept, LeftFrom
  <2>9. ~NeedsDatabaseDefault(field, target) => "default" \notin cat'.cons
    BY <1>1, <1>2, <2>1, EffectOnConstraints DEF Kept, LeftFrom
  <2>10. ~KeyTypeChange(field, target) => (cat'.related => cat'.relFk)
    BY <1>1, <1>2, <2>1, EffectOnCatalog DEF Kept, LeftFrom
  <2>11. field.pk /\ ~KeyTypeChange(field, target) => cat'.relType = RelatedType(field.type)
    BY <1>1, <1>2, <2>1, EffectOnCatalog DEF Kept, LeftFrom, BecomesKey
  <2> QED BY <2>2, <2>3, <2>4, <2>5, <2>6, <2>7, <2>8, <2>9, <2>10, <2>11
          DEF Kept, CheckChange, TypeChange, KeyTypeChange, NullAction, BecomesKey, NeedsDatabaseDefault, RelatedType
<1> QED BY <1>3, <1>4

(* What is behind of an alteration stays done.                                 *)
LEMMA AlteredNext ==
  ASSUME IInv, op = "alter", Statement
  PROVE  Altered(field, target)'
<1>1. PICK k \in 1..20, s \in ToSet(AlterPlan) :
        /\ AlterPlan[k] = s /\ LeftFrom(k, todo, field, target) /\ s \in todo
        /\ Execute(s)
        /\ UNCHANGED <<field, op, target, failures, failed, raised>>
        /\ AlterLeft'
        /\ field \in Fields /\ target \in Fields /\ cat \in Catalog
  BY AlterStatement
<1>2. Kept(field, target) /\ Altered(field, target)
  BY DEF IInv, AlterInv
<1>3. todo' = todo \ {s} /\ field' = field /\ target' = target
  BY <1>1 DEF Execute
<1>4. CASE Skipped(s)
  <2>1. s = "create_fk" /\ cat' = cat
    BY <1>1, <1>4 DEF Execute, Skipped
  <2> QED BY <1>2, <1>3, <2>1 DEF Altered, Renamed, BecomesKey, NeedsDatabaseDefault, RelatedType
<1>5. CASE ~Skipped(s)
  <2>1. cat' = Effect(s) /\ ~Refused(s)
    BY <1>1, <1>5 DEF Execute
  <2>2. "rename" \notin todo' => cat'.column = target.column
    BY <1>1, <1>2, <1>3, <2>1, EffectOnCatalog DEF Altered
  <2>3. "alter_type" \notin todo' => cat'.type = target.type
    BY <1>1, <1>2, <1>3, <2>1, EffectOnCatalog DEF Altered
  <2>4. {"alter_null", "alter_null_last"} \cap todo' = {} => cat'.null = target.null
    <3>1. CASE s = "alter_type"
      <4>1. k = 7 /\ NullAction(field, target)
        BY <1>1, <3>1, AlterPlanIs DEF LeftFrom, NullAction
      <4>2. "alter_null" \in todo \/ "alter_null_last" \in todo
        BY <1>1, <4>1 DEF LeftFrom
      <4> QED BY <1>3, <3>1, <4>2
    <3>2. CASE s \in {"alter_null", "alter_null_last"}
      BY <1>1, <2>1, <3>2, EffectOnCatalog
    <3>3. CASE s \notin {"alter_type", "alter_null", "alter_null_last"}
      <4>1. cat'.null = cat.null
        BY <1>1, <2>1, <3>3, EffectOnCatalog
      <4>2. {"alter_null", "alter_null_last"} \cap todo = {} => cat.null = target.null
        BY <1>2 DEF Altered
      <4>3. {"alter_null", "alter_null_last"} \cap todo'
              = {"alter_null", "alter_null_last"} \cap todo
        BY <1>3, <3>3
      <4> QED BY <4>1, <4>2, <4>3
    <3> QED BY <3>1, <3>2, <3>3
  <2>5. "drop_unique" \notin todo' /\ ~target.unique /\ ~Renamed(field)'
          => cat'.cons \cap Unique = {}
    <3>1. ASSUME "drop_unique" \notin todo', ~target.unique, ~Renamed(field)'
          PROVE  cat'.cons \cap Unique = {}
      <4>1. CASE s = "drop_unique"
        <5>1. k = 2
          BY <1>1, <4>1, AlterPlanIs
        <5>2. cat.column = field.column
          <6>1. "rename" \notin todo => field.column = target.column
            BY <1>1, <5>1 DEF LeftFrom
          <6>2. "rename" \in todo => cat'.column = field.column
            BY <1>3, <3>1, <4>1 DEF Renamed
          <6>3. cat'.column = cat.column
            BY <1>1, <2>1, <4>1, EffectOnCatalog
          <6> QED BY <1>2, <6>1, <6>2, <6>3 DEF Kept
        <5> QED BY <1>1, <2>1, <4>1, <5>2, EffectOnConstraints DEF Unique
      <4>2. CASE s # "drop_unique"
        <5>1. ~Renamed(field)
          BY <1>1, <1>3, <2>1, <3>1, EffectOnCatalog, Refusals DEF Renamed
        <5>2. cat.cons \cap Unique = {}
          BY <1>2, <1>3, <3>1, <4>2, <5>1 DEF Altered
        <5>3. s # "create_unique" /\ s # "create_pk"
          BY <1>1, <3>1, FieldType DEF LeftFrom, BecomesKey
        <5> QED BY <1>1, <2>1, <5>2, <5>3, EffectOnConstraints DEF Unique
      <4> QED BY <4>1, <4>2
    <3> QED BY <3>1
  <2>6. "create_unique" \notin todo' /\ target.unique /\ ~BecomesKey(field, target)
          => cat'.cons \cap Unique # {}
    BY <1>1, <1>2, <1>3, <2>1, AlterPlanIs, EffectOnConstraints, FieldType
       DEF Altered, LeftFrom, Unique, BecomesKey
  <2>7. "create_pk" \notin todo' /\ target.pk => "pk" \in cat'.cons
    BY <1>1, <1>2, <1>3, <2>1, AlterPlanIs, EffectOnConstraints, FieldType
       DEF Altered, LeftFrom, BecomesKey
  <2>8. "drop_check" \notin todo' /\ target.check = "none" /\ ~Renamed(field)' => cat'.check = "none"
    <3>1. ASSUME "drop_check" \notin todo', target.check = "none", ~Renamed(field)'
          PROVE  cat'.check = "none"
      <4>1. CASE s = "drop_check"
        <5>1. k = 5
          BY <1>1, <4>1, AlterPlanIs
        <5>2. cat.column = field.column
          <6>1. "rename" \notin todo => field.column = target.column
            BY <1>1, <5>1 DEF LeftFrom
          <6>2. "rename" \in todo => cat'.column = field.column
            BY <1>3, <3>1, <4>1 DEF Renamed
          <6>3. cat'.column = cat.column
            BY <1>1, <2>1, <4>1, EffectOnCatalog
          <6> QED BY <1>2, <6>1, <6>2, <6>3 DEF Kept
        <5> QED BY <1>1, <2>1, <4>1, <5>2, EffectOnCatalog
      <4>2. CASE s # "drop_check"
        <5>1. ~Renamed(field)
          BY <1>1, <1>3, <2>1, <3>1, EffectOnCatalog, Refusals DEF Renamed
        <5>2. cat.check = "none"
          BY <1>2, <1>3, <3>1, <4>2, <5>1 DEF Altered
        <5>3. s # "create_check"
          BY <1>1, <3>1 DEF LeftFrom
        <5> QED BY <1>1, <2>1, <5>2, <5>3, EffectOnCatalog
      <4> QED BY <4>1, <4>2
    <3> QED BY <3>1
  <2>9. "create_check" \notin todo' /\ target.check # "none" => cat'.check = target.check
    <3>1. CASE s = "drop_check"
      BY <1>1, <1>3, <3>1, AlterPlanIs DEF LeftFrom
    <3>2. CASE s # "drop_check"
      BY <1>1, <1>2, <1>3, <2>1, <3>2, EffectOnCatalog DEF Altered
    <3> QED BY <3>1, <3>2
  <2>10. "drop_default" \notin todo' => "default" \notin cat'.cons
    BY <1>1, <1>2, <1>3, <2>1, AlterPlanIs, EffectOnConstraints DEF Altered, LeftFrom
  <2>11. "add_default" \notin todo' /\ "drop_default" \in todo' => "default" \in cat'.cons
    BY <1>1, <1>2, <1>3, <2>1, EffectOnConstraints DEF Altered
  <2>12. "update_rows" \notin todo' /\ "alter_null_last" \in todo'
           /\ NeedsDatabaseDefault(field, target) => "left_out" \notin cat'.nullRows
    BY <1>1, <1>2, <1>3, <2>1, EffectOnCatalog DEF Altered
  <2>13. "rebuild_inbound" \notin todo' => (cat'.related => cat'.relFk)
    <3>1. CASE s = "drop_inbound"
      BY <1>1, <1>3, <3>1, AlterPlanIs DEF LeftFrom
    <3>2. CASE s # "drop_inbound"
      BY <1>1, <1>2, <1>3, <2>1, <3>2, EffectOnCatalog DEF Altered
    <3> QED BY <3>1, <3>2
  <2>14. "alter_related" \notin todo' /\ target.pk => cat'.relType = RelatedType(target.type)
    BY <1>1, <1>2, <1>3, <2>1, EffectOnCatalog DEF Altered
  <2> QED BY <1>3, <2>2, <2>3, <2>4, <2>5, <2>6, <2>7, <2>8, <2>9, <2>10, <2>11, <2>12, <2>13, <2>14
          DEF Altered, BecomesKey, NeedsDatabaseDefault, RelatedType, Renamed
<1> QED BY <1>4, <1>5

(* The column's own foreign key, while no operation has raised.                *)
LEMMA ForeignKeyNext ==
  ASSUME IInv, op = "alter", Statement, ~raised
  PROVE  ForeignKeyAltered(field, target)'
<1>1. PICK k \in 1..20, s \in ToSet(AlterPlan) :
        /\ AlterPlan[k] = s /\ LeftFrom(k, todo, field, target) /\ s \in todo
        /\ Execute(s)
        /\ UNCHANGED <<field, op, target, failures, failed, raised>>
        /\ AlterLeft'
        /\ field \in Fields /\ target \in Fields /\ cat \in Catalog
  BY AlterStatement
<1>2. ForeignKeyAltered(field, target)
  BY DEF IInv, AlterInv
<1>3. todo' = todo \ {s} /\ field' = field /\ target' = target
  BY <1>1 DEF Execute
<1>4. ~Skipped(s)
  <2> SUFFICES ASSUME Skipped(s) PROVE FALSE
    OBVIOUS
  <2>1. s = "create_fk" /\ ~CreateForeignKey(field, target)
    BY DEF Skipped
  <2>2. k = 17
    BY <1>1, <2>1, AlterPlanIs
  <2>3. target.rel /\ field.rel /\ ~fksDropped
    BY <1>1, <2>1 DEF CreateForeignKey, LeftFrom
  <2> QED BY <1>1, <1>2, <2>2, <2>3 DEF ForeignKeyAltered, LeftFrom
<1>5. cat' = Effect(s) /\ fksDropped' = (fksDropped \/ (s = "drop_fk" /\ Named({"fk"}) # {}))
  BY <1>1, <1>4 DEF Execute
<1>6. "rename" \in todo' => cat'.column = field.column
  BY <1>1, <1>2, <1>3, <1>5, EffectOnCatalog DEF ForeignKeyAltered
<1>7. "drop_fk" \in todo' => "fk" \in cat'.cons
  BY <1>1, <1>2, <1>3, <1>5, EffectOnConstraints DEF ForeignKeyAltered
<1>8. s = "drop_fk" => /\ k = 1 /\ cat.column = field.column
                       /\ "fk" \in cat.cons /\ "fk" \in Named({"fk"})
  <2> SUFFICES ASSUME s = "drop_fk"
               PROVE  /\ k = 1 /\ cat.column = field.column
                      /\ "fk" \in cat.cons /\ "fk" \in Named({"fk"})
    OBVIOUS
  <2>1. k = 1
    BY <1>1, AlterPlanIs
  <2>2. cat.column = field.column
    <3>1. "rename" \notin todo => field.column = target.column
      BY <1>1, <2>1 DEF LeftFrom
    <3>2. cat.column \in {field.column, target.column}
      BY DEF IInv, AlterInv, Kept
    <3> QED BY <1>2, <3>1, <3>2 DEF ForeignKeyAltered
  <2> QED BY <1>1, <1>2, <2>1, <2>2 DEF ForeignKeyAltered, Named
<1>9. "drop_fk" \notin todo' /\ field.rel => fksDropped'
  BY <1>1, <1>2, <1>3, <1>5, <1>8 DEF ForeignKeyAltered
<1>10. "drop_fk" \notin todo' /\ ("create_fk" \in todo' \/ ~target.rel) => "fk" \notin cat'.cons
  BY <1>1, <1>2, <1>3, <1>5, <1>8, EffectOnConstraints DEF ForeignKeyAltered, LeftFrom
<1>11. "create_fk" \notin todo' /\ target.rel => "fk" \in cat'.cons
  BY <1>1, <1>2, <1>3, <1>5, <1>8, EffectOnConstraints DEF ForeignKeyAltered, LeftFrom
<1> QED BY <1>3, <1>6, <1>7, <1>9, <1>10, <1>11 DEF ForeignKeyAltered

(* An alteration begins with all of the statements it needs.                   *)
LEMMA AlterBegins ==
  ASSUME IInv, NEW new \in Fields, Alter(new)
  PROVE  /\ op' = "alter" /\ target' = new
         /\ field \in Fields /\ cat \in Catalog
         /\ todo' \subseteq ToSet(AlterPlan)
         /\ AlterLeft'
         /\ LeftFrom(1, todo', field, new)
         /\ UNCHANGED <<field, cat, failures, failed, raised>>
         /\ op = "none" /\ (failed => new = target)
         /\ fksDropped' = FALSE
<1>1. /\ op' = "alter" /\ target' = new
      /\ todo' = {s \in ToSet(AlterPlan) : AlterNeeds(s, field, new)}
      /\ UNCHANGED <<field, cat, failures, failed, raised>>
      /\ op = "none" /\ (failed => new = target)
      /\ fksDropped' = FALSE
  BY DEF Alter, Begin
<1>2. field \in Fields /\ cat \in Catalog
  BY DEF IInv, TypeOK, Alter
<1>3. \A i \in 1..20 : AlterPlan[i] \in todo' <=> 1 <= i /\ AlterNeeds(AlterPlan[i], field, new)
  BY <1>1, AlterPlanIs DEF ToSet
<1>4. LeftFrom(1, todo', field, new)
  <2>1. 1 \in 1..21
    OBVIOUS
  <2> QED BY <1>3, <2>1, LeftFromIs
<1>5. AlterLeft'
  BY <1>1, <1>3, AlterPlanIs DEF AlterLeft
<1> QED BY <1>1, <1>2, <1>4, <1>5

LEMMA KeptAtBegin ==
  ASSUME IInv, NEW new \in Fields, Alter(new)
  PROVE  Kept(field, new)
<1>1. field \in Fields /\ op = "none" /\ (failed => new = target)
  BY AlterBegins
<1>2. field # Removed /\ new # Removed
  BY <1>1, RemovedAssumption
<1>3. CASE failed
  BY <1>1, <1>2, <1>3 DEF IInv, IdleInv
<1>4. CASE ~failed
  <2>1. ColumnMatches(field) /\ RelatedMatches(field)
    BY <1>1, <1>2, <1>4 DEF IInv, IdleInv
  <2> QED BY <1>1, <2>1, FieldType
          DEF Kept, CheckChange, ColumnMatches, RelatedMatches, Unique, BecomesKey, TypeChange, NullAction
<1> QED BY <1>3, <1>4

LEMMA AlteredAtBegin ==
  ASSUME IInv, NEW new \in Fields, Alter(new)
  PROVE  Altered(field, target)'
<1>1. /\ LeftFrom(1, todo', field, new) /\ target' = new /\ UNCHANGED <<field, cat>>
      /\ field \in Fields
  BY AlterBegins
<1>2. Kept(field, new)
  BY KeptAtBegin
<1>3. /\ "rename" \notin todo' => cat.column = new.column
      /\ "alter_type" \notin todo' => cat.type = new.type
      /\ {"alter_null", "alter_null_last"} \cap todo' = {} => cat.null = new.null
  BY <1>1, <1>2 DEF LeftFrom, Kept, NullAction, TypeChange
<1>4. /\ "drop_unique" \notin todo' /\ ~new.unique => cat.cons \cap Unique = {}
      /\ "create_unique" \notin todo' /\ new.unique /\ ~BecomesKey(field, new)
            => cat.cons \cap Unique # {}
      /\ "create_pk" \notin todo' /\ new.pk => "pk" \in cat.cons
  BY <1>1, <1>2, FieldType DEF LeftFrom, Kept, BecomesKey
<1>5. /\ "drop_check" \notin todo' /\ new.check = "none" => cat.check = "none"
      /\ "create_check" \notin todo' /\ new.check # "none" => cat.check = new.check
  BY <1>1, <1>2 DEF LeftFrom, Kept, CheckChange
<1>6. /\ "drop_default" \notin todo' => "default" \notin cat.cons
      /\ ~("add_default" \notin todo' /\ "drop_default" \in todo')
      /\ ~("update_rows" \notin todo' /\ "alter_null_last" \in todo')
  BY <1>1, <1>2 DEF LeftFrom, Kept
<1>7. /\ "rebuild_inbound" \notin todo' => (cat.related => cat.relFk)
      /\ "alter_related" \notin todo' /\ new.pk => cat.relType = RelatedType(new.type)
  BY <1>1, <1>2, FieldType DEF LeftFrom, Kept, KeyTypeChange, BecomesKey, TypeChange
<1> QED BY <1>1, <1>3, <1>4, <1>5, <1>6, <1>7
        DEF Altered, BecomesKey, NeedsDatabaseDefault, RelatedType

LEMMA ForeignKeyAtBegin ==
  ASSUME IInv, NEW new \in Fields, Alter(new), ~raised
  PROVE  ForeignKeyAltered(field, target)'
<1>1. /\ LeftFrom(1, todo', field, new) /\ target' = new /\ UNCHANGED <<field, cat>>
      /\ field \in Fields /\ op = "none"
  BY AlterBegins
<1>2. ~failed /\ field # Removed
  BY <1>1, RemovedAssumption DEF IInv, CatalogInv
<1>3. ColumnMatches(field) /\ ForeignKeyMatches(field)
  BY <1>1, <1>2 DEF IInv, IdleInv
<1> QED BY <1>1, <1>3, FieldType DEF ForeignKeyAltered, ForeignKeyMatches, ColumnMatches, LeftFrom

(* Every step keeps what holds of an alteration.                               *)
LEMMA AlterNext ==
  ASSUME IInv, Next
  PROVE  AlterInv'
<1>1. ASSUME NEW new \in Fields, Alter(new)
      PROVE  AlterInv'
  <2>1. /\ op' = "alter" /\ target' = new /\ field \in Fields
        /\ todo' \subseteq ToSet(AlterPlan) /\ AlterLeft'
        /\ UNCHANGED <<field, cat, failures, failed, raised>>
    BY <1>1, AlterBegins
  <2>2. Kept(field, new)
    BY <1>1, KeptAtBegin
  <2>3. Kept(field, target)'
    BY <2>1, <2>2 DEF Kept, CheckChange, TypeChange, NullAction, BecomesKey, NeedsDatabaseDefault,
                      KeyTypeChange, RelatedType
  <2>4. Altered(field, target)'
    BY <1>1, AlteredAtBegin
  <2>5. ~raised' => ForeignKeyAltered(field, target)'
    BY <1>1, <2>1, ForeignKeyAtBegin
  <2>6. field' # Removed /\ target' # Removed
    BY <2>1, RemovedAssumption
  <2> QED BY <2>1, <2>3, <2>4, <2>5, <2>6 DEF AlterInv
<1>2. CASE Statement /\ op = "alter"
  <2>1. PICK k \in 1..20, s \in ToSet(AlterPlan) :
          /\ Execute(s) /\ AlterLeft'
          /\ UNCHANGED <<field, op, target, failures, failed, raised>>
    BY <1>2, AlterStatement
  <2>2. Kept(field, target)' /\ Altered(field, target)'
    BY <1>2, KeptNext, AlteredNext
  <2>3. ~raised' => ForeignKeyAltered(field, target)'
    BY <1>2, <2>1, ForeignKeyNext
  <2>4. field' # Removed /\ target' # Removed /\ todo' \subseteq ToSet(AlterPlan)
    BY <1>2, <2>1 DEF IInv, AlterInv, Execute
  <2> QED BY <2>1, <2>2, <2>3, <2>4 DEF AlterInv
<1>3. ASSUME NEW source \in NullSources, WriteRow(source)
      PROVE  AlterInv'
  <2>1. /\ UNCHANGED <<field, op, target, todo, fksDropped, failures, failed, raised>>
        /\ cat' = [cat EXCEPT !.nullRows = @ \cup {source}]
        /\ source = "left_out" => "default" \notin cat.cons
        /\ cat \in Catalog
    BY <1>3 DEF WriteRow, IInv, TypeOK
  <2>2. /\ \A a \in DOMAIN cat : a # "nullRows" => cat'[a] = cat[a]
        /\ DOMAIN cat = {"exists", "column", "type", "null", "cons", "check", "nullRows",
                         "otherPk", "related", "relFk", "relType"}
        /\ cat'.nullRows = cat.nullRows \cup {source}
    BY <2>1 DEF Catalog
  <2> SUFFICES ASSUME op = "alter" PROVE AlterInv'
    BY <2>1 DEF AlterInv
  <2>3. AlterInv
    BY DEF IInv
  <2>4. Kept(field, target)'
    BY <2>1, <2>2, <2>3 DEF AlterInv, Kept, CheckChange, TypeChange, NullAction, BecomesKey,
          NeedsDatabaseDefault, KeyTypeChange, RelatedType
  <2>5. "update_rows" \notin todo /\ "alter_null_last" \in todo
          /\ NeedsDatabaseDefault(field, target) => source # "left_out"
    <3>1. PICK k \in 1..21 : LeftFrom(k, todo, field, target)
      BY <2>3, AlterPlace DEF AlterInv
    <3> QED BY <2>1, <2>3, <3>1 DEF AlterInv, Altered, LeftFrom
  <2>6. Altered(field, target)'
    BY <2>1, <2>2, <2>3, <2>5 DEF AlterInv, Altered, Renamed, BecomesKey, NeedsDatabaseDefault,
          RelatedType
  <2>7. ~raised' => ForeignKeyAltered(field, target)'
    BY <2>1, <2>2, <2>3 DEF AlterInv, ForeignKeyAltered
  <2>8. AlterLeft'
    BY <2>1, <2>3 DEF AlterInv, AlterLeft
  <2> QED BY <2>1, <2>3, <2>4, <2>6, <2>7, <2>8 DEF AlterInv
<1>4. CASE FillRows \/ Finish \/ Raise \/ RemoveField
  BY <1>4 DEF FillRows, Finish, Raise, RemoveField, Begin, Stop, AlterInv
<1>5. ASSUME NEW new \in Fields, AddField(new)
      PROVE  AlterInv'
  BY <1>5 DEF AddField, Begin, AlterInv
<1>6. CASE Statement /\ op # "alter"
  BY <1>6 DEF Statement, AlterInv
<1> QED BY <1>1, <1>2, <1>3, <1>4, <1>5, <1>6 DEF Next

(* The statements of an addition, and what they do.                            *)
LEMMA AddPlanIs ==
  /\ DOMAIN AddPlan = 1..4
  /\ AddPlan[1] = "add_column" /\ AddPlan[2] = "drop_default"
  /\ AddPlan[3] = "create_index" /\ AddPlan[4] = "create_fk"
  /\ ToSet(AddPlan) = {"add_column", "drop_default", "create_index", "create_fk"}
<1>1. /\ DOMAIN AddPlan = 1..4
      /\ AddPlan[1] = "add_column" /\ AddPlan[2] = "drop_default"
      /\ AddPlan[3] = "create_index" /\ AddPlan[4] = "create_fk"
  BY DEF AddPlan
<1> QED BY <1>1 DEF ToSet

LEMMA NeedsOfAddition ==
  ASSUME NEW new
  PROVE  /\ AddNeeds("add_column", new) /\ AddNeeds("drop_default", new)
         /\ AddNeeds("create_fk", new) <=> new.rel
  BY DEF AddNeeds

LEMMA AddEffects ==
  /\ Effect("add_column") = Added
  /\ Effect("drop_default") = Without({"default"})
  /\ Effect("create_index") = With({"index"})
  /\ Effect("create_fk") = With({"fk"})
  BY DEF Effect

LEMMA AddedIs ==
  ASSUME cat \in Catalog, target \in Fields
  PROVE  /\ Added \in Catalog
         /\ Added.exists = TRUE /\ Added.column = target.column /\ Added.type = target.type
         /\ Added.null = target.null /\ Added.relFk = cat.relFk /\ Added.related = cat.related
         /\ Added.cons \cap Unique = IF target.unique THEN {"unique"} ELSE {}
         /\ Added.check = target.check
         /\ "fk" \notin Added.cons
<1> DEFINE cons == If(target.default # "none", {"default"})
                   \cup If(target.unique, {"unique"})
           nulls == If(target.null, {"left_out"})
<1>1. /\ cons \in SUBSET Constraints
      /\ cons \cap Unique = IF target.unique THEN {"unique"} ELSE {}
      /\ "fk" \notin cons
      /\ nulls \in SUBSET NullSources
  BY FieldType DEF If, Constraints, Unique, NullSources
<1> HIDE DEF cons, nulls
<1>2. /\ target.column \in {g.column : g \in Fields} /\ target.type \in {g.type : g \in Fields}
      /\ target.null \in BOOLEAN /\ target.check \in {g.check : g \in Fields}
  BY FieldType
<1>3. Added = [exists |-> TRUE, column |-> target.column, type |-> target.type,
               null |-> target.null, cons |-> cons, check |-> target.check, nullRows |-> nulls,
               otherPk |-> cat.otherPk, related |-> cat.related, relFk |-> cat.relFk,
               relType |-> cat.relType]
  BY DEF Added, cons, nulls
<1>4. /\ cat.otherPk \in BOOLEAN /\ cat.related \in BOOLEAN /\ cat.relFk \in BOOLEAN
      /\ cat.relType \in {RelatedType(g.type) : g \in Fields} \cup {"int"}
  BY DEF Catalog
<1> QED BY <1>1, <1>2, <1>3, <1>4 DEF Catalog

(* Every step keeps what holds of an addition: the new column is as its        *)
(* definition says from the first statement on.                                *)
LEMMA AddStatement ==
  ASSUME IInv, op = "add", Statement
  PROVE  AddInv'
<1>1. PICK s \in todo : Current(s) /\ Execute(s)
  BY DEF Statement
<1>2. /\ field = Removed /\ target \in Fields /\ target # Removed /\ ~target.pk
      /\ todo \subseteq ToSet(AddPlan) /\ cat \in Catalog
      /\ "add_column" \in todo => todo = {r \in ToSet(AddPlan) : AddNeeds(r, target)}
  BY DEF IInv, AddInv, TypeOK
<1>3. /\ cat' = Effect(s) /\ ~Refused(s) /\ todo' = todo \ {s}
      /\ UNCHANGED <<field, op, target>>
  BY <1>1 DEF Execute, Skipped, Statement
<1>4. s # "add_column" => "add_column" \notin todo
  <2> SUFFICES ASSUME s # "add_column" PROVE "add_column" \notin todo
    OBVIOUS
  <2>1. PICK i \in 1..4 : AddPlan[i] = s /\ \A j \in 1..(i - 1) : AddPlan[j] \notin todo
    BY <1>1, AddPlanIs DEF Current, Plan
  <2>2. i # 1 /\ 1 \in 1..(i - 1)
    BY <2>1, AddPlanIs
  <2> QED BY <2>1, <2>2, AddPlanIs
<1>5. "add_column" \notin todo' /\ ("create_fk" \in todo' => target.rel)
  BY <1>3, <1>4 DEF IInv, AddInv
<1>6. CASE s = "add_column"
  <2>1. /\ cat'.exists /\ cat'.column = target.column /\ cat'.type = target.type
        /\ cat'.null = target.null
        /\ cat'.cons \cap Unique = IF target.unique THEN {"unique"} ELSE {}
        /\ cat'.check = target.check
        /\ "fk" \notin cat'.cons
    BY <1>2, <1>3, <1>6, AddEffects, AddedIs
  <2>2. "drop_default" \in todo' /\ (target.rel => "create_fk" \in todo')
    BY <1>1, <1>2, <1>3, <1>6, AddPlanIs, NeedsOfAddition
  <2> QED BY <1>2, <1>3, <1>5, <2>1, <2>2 DEF AddInv
<1>7. CASE s # "add_column"
  <2>1. /\ cat.exists
        /\ cat.column = target.column /\ cat.type = target.type /\ cat.null = target.null
        /\ cat.cons \cap Unique = IF target.unique THEN {"unique"} ELSE {}
        /\ cat.check = target.check
        /\ "drop_default" \notin todo => "default" \notin cat.cons
        /\ target.rel /\ "create_fk" \notin todo <=> "fk" \in cat.cons
    BY <1>4, <1>7 DEF IInv, AddInv
  <2>2. s \in {"drop_default", "create_index", "create_fk"}
    BY <1>2, <1>7, AddPlanIs
  <2>3. /\ cat'.exists = cat.exists /\ cat'.column = cat.column /\ cat'.type = cat.type
        /\ cat'.null = cat.null /\ cat'.check = cat.check
        /\ cat'.cons = IF s = "drop_default" THEN cat.cons \ {"default"}
                       ELSE IF s = "create_index" THEN cat.cons \cup {"index"}
                       ELSE cat.cons \cup {"fk"}
    BY <1>2, <1>3, <2>2, AddEffects DEF Catalog, With, Without
  <2>4. cat'.cons \cap Unique = cat.cons \cap Unique
    BY <2>2, <2>3 DEF Unique
  <2>5. "drop_default" \notin todo' => "default" \notin cat'.cons
    BY <1>3, <2>1, <2>2, <2>3
  <2>6. s = "create_fk" => target.rel
    BY <1>1 DEF IInv, AddInv
  <2>7. target.rel /\ "create_fk" \notin todo' <=> "fk" \in cat'.cons
    BY <1>3, <2>1, <2>2, <2>3, <2>6
  <2> QED BY <1>2, <1>3, <1>5, <2>1, <2>3, <2>4, <2>5, <2>7 DEF AddInv
<1> QED BY <1>6, <1>7

LEMMA AddNext ==
  ASSUME IInv, Next
  PROVE  AddInv'
<1>1. ASSUME NEW new \in Fields, AddField(new)
      PROVE  AddInv'
  <2>1. /\ target' = new /\ field' = Removed /\ ~new.pk /\ op' = "add"
        /\ todo' = {s \in ToSet(AddPlan) : AddNeeds(s, new)}
    BY <1>1 DEF AddField, Begin
  <2>2. "add_column" \in todo' /\ ("create_fk" \in todo' => new.rel)
    BY <2>1, AddPlanIs, NeedsOfAddition
  <2>3. new # Removed
    BY RemovedAssumption
  <2>4. todo' = {s \in ToSet(AddPlan) : AddNeeds(s, target')}
    BY <2>1
  <2> QED BY <2>1, <2>2, <2>3, <2>4 DEF AddInv, AddNeeds
<1>2. CASE Statement /\ op = "add"
  BY <1>2, AddStatement
<1>3. ASSUME NEW source \in NullSources, WriteRow(source)
      PROVE  AddInv'
  <2>1. /\ UNCHANGED <<field, op, target, todo, fksDropped, failures, failed, raised>>
        /\ cat' = [cat EXCEPT !.nullRows = @ \cup {source}] /\ cat \in Catalog
    BY <1>3 DEF WriteRow, IInv, TypeOK
  <2>2. /\ cat'.exists = cat.exists /\ cat'.column = cat.column /\ cat'.type = cat.type
        /\ cat'.null = cat.null /\ cat'.cons = cat.cons /\ cat'.check = cat.check
    BY <2>1 DEF Catalog
  <2> QED BY <2>1, <2>2 DEF IInv, AddInv, AddNeeds
<1>4. CASE FillRows \/ Finish \/ Raise \/ RemoveField
  BY <1>4 DEF FillRows, Finish, Raise, RemoveField, Begin, Stop, AddInv
<1>5. ASSUME NEW new \in Fields, Alter(new)
      PROVE  AddInv'
  BY <1>5 DEF Alter, Begin, AddInv
<1>6. CASE Statement /\ op # "add"
  BY <1>6 DEF Statement, AddInv
<1> QED BY <1>1, <1>2, <1>3, <1>4, <1>5, <1>6 DEF Next

(* The statements of a removal, and what they do.                              *)
LEMMA RemovePlanIs ==
  ToSet(RemovePlan) = {"drop_fk", "drop_column_pk", "drop_index", "drop_column_unique",
                       "drop_check", "drop_column"}
<1>1. /\ DOMAIN RemovePlan = 1..6
      /\ RemovePlan[1] = "drop_fk" /\ RemovePlan[2] = "drop_column_pk"
      /\ RemovePlan[3] = "drop_index" /\ RemovePlan[4] = "drop_column_unique"
      /\ RemovePlan[5] = "drop_check" /\ RemovePlan[6] = "drop_column"
  BY DEF RemovePlan
<1> QED BY <1>1 DEF ToSet

LEMMA RemoveEffects ==
  /\ Effect("drop_fk") = Without(Named({"fk"}))
  /\ Effect("drop_column_pk") = Without(KeyNames)
  /\ Effect("drop_index") = Without(IndexNames)
  /\ Effect("drop_column_unique") = Without(Named({"unique"}))
  /\ Effect("drop_check") = CheckDropped
  /\ Effect("drop_column") = [cat EXCEPT !.exists = FALSE, !.nullRows = {}]
  BY DEF Effect

LEMMA WithoutWith ==
  ASSUME cat \in Catalog, NEW c
  PROVE  /\ Without(c) \in Catalog /\ Without(c).relFk = cat.relFk
         /\ Without(c).related = cat.related
         /\ c \in SUBSET Constraints => With(c) \in Catalog
         /\ With(c).relFk = cat.relFk /\ With(c).related = cat.related
  BY DEF Catalog, With, Without

LEMMA CheckDroppedIs ==
  ASSUME cat \in Catalog
  PROVE  /\ CheckDropped \in Catalog /\ CheckDropped.relFk = cat.relFk
         /\ CheckDropped.related = cat.related
  BY DEF Catalog, CheckDropped

LEMMA EffectOfRemoval ==
  ASSUME cat \in Catalog, NEW s \in ToSet(RemovePlan)
  PROVE  /\ Effect(s) \in Catalog
         /\ Effect(s).relFk = cat.relFk /\ Effect(s).related = cat.related
<1>1. CASE s \notin {"drop_check", "drop_column"}
  <2>1. PICK c : Effect(s) = Without(c)
    BY <1>1, RemovePlanIs, RemoveEffects
  <2> QED BY <2>1, WithoutWith
<1>2. CASE s = "drop_column"
  <2> DEFINE gone == [cat EXCEPT !.exists = FALSE]
  <2>1. gone \in Catalog /\ gone.relFk = cat.relFk /\ gone.related = cat.related
    BY DEF Catalog
  <2>2. Effect(s) = [gone EXCEPT !.nullRows = {}]
    BY <1>2, RemoveEffects
  <2> HIDE DEF gone
  <2> QED BY <2>1, <2>2 DEF Catalog
<1>3. CASE s = "drop_check"
  BY <1>3, RemoveEffects, CheckDroppedIs
<1> QED BY <1>1, <1>2, <1>3

LEMMA EffectOfAddition ==
  ASSUME cat \in Catalog, target \in Fields, NEW s \in ToSet(AddPlan)
  PROVE  /\ Effect(s) \in Catalog
         /\ Effect(s).relFk = cat.relFk /\ Effect(s).related = cat.related
<1>1. CASE s # "add_column"
  <2>1. /\ {"default"} \in SUBSET Constraints /\ {"index"} \in SUBSET Constraints
        /\ {"fk"} \in SUBSET Constraints
    BY DEF Constraints
  <2> QED BY <1>1, <2>1, AddPlanIs, AddEffects, WithoutWith
<1>2. CASE s = "add_column"
  BY <1>2, AddEffects, AddedIs
<1> QED BY <1>1, <1>2

LEMMA EffectOfAlteration ==
  ASSUME cat \in Catalog, target \in Fields, NEW s \in ToSet(AlterPlan)
  PROVE  Effect(s) \in Catalog
<1>1. CASE s \in {"drop_fk", "drop_unique", "drop_index", "drop_default"}
  BY <1>1, AlterEffects, WithoutWith
<1>2. CASE s \in {"add_default", "create_unique", "create_index", "create_pk", "create_fk"}
  <2>1. \A c \in Constraints : {c} \in SUBSET Constraints
    OBVIOUS
  <2> QED BY <1>2, <2>1, AlterEffects, WithoutWith DEF Constraints
<1>3. CASE s \in {"drop_inbound", "update_rows", "rebuild_inbound", "rename", "alter_related"}
  <2>1. /\ [cat EXCEPT !.relFk = FALSE] \in Catalog /\ [cat EXCEPT !.nullRows = {}] \in Catalog
        /\ [cat EXCEPT !.relFk = TRUE] \in Catalog
    BY DEF Catalog
  <2>2. [cat EXCEPT !.column = target.column] \in Catalog
    BY FieldType DEF Catalog
  <2> DEFINE relType == RelatedType(target.type)
  <2>3. relType \in {RelatedType(g.type) : g \in Fields} \cup {"int"}
    BY FieldType
  <2> HIDE DEF relType
  <2>4. [cat EXCEPT !.relType = relType] \in Catalog
    BY <2>3 DEF Catalog
  <2> QED BY <1>3, <2>1, <2>2, <2>4, AlterEffects DEF relType
<1>4. CASE s \in {"alter_type", "alter_null", "alter_null_last"}
  <2>1. target.type \in {g.type : g \in Fields} /\ target.null \in BOOLEAN
    BY FieldType
  <2> DEFINE typed == [cat EXCEPT !.type = target.type]
  <2>2. typed \in Catalog
    BY <2>1 DEF Catalog
  <2>3. Effect(s) = [typed EXCEPT !.null = TRUE] \/ Effect(s) = [typed EXCEPT !.null = target.null]
    BY <1>4, AlterEffects
  <2> HIDE DEF typed
  <2> QED BY <2>1, <2>2, <2>3 DEF Catalog
<1>5. CASE s = "drop_pk"
  <2>1. Without({"pk"}) \in Catalog
    BY WithoutWith
  <2>2. [Without({"pk"}) EXCEPT !.otherPk = FALSE] \in Catalog
    BY <2>1 DEF Catalog
  <2> QED BY <1>5, <2>2, AlterEffects
<1>6. CASE s = "drop_check"
  BY <1>6, AlterEffects, CheckDroppedIs
<1>7. CASE s = "create_check"
  <2>1. [cat EXCEPT !.check = target.check] \in Catalog
    BY FieldType DEF Catalog
  <2> QED BY <1>7, <2>1, AlterEffects
<1> QED BY <1>1, <1>2, <1>3, <1>4, <1>5, <1>6, <1>7, AlterStatements

(* Every step keeps the types.                                                 *)
LEMMA PlanStatements ==
  /\ ToSet(AlterPlan) \subseteq Statements /\ ToSet(AddPlan) \subseteq Statements
  /\ ToSet(RemovePlan) \subseteq Statements
  BY DEF Statements

LEMMA TypeNext ==
  ASSUME IInv, Next
  PROVE  TypeOK'
<1>1. TypeOK
  BY DEF IInv
<1>2. ASSUME NEW new \in Fields, Alter(new) \/ AddField(new)
      PROVE  TypeOK'
  BY <1>1, <1>2, PlanStatements DEF TypeOK, Alter, AddField, Begin
<1>3. CASE RemoveField
  BY <1>1, <1>3, PlanStatements DEF TypeOK, RemoveField, Begin
<1>4. CASE Statement
  <2>1. PICK s \in todo : Execute(s)
    BY <1>4 DEF Statement
  <2>2. op \in {"alter", "add", "remove"} /\ cat \in Catalog
    BY <1>1, <1>4 DEF TypeOK, Statement
  <2>3. Effect(s) \in Catalog
    <3>1. CASE op = "alter"
      BY <1>1, <2>1, <2>2, <3>1, EffectOfAlteration DEF IInv, AlterInv, TypeOK
    <3>2. CASE op = "add"
      BY <1>1, <2>1, <2>2, <3>2, EffectOfAddition DEF IInv, AddInv, TypeOK
    <3>3. CASE op = "remove"
      BY <2>1, <2>2, <3>3, EffectOfRemoval DEF IInv, RemoveInv
    <3> QED BY <2>2, <3>1, <3>2, <3>3
  <2>4. cat' \in Catalog /\ fksDropped' \in BOOLEAN /\ todo' \subseteq Statements
    BY <1>1, <2>1, <2>2, <2>3 DEF Execute, TypeOK
  <2> QED BY <1>1, <1>4, <2>4 DEF TypeOK, Statement
<1>5. CASE Raise
  <2>1. failures' \in 0..MaxFailures
    BY <1>1, <1>5, MaxFailuresAssumption DEF Raise, TypeOK
  <2> QED BY <1>1, <1>5, <2>1 DEF TypeOK, Raise, Stop
<1>6. CASE Finish
  BY <1>1, <1>6 DEF TypeOK, Finish, Stop
<1>7. CASE (\E source \in NullSources : WriteRow(source)) \/ FillRows
  <2>1. cat' \in Catalog
    BY <1>1, <1>7 DEF TypeOK, Catalog, WriteRow, FillRows
  <2> QED BY <1>1, <1>7, <2>1 DEF TypeOK, WriteRow, FillRows
<1> QED BY <1>2, <1>3, <1>4, <1>5, <1>6, <1>7 DEF Next

(* An operation that ends has made the column what its definition says.        *)
LEMMA FinishMatches ==
  ASSUME IInv, Finish, field' # Removed
  PROVE  /\ ColumnMatches(target) /\ RelatedMatches(target)
         /\ ~raised => ForeignKeyMatches(target)
<1>1. /\ target \in Fields /\ target # Removed /\ todo = {}
      /\ op \in {"alter", "add", "remove"} /\ cat \in Catalog
  BY DEF Finish, IInv, TypeOK
<1>2. CASE op = "alter"
  <2>1. Kept(field, target) /\ Altered(field, target) /\ field \in Fields
    BY <1>1, <1>2 DEF IInv, AlterInv, TypeOK
  <2>2. ~Renamed(field)
    BY <1>1 DEF Renamed
  <2>3. /\ cat.exists /\ cat.column = target.column /\ cat.type = target.type
        /\ cat.null = target.null
    BY <1>1, <2>1 DEF Kept, Altered
  <2>4. /\ target.unique <=> cat.cons \cap Unique # {}
        /\ target.pk => "pk" \in cat.cons
    BY <1>1, <2>1, <2>2, FieldType DEF Altered, BecomesKey, Unique
  <2>5. cat.check = target.check /\ "default" \notin cat.cons
    BY <1>1, <2>1, <2>2 DEF Altered
  <2>6. (cat.related => cat.relFk) /\ (target.pk => cat.relType = RelatedType(target.type))
    BY <1>1, <2>1 DEF Altered
  <2>7. ~raised => ForeignKeyMatches(target)
    BY <1>1, <1>2, FieldType DEF IInv, AlterInv, ForeignKeyAltered, ForeignKeyMatches
  <2> QED BY <2>3, <2>4, <2>5, <2>6, <2>7 DEF ColumnMatches, RelatedMatches, Unique
<1>3. CASE op = "add"
  <2>1. /\ cat.exists
        /\ cat.column = target.column /\ cat.type = target.type /\ cat.null = target.null
        /\ cat.cons \cap Unique = IF target.unique THEN {"unique"} ELSE {}
        /\ cat.check = target.check
        /\ "default" \notin cat.cons
        /\ target.rel <=> "fk" \in cat.cons
        /\ ~target.pk /\ field = Removed
    BY <1>1, <1>3 DEF IInv, AddInv
  <2>2. cat.related => cat.relFk
    BY <2>1 DEF IInv, CatalogInv
  <2>3. target.unique <=> cat.cons \cap Unique # {}
    BY <1>1, <2>1, FieldType
  <2> QED BY <2>1, <2>2, <2>3
          DEF ColumnMatches, RelatedMatches, ForeignKeyMatches, Unique
<1>4. CASE op = "remove"
  BY <1>1, <1>4 DEF IInv, RemoveInv
<1> QED BY <1>1, <1>2, <1>3, <1>4

(* Every step keeps what holds between operations.                             *)
LEMMA IdleNext ==
  ASSUME IInv, Next
  PROVE  IdleInv'
<1>1. ASSUME NEW new \in Fields, Alter(new) \/ AddField(new)
      PROVE  IdleInv'
  BY <1>1 DEF Alter, AddField, Begin, IdleInv
<1>2. CASE RemoveField
  BY <1>2 DEF RemoveField, Begin, IdleInv
<1>3. CASE Statement
  BY <1>3 DEF Statement, IdleInv
<1>4. CASE Raise
  <2>1. /\ op' = "none" /\ todo' = {} /\ failed' = TRUE /\ raised' = TRUE
        /\ UNCHANGED <<field, target, cat>> /\ op \in {"alter", "add", "remove"}
    BY <1>4 DEF Raise, Stop, IInv, TypeOK
  <2>2. field # Removed /\ target # Removed => Kept(field, target)
    BY <2>1 DEF IInv, AlterInv, AddInv, RemoveInv
  <2>3. field' # Removed /\ target' # Removed => Kept(field, target)'
    BY <2>1, <2>2 DEF Kept, CheckChange, TypeChange, NullAction, BecomesKey, NeedsDatabaseDefault,
                      KeyTypeChange, RelatedType
  <2> QED BY <2>1, <2>3 DEF IdleInv
<1>5. CASE Finish
  <2>1. /\ op' = "none" /\ todo' = {} /\ failed' = FALSE /\ field' = target
        /\ UNCHANGED <<target, cat, raised>>
    BY <1>5 DEF Finish, Stop
  <2> SUFFICES ASSUME field' # Removed PROVE IdleInv'
    BY <2>1 DEF IdleInv
  <2>2. /\ ColumnMatches(target) /\ RelatedMatches(target)
        /\ ~raised => ForeignKeyMatches(target)
    BY <1>5, FinishMatches
  <2>3. /\ ColumnMatches(field)' /\ RelatedMatches(field)'
        /\ ~raised' => ForeignKeyMatches(field)'
    BY <2>1, <2>2 DEF ColumnMatches, RelatedMatches, ForeignKeyMatches, RelatedType
  <2> QED BY <2>1, <2>3 DEF IdleInv
<1>6. CASE (\E source \in NullSources : WriteRow(source)) \/ FillRows
  <2>1. /\ UNCHANGED <<field, op, target, todo, failed, raised>> /\ cat \in Catalog
        /\ \E nulls : cat' = [cat EXCEPT !.nullRows = nulls]
    BY <1>6 DEF WriteRow, FillRows, IInv, TypeOK
  <2>2. /\ cat'.exists = cat.exists /\ cat'.column = cat.column /\ cat'.type = cat.type
        /\ cat'.null = cat.null /\ cat'.cons = cat.cons /\ cat'.related = cat.related
        /\ cat'.relFk = cat.relFk /\ cat'.relType = cat.relType /\ cat'.check = cat.check
    BY <2>1 DEF Catalog
  <2>3. IdleInv
    BY DEF IInv
  <2>4. Kept(field, target)' <=> Kept(field, target)
    BY <2>1, <2>2 DEF Kept, CheckChange, TypeChange, NullAction, BecomesKey, NeedsDatabaseDefault,
                      KeyTypeChange, RelatedType
  <2>5. /\ ColumnMatches(field)' <=> ColumnMatches(field)
        /\ RelatedMatches(field)' <=> RelatedMatches(field)
        /\ ForeignKeyMatches(field)' <=> ForeignKeyMatches(field)
    BY <2>1, <2>2 DEF ColumnMatches, RelatedMatches, ForeignKeyMatches, RelatedType
  <2> QED BY <2>1, <2>3, <2>4, <2>5 DEF IdleInv
<1> QED BY <1>1, <1>2, <1>3, <1>4, <1>5, <1>6 DEF Next

LEMMA RemoveNext ==
  ASSUME IInv, Next
  PROVE  RemoveInv'
<1>1. ASSUME NEW new \in Fields, Alter(new) \/ AddField(new)
      PROVE  RemoveInv'
  BY <1>1 DEF Alter, AddField, Begin, RemoveInv
<1>2. CASE RemoveField
  BY <1>2 DEF RemoveField, Begin, RemoveInv
<1>3. CASE Statement
  BY <1>3 DEF Statement, Execute, IInv, RemoveInv
<1>4. CASE Raise \/ Finish \/ (\E source \in NullSources : WriteRow(source)) \/ FillRows
  BY <1>4 DEF Raise, Finish, Stop, WriteRow, FillRows, IInv, RemoveInv
<1> QED BY <1>1, <1>2, <1>3, <1>4 DEF Next

(* Only an alteration drops the foreign key of the related column.             *)
LEMMA CatalogNext ==
  ASSUME IInv, Next
  PROVE  CatalogInv'
<1>1. CatalogInv /\ TypeOK
  BY DEF IInv
<1>2. ASSUME NEW new \in Fields, Alter(new) \/ AddField(new)
      PROVE  CatalogInv'
  BY <1>1, <1>2, RemovedAssumption DEF Alter, AddField, Begin, CatalogInv
<1>3. CASE RemoveField
  <2>1. cat.related => cat.relFk
    <3>1. CASE failed
      BY <1>1, <1>3, <3>1 DEF RemoveField, Begin, CatalogInv
    <3>2. CASE ~failed
      BY <1>3, <3>2 DEF RemoveField, Begin, IInv, IdleInv, RelatedMatches
    <3> QED BY <3>1, <3>2
  <2> QED BY <1>1, <1>3, <2>1 DEF RemoveField, Begin, CatalogInv
<1>4. CASE Statement
  <2>1. PICK s \in todo : Execute(s)
    BY <1>4 DEF Statement
  <2>2. UNCHANGED <<field, target, failed, raised>> /\ op \in {"alter", "add", "remove"}
    BY <1>1, <1>4 DEF Statement, TypeOK
  <2>3. CASE op = "alter"
    BY <1>1, <2>2, <2>3 DEF IInv, AlterInv, CatalogInv
  <2>4. CASE op \in {"add", "remove"}
    <3>1. Effect(s).relFk = cat.relFk /\ Effect(s).related = cat.related
      <4>1. CASE op = "add"
        BY <1>1, <2>1, <4>1, EffectOfAddition DEF IInv, AddInv, TypeOK
      <4>2. CASE op = "remove"
        BY <1>1, <2>1, <4>2, EffectOfRemoval DEF IInv, RemoveInv, TypeOK
      <4> QED BY <2>4, <4>1, <4>2
    <3>2. cat'.relFk = cat.relFk /\ cat'.related = cat.related
      BY <2>1, <3>1 DEF Execute
    <3> QED BY <1>1, <2>2, <3>2 DEF CatalogInv
  <2> QED BY <2>2, <2>3, <2>4
<1>5. CASE Raise
  BY <1>1, <1>5 DEF Raise, Stop, CatalogInv
<1>6. CASE Finish
  BY <1>1, <1>6 DEF Finish, Stop, CatalogInv
<1>7. CASE (\E source \in NullSources : WriteRow(source)) \/ FillRows
  <2>1. cat'.relFk = cat.relFk /\ cat'.related = cat.related
    BY <1>1, <1>7 DEF WriteRow, FillRows, TypeOK, Catalog
  <2> QED BY <1>1, <1>7, <2>1 DEF WriteRow, FillRows, CatalogInv
<1> QED BY <1>2, <1>3, <1>4, <1>5, <1>6, <1>7 DEF Next

(* The catalog of create_model is what the definition says.                    *)
LEMMA CreatedMatches ==
  ASSUME field \in Fields, NEW related \in BOOLEAN, cat = Created(field, related)
  PROVE  /\ cat \in Catalog
         /\ ColumnMatches(field) /\ RelatedMatches(field) /\ ForeignKeyMatches(field)
<1> DEFINE key == IF field.pk THEN {"pk"} ELSE IF field.unique THEN {"unique"} ELSE {}
           index == IF field.index /\ ~field.unique THEN {"index"} ELSE {}
           fk == IF field.rel THEN {"fk"} ELSE {}
           cons == key \cup index \cup fk
           relType == RelatedType(IF field.pk THEN field.type ELSE "int")
<1>1. /\ cons \in SUBSET Constraints
      /\ field.unique <=> cons \cap {"unique", "pk"} # {}
      /\ field.pk => "pk" \in cons
      /\ field.rel <=> "fk" \in cons
      /\ "default" \notin cons
  BY FieldType DEF Constraints
<1>2. /\ relType \in {RelatedType(g.type) : g \in Fields} \cup {"int"}
      /\ field.pk => relType = RelatedType(field.type)
  BY FieldType DEF RelatedType
<1>3. cat = [exists |-> TRUE, column |-> field.column, type |-> field.type, null |-> field.null,
             cons |-> cons, check |-> field.check, nullRows |-> {}, otherPk |-> ~field.pk,
             related |-> related, relFk |-> related, relType |-> relType]
  BY DEF Created
<1> HIDE DEF cons, relType
<1>4. /\ field.column \in {g.column : g \in Fields} /\ field.type \in {g.type : g \in Fields}
      /\ field.null \in BOOLEAN /\ field.pk \in BOOLEAN /\ field.check \in {g.check : g \in Fields}
  BY FieldType
<1>5. cat \in Catalog
  BY <1>1, <1>2, <1>3, <1>4 DEF Catalog
<1> QED BY <1>1, <1>2, <1>3, <1>5 DEF ColumnMatches, RelatedMatches, ForeignKeyMatches

LEMMA InitInv == Init => IInv
<1> SUFFICES ASSUME Init PROVE IInv
  OBVIOUS
<1>1. field \in Fields /\ field # Removed /\ op = "none" /\ target = field /\ todo = {}
        /\ ~failed /\ ~raised
  BY RemovedAssumption DEF Init
<1>2. PICK related \in BOOLEAN : cat = Created(field, related)
  BY DEF Init
<1>3. /\ cat \in Catalog
      /\ ColumnMatches(field) /\ RelatedMatches(field) /\ ForeignKeyMatches(field)
  BY <1>1, <1>2, CreatedMatches
<1>4. TypeOK
  <2>1. failures \in 0..MaxFailures
    BY MaxFailuresAssumption DEF Init
  <2>2. fksDropped \in BOOLEAN /\ failed \in BOOLEAN /\ raised \in BOOLEAN
    BY DEF Init
  <2>3. todo \subseteq Statements
    BY <1>1
  <2> QED BY <1>1, <1>3, <2>1, <2>2, <2>3 DEF TypeOK
<1> QED BY <1>1, <1>3, <1>4 DEF IInv, IdleInv, AlterInv, AddInv, RemoveInv, CatalogInv

LEMMA NextInv == IInv /\ [Next]_vars => IInv'
<1> SUFFICES ASSUME IInv, [Next]_vars PROVE IInv'
  OBVIOUS
<1>1. CASE Next
  BY <1>1, TypeNext, IdleNext, AlterNext, AddNext, RemoveNext, CatalogNext DEF IInv
<1>2. CASE UNCHANGED vars
  <2>1. TypeOK' /\ IdleInv' /\ RemoveInv' /\ CatalogInv'
    BY <1>2 DEF vars, IInv, TypeOK, IdleInv, RemoveInv, CatalogInv, Kept, CheckChange, TypeChange, NullAction,
         BecomesKey, NeedsDatabaseDefault, KeyTypeChange, RelatedType, ColumnMatches,
         RelatedMatches, ForeignKeyMatches
  <2>2. AlterInv'
    BY <1>2 DEF vars, IInv, AlterInv, AlterLeft, Kept, CheckChange, Altered, Renamed, ForeignKeyAltered,
         TypeChange, NullAction, BecomesKey, NeedsDatabaseDefault, KeyTypeChange, RelatedType
  <2>3. AddInv'
    BY <1>2 DEF vars, IInv, AddInv, AddNeeds
  <2> QED BY <2>1, <2>2, <2>3 DEF IInv
<1> QED BY <1>1, <1>2

(* The invariant of the schema editor.                                         *)
THEOREM Invariance == Spec => []IInv
  BY InitInv, NextInv, PTL DEF Spec

(* The column is what the definition says between operations, whatever         *)
(* sequence of add_field, _alter_field and remove_field led there, and however *)
(* often one of them raised half way and was tried again.                      *)
THEOREM ColumnsAreDefinitions == Spec => []ColumnIsDefinition
<1>1. IInv => ColumnIsDefinition
  BY DEF IInv, IdleInv, ColumnIsDefinition, Settled
<1> QED BY <1>1, Invariance, PTL

(* The column that refers to a key has its type, and its foreign key again.    *)
THEOREM RelatedColumnsFollow == Spec => []RelatedIsDefinition
<1>1. IInv => RelatedIsDefinition
  BY DEF IInv, IdleInv, RelatedIsDefinition, Settled
<1> QED BY <1>1, Invariance, PTL

(* "Drop any FK constraints, we'll remake them later": as long as no operation *)
(* raises, _alter_field drops no foreign key that it does not make again.      *)
THEOREM ForeignKeysAreRemade == Spec => []ForeignKeyIsDefinition
<1>1. IInv => ForeignKeyIsDefinition
  BY DEF IInv, IdleInv, ForeignKeyIsDefinition, Settled
<1> QED BY <1>1, Invariance, PTL

(* "Add a default for new incoming writes": when the default is put into the   *)
(* database, a row that another session writes without the column is never     *)
(* what NOT NULL is refused for, whatever the sessions do in between; a row    *)
(* written with NULL may be.                                                   *)
THEOREM TheDefaultIsTaken == Spec => []IncomingWritesTakeDefault
<1>1. ASSUME IInv, op = "alter", NeedsDatabaseDefault(field, target),
             Current("alter_null_last")
      PROVE  "left_out" \notin cat.nullRows
  <2>1. AlterLeft /\ Altered(field, target)
    BY <1>1 DEF IInv, AlterInv
  <2>2. PICK k \in 1..20 : AlterPlan[k] = "alter_null_last" /\ LeftFrom(k, todo, field, target)
    BY <1>1, <2>1, AlterCurrent
  <2>3. k = 11 /\ "alter_null_last" \in todo
    BY <1>1, <2>2, AlterPlanIs DEF Current
  <2>4. "update_rows" \notin todo
    BY <2>2, <2>3 DEF LeftFrom
  <2> QED BY <1>1, <2>1, <2>3, <2>4 DEF Altered
<1>2. IInv => IncomingWritesTakeDefault
  BY <1>1 DEF IncomingWritesTakeDefault
<1> QED BY <1>2, Invariance, PTL
==============================================================================
