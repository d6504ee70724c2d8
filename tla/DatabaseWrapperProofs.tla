------------------------ MODULE DatabaseWrapperProofs ------------------------
(***************************************************************************)
(* Theorems about DatabaseWrapper, for blocks and savepoints of any depth  *)
(* and number, any writes and any provider.  They rest on the inductive    *)
(* invariant WInv, one lemma for each of its parts, and on the invariant   *)
(* of the connection below (DbapiConnectionProofs).                        *)
(***************************************************************************)
EXTENDS DatabaseWrapper, DbapiConnectionProofs, SequenceTheorems

Block == [sid : Nat, work : SUBSET Writes]
Save == [sid : Nat, pending : SUBSET Writes, checking : BOOLEAN]

LEMMA WInitInv == WInit => WInv
  <1> SUFFICES ASSUME WInit PROVE WInv
    OBVIOUS
  <1>1. IInv
    BY InitInv DEF WInit
  <1>2. WTypeOK
    <2>1. last \in [how : {"none", "committed", "undone", "unknown"}, work : SUBSET Writes]
      BY DEF WInit
    <2>2. blocks \in Seq(Block) /\ saves \in Seq(Save)
      BY EmptySeq DEF WInit
    <2> QED
      BY <2>1, <2>2 DEF WInit, WTypeOK, Block, Save
  <1>3. IntegrityInv
    BY <1>2 DEF WInit, Init, IntegrityInv, IntegrityKept, Unclean
  <1>4. CallInv /\ SavesInv /\ WorkInv /\ PendingIsWork /\ BlockOutcome
    BY DEF WInit, Init, CallInv, SavesInv, WorkInv, PendingIsWork, BlockOutcome
  <1> QED
    BY <1>1, <1>3, <1>4 DEF WInv

(* The connection: every step is one of its own, but for the statements of *)
(* the wrapper and the rollback to a savepoint.                            *)

\* A statement that changes no data leaves the connection's invariant alone.
LEMMA StatementInv == ASSUME IInv, InApp, Statement PROVE IInv'
  <1> USE DEF IInv, InApp, Statement, Return, objVars, sessionVars, historyVars
  <1>1. TypeOK'
    BY DEF TypeOK, Ops, Outcomes, Errors, Steps
  <1>2. ComInitialised' /\ StepInv' /\ PendingInTransaction' /\ UnitStepInv'
    BY DEF ComInitialised, StepInv, PendingInTransaction, UnitStepInv
  <1>3. UnitAccounted'
    BY DEF UnitAccounted, Settled, Callable, AdoWorks
  <1> QED
    BY <1>1, <1>2, <1>3

\* Rolling back to a savepoint takes the same writes from the transaction and from
\* the unit of work.
LEMMA UndoInnerInv == ASSUME IInv, SavesInv, UndoInner PROVE IInv'
  <1> USE DEF IInv, UndoInner, Leaving, CanLeave, InApp, CanEnd, AdoWorks, Return,
              objVars
  <1>1. pending' \subseteq pending /\ unit' = unit \ (pending \ pending')
    BY DEF SavesInv, Savepoint
  <1>2. TypeOK'
    BY <1>1 DEF TypeOK, Ops, Outcomes, Errors, Steps
  <1>3. ComInitialised' /\ StepInv' /\ PendingInTransaction' /\ UnitStepInv'
    BY <1>1 DEF ComInitialised, StepInv, PendingInTransaction, UnitStepInv
  <1>4. UnitAccounted'
    BY <1>1 DEF UnitAccounted, Settled, Callable
  <1> QED
    BY <1>2, <1>3, <1>4

LEMMA ConnectionInv == WInv /\ [WNext]_wvars => IInv'
  <1> SUFFICES ASSUME WInv, [WNext]_wvars PROVE IInv'
    OBVIOUS
  <1> USE DEF WInv
  <1>1. CASE UndoInner
    BY <1>1, UndoInnerInv
  <1>2. CASE EnterSavepoint \/ DisableConstraintChecking \/ EnableConstraintChecking
             \/ CheckConstraints
    <2>1. InApp /\ Statement
      BY <1>2 DEF EnterSavepoint, CanEnter, DisableConstraintChecking, Working,
                  EnableConstraintChecking, CheckConstraints
    <2> QED
      BY <2>1, StatementInv
  <1>3. CASE OpenConnection \/ ConnectionStep \/ RestoreAutocommit \/ CloseConnection
             \/ DropConnection \/ Lose
    <2>1. Next
      BY <1>3 DEF OpenConnection, ConnectionStep, RestoreAutocommit, CloseConnection,
                  DropConnection, Lose, Next
    <2> QED
      BY <2>1, NextInv
  <1>4. CASE (\E w \in Writes : AppWrite(w)) \/ StatementFails \/ EnterOutermost
             \/ LeaveOutermost \/ UndoOutermost \/ EnableFails
    <2>1. Next
      BY <1>4 DEF AppWrite, StatementFails, EnterOutermost, LeaveOutermost, UndoOutermost,
                  EnableFails, Next
    <2> QED
      BY <2>1, NextInv
  <1>5. CASE UndoInnerFails
    <2>1. Next \/ UNCHANGED vars
      BY <1>5 DEF UndoInnerFails, Next
    <2> QED
      BY <2>1, NextInv
  <1>6. CASE Dropped \/ AppRaises \/ EnterPlain \/ LeaveInner \/ UNCHANGED wvars
    <2>1. UNCHANGED vars
      BY <1>6 DEF Dropped, AppRaises, EnterPlain, LeaveInner, wvars
    <2> QED
      BY <2>1, NextInv
  <1> QED
    BY <1>1, <1>2, <1>3, <1>4, <1>5, <1>6 DEF WNext

(* Sequences: the open blocks and the savepoints.                          *)

\* A block is entered.
LEMMA AppendBlock ==
  ASSUME blocks \in Seq(Block), NEW b \in Block, blocks' = Append(blocks, b)
  PROVE  /\ blocks' \in Seq(Block) /\ blocks' # <<>>
         /\ DOMAIN blocks' = 1..(Depth + 1)
         /\ \A k \in 1..Depth : blocks'[k] = blocks[k]
         /\ blocks'[Depth + 1] = b
  BY AppendProperties DEF Depth

\* A block is left: those around it stay.
LEMMA OuterBlocks ==
  ASSUME blocks \in Seq(Block), Depth > 0
  PROVE  /\ Outer \in Seq(Block)
         /\ DOMAIN Outer = 1..(Depth - 1) /\ Len(Outer) = Depth - 1
         /\ \A k \in 1..(Depth - 1) : Outer[k] = blocks[k]
         /\ Top \in Block /\ Depth \in DOMAIN blocks
  <1>1. Depth \in Nat /\ DOMAIN blocks = 1..Depth
    BY DEF Depth
  <1>2. \A i \in 1..(Depth - 1) : blocks[i] \in Block
    BY <1>1 DEF Depth
  <1>3. /\ SubSeq(blocks, 1, Depth - 1) \in Seq(Block)
        /\ Len(SubSeq(blocks, 1, Depth - 1)) = IF 1 <= Depth - 1 THEN Depth - 1 - 1 + 1 ELSE 0
        /\ \A i \in 1..(Depth - 1 - 1 + 1) : SubSeq(blocks, 1, Depth - 1)[i] = blocks[1 + i - 1]
    BY <1>1, <1>2, SubSeqProperties
  <1>4. Len(Outer) = Depth - 1 /\ Outer \in Seq(Block)
    BY <1>1, <1>3 DEF Outer
  <1>5. \A k \in 1..(Depth - 1) : Outer[k] = blocks[k]
    <2> SUFFICES ASSUME NEW k \in 1..(Depth - 1) PROVE Outer[k] = blocks[k]
      OBVIOUS
    <2>1. k \in 1..(Depth - 1 - 1 + 1) /\ 1 + k - 1 = k
      BY <1>1
    <2> QED
      BY <1>3, <2>1 DEF Outer
  <1>6. Top \in Block /\ Depth \in DOMAIN blocks
    BY <1>1 DEF Top, Depth
  <1> QED
    BY <1>4, <1>5, <1>6

\* A write of the application goes to the innermost block.
LEMMA WriteBlock ==
  ASSUME blocks \in Seq(Block), Depth # 0, NEW w \in Writes,
         blocks' = [blocks EXCEPT ![Depth].work = @ \cup {w}]
  PROVE  /\ blocks' \in Seq(Block) /\ Len(blocks') = Depth /\ DOMAIN blocks' = DOMAIN blocks
         /\ \A k \in DOMAIN blocks : k # Depth => blocks'[k] = blocks[k]
         /\ blocks'[Depth].work = Top.work \cup {w} /\ blocks'[Depth].sid = Top.sid
  <1>1. Depth \in 1..Len(blocks) /\ Top \in Block
    BY DEF Depth, Top
  <1> DEFINE b == [Top EXCEPT !.work = @ \cup {w}]
  <1>2. b \in Block /\ b.work = Top.work \cup {w} /\ b.sid = Top.sid
    BY <1>1 DEF Block
  <1>3. blocks' = [blocks EXCEPT ![Depth] = b]
    BY DEF Top
  <1> HIDE DEF b
  <1>4. /\ blocks' \in Seq(Block) /\ Len(blocks') = Len(blocks)
        /\ \A j \in 1..Len(blocks) : blocks'[j] = IF j = Depth THEN b ELSE blocks[j]
    <2> DEFINE i == Depth
    <2>1. i \in 1..Len(blocks)
      BY <1>1
    <2> HIDE DEF i
    <2>2. /\ [blocks EXCEPT ![i] = b] \in Seq(Block)
          /\ Len([blocks EXCEPT ![i] = b]) = Len(blocks)
          /\ \A j \in 1..Len(blocks) : [blocks EXCEPT ![i] = b][j] = IF j = i THEN b ELSE blocks[j]
      BY <1>2, <2>1, ExceptSeq
    <2> QED
      BY <1>3, <2>2 DEF i
  <1>5. Len(blocks) = Depth /\ DOMAIN blocks = 1..Depth /\ DOMAIN blocks' = 1..Depth
    BY <1>4 DEF Depth
  <1> QED
    BY <1>1, <1>2, <1>4, <1>5

\* An inner block is left normally: the block around it takes its writes.
LEMMA MergeBlock ==
  ASSUME blocks \in Seq(Block), Depth > 1,
         blocks' = [Outer EXCEPT ![Depth - 1].work = @ \cup Top.work]
  PROVE  /\ blocks' \in Seq(Block) /\ Len(blocks') = Depth - 1
         /\ DOMAIN blocks' = 1..(Depth - 1)
         /\ \A k \in 1..(Depth - 2) : blocks'[k] = blocks[k]
         /\ blocks'[Depth - 1].work = blocks[Depth - 1].work \cup Top.work
         /\ blocks'[Depth - 1].sid = blocks[Depth - 1].sid
  <1>1. Depth \in Nat
    BY DEF Depth
  <1>2. /\ Outer \in Seq(Block) /\ DOMAIN Outer = 1..(Depth - 1) /\ Len(Outer) = Depth - 1
        /\ \A k \in 1..(Depth - 1) : Outer[k] = blocks[k]
        /\ Top \in Block
    BY <1>1, OuterBlocks
  <1>3. Depth - 1 \in 1..Len(Outer) /\ Outer[Depth - 1] = blocks[Depth - 1]
    BY <1>1, <1>2
  <1>4. blocks[Depth - 1] \in Block
    BY <1>2, <1>3
  <1> DEFINE b == [Outer[Depth - 1] EXCEPT !.work = @ \cup Top.work]
  <1>5. b \in Block /\ b.work = blocks[Depth - 1].work \cup Top.work
        /\ b.sid = blocks[Depth - 1].sid
    BY <1>2, <1>3, <1>4 DEF Block
  <1>6. blocks' = [Outer EXCEPT ![Depth - 1] = b]
    OBVIOUS
  <1> HIDE DEF b
  <1>7. /\ blocks' \in Seq(Block) /\ Len(blocks') = Len(Outer)
        /\ \A j \in 1..Len(Outer) : blocks'[j] = IF j = Depth - 1 THEN b ELSE Outer[j]
    <2> DEFINE i == Depth - 1
    <2>1. i \in 1..Len(Outer)
      BY <1>3
    <2> HIDE DEF i
    <2>2. /\ [Outer EXCEPT ![i] = b] \in Seq(Block)
          /\ Len([Outer EXCEPT ![i] = b]) = Len(Outer)
          /\ \A j \in 1..Len(Outer) : [Outer EXCEPT ![i] = b][j] = IF j = i THEN b ELSE Outer[j]
      BY <1>2, <1>5, <2>1, ExceptSeq
    <2> QED
      BY <1>6, <2>2 DEF i
  <1> QED
    BY <1>1, <1>2, <1>3, <1>5, <1>7

(* What the steps do to the blocks and to the catalog, for the lemmas below. *)

\* The steps within which no block is entered or left and nothing is written.
Outside ==
    \/ OpenConnection \/ ConnectionStep \/ RestoreAutocommit \/ CloseConnection
    \/ DropConnection \/ Dropped \/ Lose

Loading == DisableConstraintChecking \/ EnableConstraintChecking \/ EnableFails \/ CheckConstraints

LEMMA BlocksType == ASSUME WInv, [WNext]_wvars PROVE blocks' \in Seq(Block)
  <1>1. blocks \in Seq(Block)
    BY DEF WInv, IntegrityInv, WTypeOK, Block
  <1>2. CASE Outside
    BY <1>1, <1>2 DEF Outside, OpenConnection, ConnectionStep, RestoreAutocommit,
       CloseConnection, DropConnection, Dropped, Lose, wrapperVars
  <1>3. ASSUME NEW w \in Writes, AppWrite(w) PROVE blocks' \in Seq(Block)
    <2>1. CASE Depth = 0
      BY <1>1, <1>3, <2>1 DEF AppWrite
    <2>2. CASE Depth # 0
      <3>1. blocks' = [blocks EXCEPT ![Depth].work = @ \cup {w}]
        BY <1>3, <2>2 DEF AppWrite
      <3> QED
        BY <1>1, <2>2, <3>1, WriteBlock
    <2> QED
      BY <2>1, <2>2
  <1>4. CASE StatementFails \/ AppRaises \/ Loading \/ UNCHANGED wvars
    BY <1>1, <1>4 DEF StatementFails, AppRaises, Raises, Loading, DisableConstraintChecking,
       EnableConstraintChecking, EnableFails, CheckConstraints, wvars, wrapperVars
  <1>5. CASE EnterOutermost
    <2> DEFINE b == [sid |-> NoSavepoint, work |-> {}]
    <2>1. b \in Block
      BY DEF Block, NoSavepoint
    <2>2. blocks' = <<b>> \/ blocks' = blocks
      BY <1>5 DEF EnterOutermost
    <2> HIDE DEF b
    <2>3. <<b>> \in Seq(Block)
      BY <2>1
    <2> QED
      BY <1>1, <2>2, <2>3
  <1>6. CASE EnterSavepoint \/ EnterPlain
    <2>1. \E b \in Block : blocks' = Append(blocks, b)
      <3>1. savepoint_state + 1 \in Nat
        BY DEF WInv, IntegrityInv, WTypeOK
      <3> QED
        BY <1>6, <3>1 DEF EnterSavepoint, EnterPlain, Block, NoSavepoint
    <2> QED
      BY <1>1, <2>1, AppendBlock
  <1>7. CASE LeaveInner
    BY <1>1, <1>7, MergeBlock DEF LeaveInner
  <1>8. CASE UndoInner \/ UndoInnerFails
    <2>1. Depth > 0 /\ blocks' = Outer
      <3>1. Depth > 1 /\ blocks' = Outer
        BY <1>8 DEF UndoInner, UndoInnerFails, Leaving
      <3>2. Depth \in Nat
        BY <1>1 DEF Depth
      <3> QED
        BY <3>1, <3>2
    <2> QED
      BY <1>1, <2>1, OuterBlocks
  <1>9. CASE LeaveOutermost \/ UndoOutermost
    BY <1>9, EmptySeq DEF LeaveOutermost, UndoOutermost, Outermost
  <1> QED
    BY <1>2, <1>3, <1>4, <1>5, <1>6, <1>7, <1>8, <1>9 DEF WNext, Outside, Loading

\* What a step leaves of the catalog and the savepoints.
CatalogKept == UNCHANGED catalogVars
Savepointed ==
    /\ EnterSavepoint
    /\ saves' = Append(saves, [sid |-> savepoint_state + 1, pending |-> pending,
                              checking |-> checking])
    /\ UNCHANGED <<checking, dbChecking>>
RolledBack ==
    /\ UndoInner
    /\ \E i \in Savepoint :
          /\ pending' = saves[i].pending
          /\ checking' = saves[i].checking
          /\ saves' = SubSeq(saves, 1, i)
    /\ UNCHANGED dbChecking
Switched ==
    /\ DisableConstraintChecking \/ EnableConstraintChecking
    /\ \E value \in BOOLEAN : SetChecking(value)

LEMMA CatalogSteps ==
  ASSUME [WNext]_wvars
  PROVE  CatalogKept \/ CatalogUndone \/ Savepointed \/ RolledBack \/ Switched
         \/ (LeaveOutermost /\ CatalogCommitted)
  <1> USE DEF CatalogKept
  <1>1. CASE Outside
    BY <1>1 DEF Outside, OpenConnection, ConnectionStep, RestoreAutocommit,
       CloseConnection, DropConnection, Dropped, Lose, wrapperVars
  <1>2. CASE (\E w \in Writes : AppWrite(w)) \/ StatementFails \/ AppRaises \/ EnterOutermost
             \/ EnterPlain \/ LeaveInner \/ UndoInnerFails \/ LeaveOutermost \/ UndoOutermost
    BY <1>2 DEF AppWrite, StatementFails, AppRaises, EnterOutermost, EnterPlain, LeaveInner,
       UndoInnerFails, LeaveOutermost, UndoOutermost
  <1>3. CASE EnterSavepoint
    BY <1>3 DEF EnterSavepoint, Savepointed
  <1>4. CASE UndoInner
    BY <1>4 DEF UndoInner, RolledBack
  <1>5. CASE DisableConstraintChecking \/ EnableConstraintChecking
    BY <1>5 DEF DisableConstraintChecking, EnableConstraintChecking, Switched
  <1>6. CASE EnableFails \/ CheckConstraints \/ UNCHANGED wvars
    BY <1>6 DEF EnableFails, CheckConstraints, wvars
  <1> QED
    BY <1>1, <1>2, <1>3, <1>4, <1>5, <1>6 DEF WNext, Outside

LEMMA SavesType ==
  ASSUME WInv, [WNext]_wvars
  PROVE  saves' \in Seq(Save) /\ checking' \in BOOLEAN /\ dbChecking' \in BOOLEAN
  <1>1. /\ saves \in Seq(Save) /\ checking \in BOOLEAN /\ dbChecking \in BOOLEAN
        /\ savepoint_state \in Nat /\ pending \in SUBSET Writes
    BY DEF WInv, IInv, TypeOK, IntegrityInv, WTypeOK, Save
  <1>2. CASE CatalogKept
    BY <1>1, <1>2 DEF CatalogKept, catalogVars
  <1>3. CASE CatalogUndone \/ CatalogCommitted
    BY <1>1, <1>3, EmptySeq DEF CatalogUndone, CatalogCommitted
  <1>4. CASE Savepointed
    <2>1. [sid |-> savepoint_state + 1, pending |-> pending, checking |-> checking] \in Save
      BY <1>1 DEF Save
    <2> QED
      BY <1>1, <1>4, <2>1, AppendProperties DEF Savepointed
  <1>5. CASE RolledBack
    <2>1. PICK i \in Savepoint : checking' = saves[i].checking /\ saves' = SubSeq(saves, 1, i)
      BY <1>5 DEF RolledBack
    <2>2. i \in 1..Len(saves)
      BY <1>1 DEF Savepoint
    <2>3. saves[i] \in Save /\ \A j \in 1..i : saves[j] \in Save
      BY <1>1, <2>2
    <2>4. SubSeq(saves, 1, i) \in Seq(Save)
      BY <2>2, <2>3, SubSeqProperties
    <2> QED
      BY <1>1, <1>5, <2>1, <2>3, <2>4 DEF RolledBack, Save
  <1>6. CASE Switched
    BY <1>1, <1>6 DEF Switched, SetChecking
  <1> QED
    BY <1>2, <1>3, <1>4, <1>5, <1>6, CatalogSteps

LEMMA WTypeInv == ASSUME WInv, [WNext]_wvars PROVE WTypeOK'
  <1> USE DEF WInv, IntegrityInv
  <1>1. blocks' \in Seq(Block) /\ saves' \in Seq(Save)
        /\ checking' \in BOOLEAN /\ dbChecking' \in BOOLEAN
    BY BlocksType, SavesType
  <1> DEFINE Rest ==
        /\ step' \in {"app", "connect", "commit", "rollback", "close", "drop"}
        /\ needs_rollback' \in BOOLEAN
        /\ failing' \in BOOLEAN
        /\ savepoint_state' \in Nat
        /\ load' \in {"none", "off", "check"}
        /\ last' \in [how : {"none", "committed", "undone", "unknown"}, work : SUBSET Writes]
  <1>2. Rest
    <2>1. CASE Outside
      <3>1. CASE RestoreAutocommit
        <4>1. last' = last \/ last' = [last EXCEPT !.how = "committed"]
          BY <3>1 DEF RestoreAutocommit
        <4> QED
          BY <3>1, <4>1 DEF RestoreAutocommit, WTypeOK
      <3>2. CASE ~RestoreAutocommit
        BY <2>1, <3>2 DEF WTypeOK, Outside, OpenConnection, ConnectionStep,
           CloseConnection, DropConnection, Dropped, Lose, wrapperVars
      <3> QED
        BY <3>1, <3>2
    <2>2. CASE (\E w \in Writes : AppWrite(w)) \/ EnterOutermost \/ EnterPlain
               \/ LeaveInner \/ UNCHANGED wvars
      BY <2>2 DEF WTypeOK, AppWrite, EnterOutermost, EnterPlain, LeaveInner, wvars, wrapperVars
    <2>5. CASE EnterSavepoint
      BY <2>5 DEF WTypeOK, EnterSavepoint
    <2>6. CASE UndoInner \/ UndoInnerFails
      <3>1. UNCHANGED <<step, savepoint_state, load, last>> /\ failing' \in {failing, FALSE}
            /\ needs_rollback' \in BOOLEAN
        BY <2>6 DEF UndoInner, UndoInnerFails, Leaving
      <3> QED
        BY <3>1 DEF WTypeOK
    <2>3. CASE StatementFails \/ AppRaises \/ Loading
      BY <2>3 DEF WTypeOK, StatementFails, AppRaises, Raises, Loading, DisableConstraintChecking,
         EnableConstraintChecking, EnableFails, CheckConstraints, Reported
    <2>4. CASE LeaveOutermost \/ UndoOutermost
      <3>1. Depth = 1
        BY <2>4 DEF LeaveOutermost, UndoOutermost, Outermost
      <3>2. Top.work \in SUBSET Writes
        BY <3>1, OuterBlocks DEF WTypeOK, Block
      <3>3. \E how \in {"unknown", "undone"} : last' = [how |-> how, work |-> Top.work]
        BY <2>4 DEF LeaveOutermost, UndoOutermost, Outermost
      <3>4. last' \in [how : {"none", "committed", "undone", "unknown"}, work : SUBSET Writes]
        BY <3>2, <3>3
      <3>5. /\ step' \in {"commit", "rollback"} /\ failing' = FALSE /\ needs_rollback' = FALSE
            /\ UNCHANGED <<savepoint_state, load>>
        BY <2>4 DEF LeaveOutermost, UndoOutermost, Outermost
      <3> QED
        BY <3>4, <3>5 DEF WTypeOK
    <2> QED
      BY <2>1, <2>2, <2>3, <2>4, <2>5, <2>6 DEF WNext, Outside, Loading
  <1> QED
    BY <1>1, <1>2 DEF WTypeOK, Block, Save

(* The connection under the blocks.                                        *)

\* What the invariant says of the connection and of an open block.
LEMMA StateFacts ==
  ASSUME WInv
  PROVE  /\ blocks \in Seq(Block) /\ saves \in Seq(Save)
         /\ Depth \in Nat /\ DOMAIN blocks = 1..Depth /\ (Depth = 0 <=> blocks = <<>>)
         /\ trancount = 1 => AdoWorks /\ obj # "none"
         /\ pending # {} => trancount = 1
         /\ blocks # <<>> => InApp /\ obj = "held" /\ supportsTransactions
         /\ trancount \in {0, 1} /\ pending \cup durable \subseteq issued
         /\ pending \cap durable = {}
  <1> USE DEF WInv
  <1>1. blocks \in Seq(Block) /\ saves \in Seq(Save)
    BY DEF IntegrityInv, WTypeOK, Block, Save
  <1>2. Depth \in Nat /\ DOMAIN blocks = 1..Depth /\ (Depth = 0 <=> blocks = <<>>)
    BY <1>1 DEF Depth
  <1>3. (trancount = 1 => AdoWorks /\ obj # "none") /\ (pending # {} => trancount = 1)
    BY DEF CallInv, IInv, StepInv, PendingInTransaction, AdoWorks
  <1>4. blocks # <<>> => InApp /\ obj = "held" /\ supportsTransactions
    BY DEF CallInv, IntegrityInv, InApp
  <1> QED
    BY <1>1, <1>2, <1>3, <1>4 DEF IInv, TypeOK, UnitStepInv

LEMMA DurableSteps ==
  ASSUME WInv, [WNext]_wvars
  PROVE  \/ UNCHANGED durable
         \/ LeaveOutermost /\ AdoWorks /\ durable' = durable \cup pending
         \/ \E w \in Writes : /\ AppWrite(w) /\ blocks = <<>> /\ trancount # 1
                              /\ w \notin issued /\ durable' = durable \cup {w}
  <1>1. CASE Outside
    <2>1. CASE ConnectionStep
      BY <2>1 DEF ConnectionStep, OperationStep, ConnectBegin, ConnectBeginFails, CommitBegin,
         CommitBeginFails, RollbackTransStep, RollbackTrans, RollbackBegin, RollbackTransFails,
         BeginTrans, CloseAdo, CloseAdoFails, DelRollback, DelRelease, Fail, sessionVars, EndSession
    <2>2. CASE OpenConnection \/ CloseConnection \/ DropConnection
      BY <2>2 DEF OpenConnection, Connect, ConnectFails, CloseConnection, CloseRollback, CloseFails,
         DropConnection, Collect, RollbackTrans, Fail, sessionVars
    <2>3. CASE RestoreAutocommit \/ Dropped \/ Lose
      BY <2>3 DEF RestoreAutocommit, SetAutocommit, SetAutocommitFails, SetAutocommitSame,
         RollbackTrans, BeginTrans, Dropped, Lose, LoseSession, Fail, sessionVars, vars
    <2> QED
      BY <1>1, <2>1, <2>2, <2>3 DEF Outside
  <1>2. ASSUME NEW w \in Writes, AppWrite(w), durable' # durable
        PROVE  blocks = <<>> /\ trancount # 1 /\ w \notin issued /\ durable' = durable \cup {w}
    <2>1. trancount # 1 /\ w \notin issued /\ AdoWorks /\ durable' = durable \cup {w}
      BY <1>2 DEF AppWrite, Execute
    <2> QED
      BY <1>2, <2>1 DEF AppWrite, Working, WInv, IntegrityInv
  <1>3. CASE LeaveOutermost
    BY <1>3 DEF LeaveOutermost, Commit, CommitTrans, CommitFails, CommitLosesSession, CanEnd, Fail,
       sessionVars
  <1>4. CASE StatementFails \/ AppRaises \/ Loading
    BY <1>4 DEF StatementFails, ExecuteFails, ExecuteAborted, AppRaises, Loading,
       DisableConstraintChecking, EnableConstraintChecking, EnableFails, CheckConstraints,
       Statement, Fail, sessionVars, vars
  <1>5. CASE EnterOutermost \/ EnterSavepoint \/ EnterPlain
    BY <1>5 DEF EnterOutermost, SetAutocommit, SetAutocommitFails, RollbackTrans, BeginTrans,
       EnterSavepoint, EnterPlain, Statement, Fail, sessionVars, vars
  <1>6. CASE LeaveInner \/ UndoInner \/ UndoInnerFails \/ UndoOutermost \/ UNCHANGED wvars
    BY <1>6 DEF LeaveInner, UndoInner, UndoInnerFails, ExecuteFails, ExecuteAborted,
       UndoOutermost, Rollback, RollbackFails, Fail, sessionVars, vars, wvars
  <1> QED
    BY <1>1, <1>2, <1>3, <1>4, <1>5, <1>6 DEF WNext, Outside, Loading

LEMMA PendingSteps ==
  ASSUME WInv, [WNext]_wvars
  PROVE  \/ pending' = {}
         \/ UNCHANGED <<pending, trancount>>
         \/ RolledBack /\ UNCHANGED trancount
         \/ \E w \in Writes : /\ AppWrite(w) /\ UNCHANGED trancount
                              /\ w \notin issued /\ pending' = pending \cup {w}
  <1>0. pending # {} => trancount = 1
    BY StateFacts
  <1>1. CASE Outside
    <2>1. CASE ConnectionStep
      BY <1>0, <2>1 DEF ConnectionStep, OperationStep, ConnectBegin, ConnectBeginFails, CommitBegin,
         CommitBeginFails, RollbackTransStep, RollbackTrans, RollbackBegin, RollbackTransFails,
         BeginTrans, CloseAdo, CloseAdoFails, DelRollback, DelRelease, Fail, sessionVars, EndSession,
         CanBegin
    <2>2. CASE OpenConnection
      <3>1. trancount # 1
        BY <2>2, StateFacts DEF OpenConnection
      <3> QED
        BY <1>0, <2>2, <3>1 DEF OpenConnection, Connect, ConnectFails, Fail, sessionVars
    <2>3. CASE CloseConnection \/ DropConnection
      BY <2>3 DEF CloseConnection, CloseRollback, CloseFails, DropConnection, Collect,
         RollbackTrans, Fail, sessionVars
    <2>4. CASE RestoreAutocommit \/ Dropped \/ Lose
      BY <1>0, <2>4 DEF RestoreAutocommit, SetAutocommit, SetAutocommitFails,
         SetAutocommitSame, RollbackTrans, BeginTrans, CanBegin, Dropped, Lose, LoseSession, EndSession, Fail, sessionVars, vars
    <2> QED
      BY <1>1, <2>1, <2>2, <2>3, <2>4 DEF Outside
  <1>2. ASSUME NEW w \in Writes, AppWrite(w)
        PROVE  \/ UNCHANGED <<pending, trancount>>
               \/ UNCHANGED trancount /\ w \notin issued /\ pending' = pending \cup {w}
    BY <1>2 DEF AppWrite, Execute
  <1>3. CASE LeaveOutermost
    BY <1>3 DEF LeaveOutermost, Commit, CommitTrans, CommitFails, CommitLosesSession, EndSession,
       Fail, sessionVars
  <1>4. CASE StatementFails \/ AppRaises \/ Loading
    BY <1>4 DEF StatementFails, ExecuteFails, ExecuteAborted, AppRaises, Loading,
       DisableConstraintChecking, EnableConstraintChecking, EnableFails, CheckConstraints,
       Statement, Fail, sessionVars, vars
  <1>5. CASE EnterOutermost \/ EnterSavepoint \/ EnterPlain
    BY <1>0, <1>5 DEF EnterOutermost, SetAutocommit, SetAutocommitFails, RollbackTrans, BeginTrans,
       CanBegin, EnterSavepoint, EnterPlain, Statement, Fail, sessionVars, vars
  <1>6. CASE UndoInner
    BY <1>6 DEF UndoInner, RolledBack
  <1>7. CASE LeaveInner \/ UndoInnerFails \/ UndoOutermost \/ UNCHANGED wvars
    BY <1>7 DEF LeaveInner, UndoInnerFails, ExecuteFails, ExecuteAborted,
       UndoOutermost, Rollback, RollbackFails, Fail, sessionVars, vars, wvars
  <1> QED
    BY <1>1, <1>2, <1>3, <1>4, <1>5, <1>6, <1>7 DEF WNext, Outside, Loading

\* An inner block is entered or left in another one.
Nesting == EnterSavepoint \/ EnterPlain \/ LeaveInner \/ UndoInner \/ UndoInnerFails

LEMMA InBlock == ASSUME WInv, Nesting PROVE blocks # <<>> /\ blocks' # <<>>
  <1>1. Depth \in 1..MaxDepth - 1 \/ Depth > 1
    BY DEF Nesting, EnterSavepoint, EnterPlain, CanEnter, LeaveInner, UndoInner, UndoInnerFails,
       Leaving
  <1>2. blocks # <<>>
    BY <1>1, StateFacts, BoundsAssumption
  <1>3. blocks \in Seq(Block) /\ Depth \in Nat
    BY StateFacts
  <1>4. CASE EnterSavepoint \/ EnterPlain
    <2>1. \E b : blocks' = Append(blocks, b)
      BY <1>4 DEF EnterSavepoint, EnterPlain
    <2> QED
      BY <1>2, <1>3, <2>1
  <1>5. CASE LeaveInner
    <2>1. Depth > 1 /\ Len(blocks') = Depth - 1
      BY <1>3, <1>5, MergeBlock DEF LeaveInner
    <2> QED
      BY <1>2, <1>3, <2>1
  <1>6. CASE UndoInner \/ UndoInnerFails
    <2>1. Depth > 1 /\ blocks' = Outer
      BY <1>6 DEF UndoInner, UndoInnerFails, Leaving
    <2>2. Len(Outer) = Depth - 1
      BY <1>3, <2>1, OuterBlocks
    <2> QED
      BY <1>2, <1>3, <2>1, <2>2
  <1> QED
    BY <1>2, <1>4, <1>5, <1>6 DEF Nesting

\* A transaction is never open without its session.
LEMMA TransactionInSession == ASSUME WInv, [WNext]_wvars PROVE (trancount = 1 => session = "up")'
  <1>0. (trancount = 1 => session = "up") /\ TypeOK
    BY DEF WInv, CallInv, IInv
  <1> USE <1>0 DEF Fail, sessionVars, EndSession, RollbackTrans, BeginTrans, CommitTrans, CanBegin,
          CanEnd, AdoWorks
  <1>1. CASE ConnectionStep
    BY <1>1 DEF ConnectionStep, OperationStep, ConnectBegin, ConnectBeginFails, CommitBegin,
       CommitBeginFails, RollbackTransStep, RollbackBegin, RollbackTransFails,
       CloseAdo, CloseAdoFails, DelRollback, DelRelease
  <1>2. CASE OpenConnection \/ CloseConnection \/ DropConnection
    BY <1>2 DEF OpenConnection, Connect, ConnectFails, CloseConnection, CloseRollback, CloseFails,
       DropConnection, Collect
  <1>3. CASE RestoreAutocommit \/ Dropped \/ Lose
    BY <1>3 DEF RestoreAutocommit, SetAutocommit, SetAutocommitFails, SetAutocommitSame, Dropped,
       Lose, LoseSession, vars
  <1>4. CASE LeaveOutermost \/ UndoOutermost \/ EnterOutermost
    BY <1>4 DEF LeaveOutermost, Commit, CommitFails, CommitLosesSession, UndoOutermost,
       Rollback, RollbackFails, EnterOutermost, SetAutocommit, SetAutocommitFails
  <1>5. CASE (\E w \in Writes : AppWrite(w)) \/ StatementFails \/ AppRaises \/ Loading
    BY <1>5 DEF AppWrite, Execute, StatementFails, ExecuteFails, ExecuteAborted, AppRaises, Loading,
       DisableConstraintChecking, EnableConstraintChecking, EnableFails, CheckConstraints,
       Statement, vars
  <1>6. CASE EnterSavepoint \/ EnterPlain \/ LeaveInner \/ UndoInner \/ UndoInnerFails
             \/ UNCHANGED wvars
    BY <1>6 DEF EnterSavepoint, EnterPlain, LeaveInner, UndoInner, UndoInnerFails, ExecuteFails,
       ExecuteAborted, Statement, vars, wvars
  <1> QED
    BY <1>1, <1>2, <1>3, <1>4, <1>5, <1>6 DEF WNext, Loading

\* Between connect() and autocommit nothing is open but the first transaction of a
\* manual connection.
LEMMA ConnectedClean ==
  ASSUME WInv, [WNext]_wvars
  PROVE  (step = "connect" => supportsTransactions \/ trancount = 0)'
  <1>0. /\ CallInv
        /\ blocks # <<>> => step = "app" /\ pc = "idle" /\ obj = "held" /\ supportsTransactions
        /\ pc \in {"connect.begin", "commit.begin"} => supportsTransactions
        /\ pc = "rollback.begin" \/ pc = "rollback.trans" => obj = "held"
    BY DEF WInv, IntegrityInv, IInv, StepInv, CallInv
  <1> USE <1>0 DEF CallInv, InApp, Between, Fail, Return, Continue, objVars, sessionVars
  <1>1. CASE ConnectionStep
    <2>1. CASE step = "connect"
      <3>1. pc \in {"idle", "connect.begin", "del.rollback", "del.release"}
        BY <2>1
      <3> QED
        BY <1>1, <2>1, <3>1 DEF ConnectionStep, OperationStep, ConnectBegin, ConnectBeginFails,
           CommitBegin, CommitBeginFails, RollbackTransStep, RollbackBegin, RollbackTransFails,
           CloseAdo, CloseAdoFails, DelRollback, DelRelease, BeginTrans, EndSession, wrapperVars
    <2> QED
      BY <1>1, <2>1 DEF ConnectionStep, wrapperVars
  <1>2. CASE OpenConnection
    BY <1>2 DEF OpenConnection, Connect, ConnectFails
  <1>3. CASE Lose
    BY <1>3 DEF Lose, LoseSession, EndSession, wrapperVars
  <1>4. CASE RestoreAutocommit \/ CloseConnection \/ DropConnection \/ Dropped
    BY <1>4 DEF RestoreAutocommit, CloseConnection, DropConnection, Dropped, wrapperVars
  <1>5. CASE LeaveOutermost \/ UndoOutermost \/ EnterOutermost
    BY <1>5 DEF LeaveOutermost, UndoOutermost, EnterOutermost, Outermost, CanLeave
  <1>6. CASE (\E w \in Writes : AppWrite(w)) \/ StatementFails \/ AppRaises \/ Loading
    BY <1>6 DEF AppWrite, StatementFails, AppRaises, Working, Raises, Loading,
       DisableConstraintChecking, EnableConstraintChecking, EnableFails, CheckConstraints
  <1>7. CASE EnterSavepoint \/ EnterPlain \/ LeaveInner \/ UndoInner \/ UndoInnerFails
    BY <1>7 DEF EnterSavepoint, EnterPlain, LeaveInner, UndoInner, UndoInnerFails, CanEnter,
       Leaving, CanLeave
  <1>8. CASE UNCHANGED wvars
    BY <1>8 DEF wvars, vars, wrapperVars, objVars, sessionVars
  <1> QED
    BY <1>1, <1>2, <1>3, <1>4, <1>5, <1>6, <1>7, <1>8 DEF WNext, Loading

LEMMA CallInvNext == ASSUME WInv, [WNext]_wvars PROVE CallInv'
  <1>0. /\ CallInv
        /\ blocks # <<>> => step = "app" /\ pc = "idle" /\ obj = "held" /\ supportsTransactions
        /\ pc \in {"del.rollback", "del.release"} <=> obj = "garbage"
        /\ supportsTransactions \in BOOLEAN
    BY DEF WInv, IntegrityInv, IInv, StepInv, TypeOK, CallInv
  <1>1. /\ (trancount = 1 => session = "up")'
        /\ (step = "connect" => supportsTransactions \/ trancount = 0)'
    BY TransactionInSession, ConnectedClean
  <1> USE <1>0, <1>1 DEF CallInv, InApp, Between, Fail, Return, Continue, objVars
  <1>2. CASE ConnectionStep
    BY <1>2 DEF ConnectionStep, OperationStep, ConnectBegin, ConnectBeginFails, CommitBegin,
       CommitBeginFails, RollbackTransStep, RollbackBegin, RollbackTransFails,
       CloseAdo, CloseAdoFails, DelRollback, DelRelease, wrapperVars
  <1>3. CASE OpenConnection
    BY <1>3 DEF OpenConnection, Connect, ConnectFails
  <1>4. CASE CloseConnection \/ DropConnection \/ Dropped
    BY <1>4 DEF CloseConnection, CloseRollback, CloseFails, DropConnection, Collect, Dropped,
       wrapperVars, vars
  <1>5. CASE RestoreAutocommit
    <2>1. CASE SetAutocommitSame(TRUE)
      <3>1. ~supportsTransactions' /\ pc' = "idle" /\ step' = "app" /\ UNCHANGED obj
        BY <1>5, <2>1 DEF RestoreAutocommit, SetAutocommit, SetAutocommitFails, SetAutocommitSame,
           Callable
      <3> QED
        BY <1>5, <3>1 DEF RestoreAutocommit
    <2>2. CASE ~SetAutocommitSame(TRUE)
      BY <1>5, <2>2 DEF RestoreAutocommit, SetAutocommit, SetAutocommitFails
    <2> QED
      BY <2>1, <2>2
  <1>6. CASE Lose
    BY <1>6 DEF Lose, LoseSession, wrapperVars
  <1>7. CASE LeaveOutermost
    BY <1>7 DEF LeaveOutermost, Outermost, CanLeave, Commit, CommitFails, CommitLosesSession
  <1>8. CASE UndoOutermost
    BY <1>8 DEF UndoOutermost, Outermost, CanLeave, Rollback, RollbackFails
  <1>9. CASE EnterOutermost
    <2>1. CASE UNCHANGED blocks
      BY <1>9, <2>1 DEF EnterOutermost, SetAutocommit, SetAutocommitFails
    <2>2. CASE SetAutocommit(FALSE) /\ blocks' = <<[sid |-> NoSavepoint, work |-> {}]>>
      <3>1. blocks' # <<>>
        BY <2>2
      <3>2. step' = "app" /\ pc' = "idle" /\ supportsTransactions' = TRUE
        BY <1>9, <2>2 DEF EnterOutermost, SetAutocommit
      <3> QED
        BY <3>1, <3>2
    <2> QED
      BY <1>9, <2>1, <2>2 DEF EnterOutermost
  <1>10. ASSUME NEW w \in Writes, AppWrite(w) PROVE CallInv'
    <2>1. blocks' # <<>> => blocks # <<>>
      BY <1>10, StateFacts DEF AppWrite
    <2>2. blocks # <<>> => blocks' # <<>>
      <3>1. blocks # <<>> => Depth # 0 /\ Depth \in DOMAIN blocks
        BY StateFacts
      <3>2. blocks # <<>> => DOMAIN blocks' = DOMAIN blocks
        BY <1>10, <3>1 DEF AppWrite
      <3> QED
        BY <3>1, <3>2
    <2> QED
      BY <1>10, <2>1, <2>2 DEF AppWrite, Execute, Working
  <1>11. CASE StatementFails \/ AppRaises \/ Loading
    <2>1. step = "app" /\ pc' = "idle" /\ UNCHANGED <<step, blocks, objVars>>
      BY <1>11 DEF StatementFails, Raises, ExecuteFails, ExecuteAborted, AppRaises, Loading,
         DisableConstraintChecking, EnableConstraintChecking, EnableFails, CheckConstraints,
         Statement, Working, vars
    <2> QED
      BY <2>1
  <1>12. CASE Nesting
    <2>1. blocks # <<>> /\ blocks' # <<>>
      BY <1>12, InBlock
    <2>2. step = "app" /\ pc' = "idle" /\ UNCHANGED <<step, objVars>>
      BY <1>12 DEF Nesting, EnterSavepoint, EnterPlain, CanEnter, CanLeave, LeaveInner,
         UndoInner, UndoInnerFails, Leaving, Statement, ExecuteFails, ExecuteAborted, vars
    <2> QED
      BY <2>1, <2>2
  <1>13. CASE UNCHANGED wvars
    BY <1>13 DEF wvars, vars, wrapperVars
  <1> QED
    BY <1>2, <1>3, <1>4, <1>5, <1>6, <1>7, <1>8, <1>9, <1>10, <1>11, <1>12, <1>13 DEF WNext, Loading, Nesting

(* Integrity: disabled constraints and rows that refer to nothing.         *)

OpenInv ==
    blocks # <<>> => /\ step = "app" /\ pc = "idle" /\ obj = "held"
                     /\ AdoWorks /\ ~needs_rollback /\ ~failing => trancount = 1
UncleanInv ==
    Unclean => /\ trancount = 1
               /\ step # "app" \/ blocks # <<>>
               /\ \/ load # "none" \/ failing \/ needs_rollback
                  \/ step \in {"rollback", "drop"}
LoadInv == (load # "none" => blocks # <<>>) /\ (~checking => load # "check")
CleanSaves ==
    \A i \in DOMAIN saves : saves[i].checking /\ Dangling \cap saves[i].pending = {}

LEMMA IntegrityParts ==
  IntegrityInv <=> WTypeOK /\ IntegrityKept /\ OpenInv /\ UncleanInv /\ LoadInv /\ CleanSaves
  BY DEF IntegrityInv, OpenInv, UncleanInv, LoadInv, CleanSaves

\* Within a block the connection is idle and, unless something has failed, a
\* transaction is open.
LEMMA OpenInvNext == ASSUME WInv, [WNext]_wvars PROVE OpenInv'
  <1>0. OpenInv
    BY DEF WInv, IntegrityInv, OpenInv
  <1> USE <1>0 DEF OpenInv, InApp, Return, Fail, objVars, sessionVars
  <1>1. CASE Outside
    <2>1. CASE Lose
      BY <2>1 DEF Lose, LoseSession, EndSession, wrapperVars, AdoWorks
    <2>2. CASE ~Lose
      <3>1. blocks = <<>> /\ blocks' = <<>>
        BY <1>1, <2>2 DEF Outside, OpenConnection, Between, ConnectionStep, OperationStep,
           ConnectBegin, ConnectBeginFails, CommitBegin, CommitBeginFails, RollbackTransStep,
           RollbackBegin, RollbackTransFails, CloseAdo, CloseAdoFails, DelRollback, DelRelease,
           RestoreAutocommit, CloseConnection, DropConnection, Dropped, wrapperVars
      <3> QED
        BY <3>1
    <2> QED
      BY <2>1, <2>2
  <1>2. ASSUME NEW w \in Writes, AppWrite(w) PROVE OpenInv'
    <2>1. blocks' # <<>> => blocks # <<>>
      BY <1>2, StateFacts DEF AppWrite
    <2>2. UNCHANGED <<step, obj, adoConn, session, trancount, needs_rollback, failing>>
          /\ pc' = "idle"
      BY <1>2 DEF AppWrite, Execute
    <2> QED
      BY <2>1, <2>2 DEF AdoWorks
  <1>3. CASE StatementFails \/ AppRaises \/ EnableFails
    <2>1. (blocks # <<>> => failing') /\ UNCHANGED <<step, blocks, obj>> /\ pc' = "idle"
      BY <1>3 DEF StatementFails, Raises, ExecuteFails, ExecuteAborted, AppRaises, Working,
         EnableFails, vars
    <2> QED
      BY <2>1
  <1>4. CASE DisableConstraintChecking \/ EnableConstraintChecking \/ CheckConstraints
    <2>1. UNCHANGED <<step, blocks, obj, adoConn, session, trancount, needs_rollback>>
          /\ pc' = "idle"
      BY <1>4 DEF DisableConstraintChecking, EnableConstraintChecking, CheckConstraints,
         Statement
    <2>2. failing' = failing \/ ~failing
      BY <1>4 DEF DisableConstraintChecking, EnableConstraintChecking, CheckConstraints, Working
    <2> QED
      BY <2>1, <2>2 DEF AdoWorks
  <1>5. CASE EnterOutermost
    <2>1. CASE SetAutocommit(FALSE)
      <3>1. trancount' = 1 /\ pc' = "idle" /\ step' = "app" /\ obj' = "held"
        BY <1>5, <2>1 DEF EnterOutermost, Between, SetAutocommit, BeginTrans
      <3> QED
        BY <3>1
    <2>2. CASE UNCHANGED blocks
      BY <1>5, <2>2 DEF EnterOutermost, Between
    <2> QED
      BY <1>5, <2>1, <2>2 DEF EnterOutermost
  <1>6. CASE EnterSavepoint \/ EnterPlain \/ LeaveInner
    <2>1. blocks # <<>>
      BY <1>6, InBlock DEF Nesting
    <2>2. /\ UNCHANGED <<step, obj, adoConn, session, trancount, needs_rollback, failing>>
          /\ pc' = "idle"
      BY <1>6, <2>1 DEF EnterSavepoint, EnterPlain, LeaveInner, Statement, vars
    <2> QED
      BY <2>1, <2>2 DEF AdoWorks
  <1>7. CASE UndoInner
    <2>1. blocks # <<>>
      BY <1>7, InBlock DEF Nesting
    <2>2. trancount' = 1 /\ pc' = "idle" /\ UNCHANGED <<step, obj>>
      BY <1>7 DEF UndoInner, Leaving, CanEnd
    <2> QED
      BY <2>1, <2>2
  <1>8. CASE UndoInnerFails
    <2>1. blocks # <<>>
      BY <1>8, InBlock DEF Nesting
    <2>2. needs_rollback' /\ pc' = "idle" /\ UNCHANGED <<step, obj>>
      BY <1>8, <2>1 DEF UndoInnerFails, Leaving, ExecuteFails, ExecuteAborted, vars
    <2> QED
      BY <2>1, <2>2
  <1>9. CASE LeaveOutermost \/ UndoOutermost
    BY <1>9 DEF LeaveOutermost, UndoOutermost, Outermost
  <1>10. CASE UNCHANGED wvars
    BY <1>10 DEF wvars, vars, wrapperVars, AdoWorks
  <1> QED
    BY <1>1, <1>2, <1>3, <1>4, <1>5, <1>6, <1>7, <1>8, <1>9, <1>10 DEF WNext, Outside, Loading

\* A load is in a block, and while its rows are checked the constraints are on.
LEMMA LoadInvNext == ASSUME WInv, [WNext]_wvars PROVE LoadInv'
  <1>0. LoadInv /\ dbChecking /\ checking \in BOOLEAN /\ CleanSaves
    BY DEF WInv, IntegrityInv, IntegrityKept, WTypeOK, LoadInv, CleanSaves
  <1>1. CASE Switched
    BY <1>0, <1>1 DEF Switched, SetChecking, DisableConstraintChecking, EnableConstraintChecking,
       LoadInv, InApp, Enabling, Working
  <1>2. CASE ~Switched
    <2>1. checking' = checking \/ checking' = TRUE
      <3>1. CASE RolledBack
        BY <1>0, <3>1 DEF RolledBack, CleanSaves, Savepoint
      <3> QED
        BY <1>0, <1>2, <3>1, CatalogSteps DEF CatalogKept, catalogVars, CatalogUndone, Savepointed,
           CatalogCommitted
    <2>2. load' = load \/ load' = "none"
      BY <1>2
      DEF WNext, OpenConnection, ConnectionStep, RestoreAutocommit, CloseConnection,
          DropConnection, Dropped, Lose, wrapperVars, AppWrite, StatementFails, AppRaises, Raises,
          EnterOutermost, EnterSavepoint, EnterPlain, LeaveInner, UndoInner, UndoInnerFails,
          Leaving, LeaveOutermost, UndoOutermost, Outermost, DisableConstraintChecking,
          EnableConstraintChecking, EnableFails, CheckConstraints, Switched, wvars
    <2>3. load # "none" /\ load' # "none" /\ blocks # <<>> => blocks' # <<>>
      <3>1. CASE Nesting
        BY <3>1, InBlock
      <3>2. ASSUME NEW w \in Writes, AppWrite(w) PROVE blocks # <<>> => blocks' # <<>>
        <4>1. blocks # <<>> => Depth # 0 /\ Depth \in DOMAIN blocks
          BY StateFacts
        <4>2. blocks # <<>> => DOMAIN blocks' = DOMAIN blocks
          BY <3>2, <4>1 DEF AppWrite
        <4> QED
          BY <4>1, <4>2
      <3>3. CASE LeaveOutermost \/ UndoOutermost
        BY <3>3 DEF LeaveOutermost, UndoOutermost, Outermost, CanLeave
      <3>4. CASE EnterOutermost
        BY <3>4 DEF EnterOutermost, Between
      <3>5. CASE Outside \/ UNCHANGED wvars
        BY <3>5 DEF Outside, OpenConnection, ConnectionStep, RestoreAutocommit, CloseConnection,
           DropConnection, Dropped, Lose, wrapperVars, wvars
      <3>6. CASE StatementFails \/ AppRaises \/ Loading
        BY <3>6 DEF StatementFails, AppRaises, Raises, Loading, DisableConstraintChecking,
           EnableConstraintChecking, EnableFails, CheckConstraints
      <3> QED
        BY <3>1, <3>2, <3>3, <3>4, <3>5, <3>6 DEF WNext, Outside, Loading, Nesting
    <2> QED
      BY <1>0, <2>1, <2>2, <2>3 DEF LoadInv
  <1> QED
    BY <1>1, <1>2

\* Disabled constraints and rows that refer to nothing stay within a transaction
\* that something keeps from being committed.
LEMMA UncleanInvNext == ASSUME WInv, [WNext]_wvars PROVE UncleanInv'
  <1>0. UncleanInv /\ OpenInv /\ LoadInv /\ CleanSaves /\ dbChecking /\ CallInv
        /\ (pending # {} => trancount = 1) /\ (blocks # <<>> => InApp)
    BY StateFacts, IntegrityParts DEF WInv, IntegrityKept
  <1>1. trancount = 1 => AdoWorks /\ obj # "none"
    BY StateFacts
  <1> USE <1>0, <1>1 DEF UncleanInv, Unclean
  <1>2. CASE checking' = TRUE /\ pending' = {}
    BY <1>2
  <1>3. CASE ConnectionStep
    <2>1. pending' = {} \/ UNCHANGED <<pending, trancount>>
      BY <1>3 DEF ConnectionStep, OperationStep, ConnectBegin, ConnectBeginFails, CommitBegin,
         CommitBeginFails, RollbackTransStep, RollbackTrans, RollbackBegin, RollbackTransFails,
         BeginTrans, CloseAdo, CloseAdoFails, DelRollback, DelRelease, Fail, sessionVars, EndSession,
         CanBegin
    <2>2. checking' = TRUE /\ UNCHANGED wrapperVars
      BY <1>3 DEF ConnectionStep, CatalogUndone
    <2> QED
      BY <2>1, <2>2 DEF wrapperVars
  <1>4. CASE OpenConnection
    <2>1. UNCHANGED <<pending, checking>> /\ ~Unclean
      BY <1>4 DEF OpenConnection, Between, InApp, Connect, ConnectFails, catalogVars, sessionVars,
         Fail
    <2> QED
      BY <2>1
  <1>5. CASE RestoreAutocommit
    <2>1. pending' = {}
      <3>1. CASE step = "connect" /\ SetAutocommitSame(TRUE)
        <4>1. trancount = 0 /\ UNCHANGED pending
          BY <3>1 DEF SetAutocommitSame, Fail, sessionVars, CallInv
        <4> QED
          BY <4>1
      <3>2. CASE SetAutocommit(TRUE) \/ SetAutocommitFails(TRUE)
        BY <3>2 DEF SetAutocommit, RollbackTrans, SetAutocommitFails, CanEnd, Fail, sessionVars
      <3> QED
        BY <1>5, <3>1, <3>2 DEF RestoreAutocommit
    <2> QED
      BY <1>2, <1>5, <2>1 DEF RestoreAutocommit, CatalogUndone
  <1>6. CASE CloseConnection
    <2>1. pending' = {} \/ UNCHANGED <<pending, trancount>>
      BY <1>6 DEF CloseConnection, CloseRollback, CloseFails, RollbackTrans, Fail, sessionVars
    <2> QED
      BY <1>6, <2>1 DEF CloseConnection, CatalogUndone
  <1>7. CASE DropConnection
    BY <1>7 DEF DropConnection, Collect, sessionVars, wrapperVars, catalogVars
  <1>8. CASE Dropped
    BY <1>8 DEF Dropped, vars, sessionVars, catalogVars
  <1>9. CASE Lose
    BY <1>2, <1>9 DEF Lose, LoseSession, EndSession, CatalogUndone
  <1>10. ASSUME NEW w \in Writes, AppWrite(w) PROVE UncleanInv'
    <2>1. /\ UNCHANGED <<checking, trancount, step, load, failing, needs_rollback>>
          /\ step = "app" /\ (w \in Dangling => ~checking)
          /\ pending' = pending \/ pending' = pending \cup {w}
      BY <1>10 DEF AppWrite, Working, InApp, Execute, catalogVars
    <2>2. blocks # <<>> => blocks' # <<>>
      <3>1. blocks # <<>> => Depth # 0 /\ Depth \in DOMAIN blocks
        BY StateFacts
      <3>2. blocks # <<>> => DOMAIN blocks' = DOMAIN blocks
        BY <1>10, <3>1 DEF AppWrite
      <3> QED
        BY <3>1, <3>2
    <2> QED
      BY <2>1, <2>2
  <1>11. CASE StatementFails \/ EnableFails
    <2>1. CASE UNCHANGED <<pending, trancount, catalogVars>>
      BY <1>11, <2>1 DEF StatementFails, EnableFails, Enabling, Raises, catalogVars, Working, InApp
    <2>2. CASE CatalogUndone /\ pending' = {}
      BY <1>2, <2>2 DEF CatalogUndone
    <2> QED
      BY <1>11, <2>1, <2>2 DEF StatementFails, EnableFails, ExecuteFails, ExecuteAborted, Fail, sessionVars
  <1>12. CASE AppRaises
    BY <1>12 DEF AppRaises, Raises, vars, sessionVars, catalogVars, Working, InApp
  <1>13. CASE EnterOutermost
    <2>1. ~Unclean /\ UNCHANGED <<pending, checking>>
      BY <1>13 DEF EnterOutermost, Between, InApp, SetAutocommit, SetAutocommitFails, BeginTrans,
         CanBegin, Fail, sessionVars, catalogVars
    <2> QED
      BY <2>1
  <1>14. CASE EnterSavepoint \/ EnterPlain \/ LeaveInner
    <2>1. UNCHANGED <<pending, checking, trancount, step, load, failing, needs_rollback>>
      BY <1>14 DEF EnterSavepoint, EnterPlain, LeaveInner, Statement, catalogVars, sessionVars, vars
    <2>2. blocks' # <<>>
      BY <1>14, InBlock DEF Nesting
    <2> QED
      BY <2>1, <2>2
  <1>15. CASE UndoInner
    <2>1. checking' = TRUE /\ Dangling \cap pending' = {}
      <3>1. PICK i \in Savepoint : pending' = saves[i].pending /\ checking' = saves[i].checking
        BY <1>15 DEF UndoInner
      <3>2. saves[i].checking = TRUE /\ Dangling \cap saves[i].pending = {}
        <4>1. i \in 1..Len(saves) /\ saves \in Seq(Save)
          BY StateFacts DEF Savepoint
        <4>2. saves[i] \in Save
          BY <4>1
        <4>3. saves[i].checking \in BOOLEAN
          BY <4>2 DEF Save
        <4> QED
          BY <4>1, <4>3 DEF CleanSaves, Savepoint
      <3> QED
        BY <3>1, <3>2
    <2> QED
      BY <2>1
  <1>16. CASE UndoInnerFails
    <2>1. needs_rollback' = TRUE /\ blocks' # <<>> /\ UNCHANGED step
      BY <1>16, InBlock DEF Nesting, UndoInnerFails, Leaving
    <2>2. UNCHANGED <<pending, trancount, checking>> \/ (checking' = TRUE /\ pending' = {})
      BY <1>16 DEF UndoInnerFails, ExecuteFails, ExecuteAborted, CatalogUndone, Fail, vars,
         sessionVars, catalogVars
    <2> QED
      BY <2>1, <2>2
  <1>17. CASE LeaveOutermost
    <2>1. ~Unclean
      BY <1>17 DEF LeaveOutermost, Normal, Outermost, CanLeave, InApp
    <2>2. (pending' = {} \/ pending' = pending) /\ checking' = TRUE
      BY <1>17, <2>1 DEF LeaveOutermost, Commit, CommitTrans, CommitFails, CommitLosesSession,
         EndSession, Fail, sessionVars, catalogVars, CatalogUndone, CatalogCommitted, WInv,
         IntegrityInv, WTypeOK
    <2> QED
      BY <2>1, <2>2
  <1>18. CASE UndoOutermost
    <2>1. UNCHANGED <<pending, trancount, checking>> /\ step' = "rollback"
      BY <1>18 DEF UndoOutermost, Outermost, Rollback, RollbackFails, Fail, sessionVars, catalogVars
    <2> QED
      BY <2>1
  <1>19. CASE DisableConstraintChecking
    <2>1. trancount = 1 /\ blocks # <<>>
      BY <1>19 DEF DisableConstraintChecking, Working, OpenInv
    <2>2. load' = "off" /\ UNCHANGED <<trancount, blocks>>
      BY <1>19 DEF DisableConstraintChecking, Statement, sessionVars
    <2> QED
      BY <2>1, <2>2
  <1>20. CASE EnableConstraintChecking
    <2>1. /\ checking' = TRUE /\ UNCHANGED <<pending, trancount, blocks, failing, step>>
          /\ load' = IF failing THEN "none" ELSE "check"
      BY <1>20 DEF EnableConstraintChecking, SetChecking, Statement, sessionVars
    <2> QED
      BY <2>1
  <1>21. CASE CheckConstraints
    <2>1. /\ UNCHANGED <<checking, pending, trancount, blocks, step>>
          /\ failing' = Reported /\ load = "check"
      BY <1>21 DEF CheckConstraints, Statement, sessionVars, catalogVars
    <2>2. checking /\ (Dangling \cap pending # {} => Reported)
      BY <2>1 DEF LoadInv, Reported
    <2> QED
      BY <2>1, <2>2
  <1>22. CASE UNCHANGED wvars
    BY <1>22 DEF wvars, vars, wrapperVars, sessionVars, catalogVars
  <1> QED
    BY <1>3, <1>4, <1>5, <1>6, <1>7, <1>8, <1>9, <1>10, <1>11, <1>12, <1>13, <1>14, <1>15, <1>16,
       <1>17, <1>18, <1>19, <1>20, <1>21, <1>22 DEF WNext

\* No savepoint remembers rows that refer to nothing, or disabled constraints.
LEMMA CleanSavesNext == ASSUME WInv, [WNext]_wvars PROVE CleanSaves'
  <1>0. CleanSaves /\ UncleanInv
    BY IntegrityParts DEF WInv
  <1>1. saves \in Seq(Save) /\ checking \in BOOLEAN
    BY StateFacts DEF WInv, IntegrityInv, WTypeOK
  <1> USE DEF CleanSaves
  <1>2. CASE CatalogKept
    BY <1>0, <1>2 DEF CatalogKept, catalogVars
  <1>3. CASE CatalogUndone \/ CatalogCommitted
    BY <1>3 DEF CatalogUndone, CatalogCommitted
  <1>4. CASE Savepointed
    <2>1. ~Unclean
      BY <1>0, <1>4 DEF Savepointed, EnterSavepoint, CanEnter, UncleanInv, InApp
    <2> DEFINE new == [sid |-> savepoint_state + 1, pending |-> pending, checking |-> checking]
    <2>2. saves' = Append(saves, new) /\ new.checking = TRUE /\ Dangling \cap new.pending = {}
      BY <1>1, <1>4, <2>1 DEF Savepointed, Unclean
    <2> HIDE DEF new
    <2>3. DOMAIN saves' = 1..(Len(saves) + 1) /\ saves'[Len(saves) + 1] = new
          /\ \A i \in 1..Len(saves) : saves'[i] = saves[i]
      BY <1>1, <2>2
    <2> QED
      BY <1>0, <1>1, <2>2, <2>3
  <1>5. CASE RolledBack
    <2>1. PICK i \in Savepoint : saves' = SubSeq(saves, 1, i)
      BY <1>5 DEF RolledBack
    <2>2. i \in 1..Len(saves)
      BY <1>1, <2>1 DEF Savepoint
    <2>3. DOMAIN saves' = 1..i /\ \A j \in 1..i : saves'[j] = saves[j]
      BY <1>1, <2>1, <2>2
    <2> QED
      BY <1>0, <1>1, <2>2, <2>3
  <1>6. CASE Switched
    BY <1>0, <1>6 DEF Switched, SetChecking
  <1> QED
    BY <1>2, <1>3, <1>4, <1>5, <1>6, CatalogSteps

LEMMA IntegrityKeptNext == ASSUME WInv, [WNext]_wvars PROVE IntegrityKept'
  <1>0. IntegrityKept /\ UncleanInv /\ OpenInv
    BY IntegrityParts DEF WInv
  <1>1. (Dangling \cap durable = {})'
    <2>1. CASE LeaveOutermost /\ durable' = durable \cup pending
      <3>1. ~Unclean
        BY <1>0, <2>1 DEF LeaveOutermost, Normal, Outermost, CanLeave, InApp, UncleanInv
      <3> QED
        BY <1>0, <2>1, <3>1 DEF IntegrityKept, Unclean
    <2>2. ASSUME NEW w \in Writes, AppWrite(w), trancount # 1, durable' = durable \cup {w}
          PROVE  (Dangling \cap durable = {})'
      <3>1. w \notin Dangling
        BY <1>0, <2>2 DEF AppWrite, UncleanInv, Unclean
      <3> QED
        BY <1>0, <2>2, <3>1 DEF IntegrityKept
    <2> QED
      BY <1>0, <2>1, <2>2, DurableSteps DEF IntegrityKept
  <1>2. dbChecking'
    <2>1. CASE Switched
      <3>1. CASE DisableConstraintChecking
        BY <1>0, <2>1, <3>1 DEF DisableConstraintChecking, Working, InApp, OpenInv, SetChecking,
           IntegrityKept
      <3>2. CASE EnableConstraintChecking
        BY <1>0, <3>2 DEF EnableConstraintChecking, SetChecking, IntegrityKept
      <3> QED
        BY <2>1, <3>1, <3>2 DEF Switched
    <2>2. CASE LeaveOutermost /\ CatalogCommitted
      BY <1>0, <2>2 DEF LeaveOutermost, Normal, Outermost, CanLeave, InApp, UncleanInv, Unclean,
         CatalogCommitted
    <2> QED
      BY <1>0, <2>1, <2>2, CatalogSteps DEF IntegrityKept, CatalogKept, catalogVars, CatalogUndone,
         Savepointed, RolledBack
  <1>3. (step = "app" /\ blocks = <<>> => checking)'
    BY UncleanInvNext DEF UncleanInv, Unclean
  <1> QED
    BY <1>1, <1>2, <1>3 DEF IntegrityKept

LEMMA IntegrityNext == ASSUME WInv, [WNext]_wvars PROVE IntegrityInv'
  BY WTypeInv, IntegrityKeptNext, OpenInvNext, UncleanInvNext, LoadInvNext, CleanSavesNext
  DEF IntegrityInv, OpenInv, UncleanInv, LoadInv, CleanSaves

(* Savepoints: what a rollback to one would bring back.                    *)

LEMMA EnteredBlock ==
  ASSUME WInv, EnterSavepoint \/ EnterPlain
  PROVE  /\ DOMAIN blocks' = 1..(Depth + 1) /\ \A j \in 1..Depth : blocks'[j] = blocks[j]
         /\ blocks'[Depth + 1].work = {}
         /\ \/ blocks'[Depth + 1].sid = NoSavepoint
            \/ EnterSavepoint /\ blocks'[Depth + 1].sid = savepoint_state + 1
  <1>1. \E sid \in {NoSavepoint, savepoint_state + 1} :
           /\ blocks' = Append(blocks, [sid |-> sid, work |-> {}])
           /\ sid = NoSavepoint \/ EnterSavepoint
    BY DEF EnterSavepoint, EnterPlain
  <1>2. PICK sid \in {NoSavepoint, savepoint_state + 1} :
           /\ blocks' = Append(blocks, [sid |-> sid, work |-> {}])
           /\ sid = NoSavepoint \/ EnterSavepoint
    BY <1>1
  <1> DEFINE b == [sid |-> sid, work |-> {}]
  <1>3. b \in Block /\ b.sid = sid /\ b.work = {}
    BY DEF Block, NoSavepoint, WInv, IntegrityInv, WTypeOK
  <1>4. blocks' = Append(blocks, b)
    BY <1>2
  <1> HIDE DEF b
  <1>5. /\ DOMAIN blocks' = 1..(Depth + 1) /\ blocks'[Depth + 1] = b
        /\ \A j \in 1..Depth : blocks'[j] = blocks[j]
    BY <1>3, <1>4, AppendBlock, StateFacts
  <1> QED
    BY <1>2, <1>3, <1>5

\* What only the blocks around an open block have written does not change while
\* it is open: a write goes to the innermost one, and so do those of a block
\* that is left normally.
LEMMA WorkAroundKept ==
  ASSUME WInv, [WNext]_wvars
  PROVE  \A k \in DOMAIN blocks' :
            k \in DOMAIN blocks => /\ blocks'[k].sid = blocks[k].sid
                                   /\ WorkAround(k)' = WorkAround(k)
  <1>0. blocks \in Seq(Block) /\ Depth \in Nat /\ DOMAIN blocks = 1..Depth
        /\ (Depth = 0 <=> blocks = <<>>)
    BY StateFacts
  <1> DEFINE Kept(k) == blocks'[k].sid = blocks[k].sid /\ WorkAround(k)' = WorkAround(k)
  <1> SUFFICES ASSUME NEW k \in DOMAIN blocks', k \in DOMAIN blocks PROVE Kept(k)
    OBVIOUS
  \* It is enough that the blocks before k are the same.
  <1>1. (\A j \in 1..(k - 1) : blocks'[j].work = blocks[j].work) => WorkAround(k)' = WorkAround(k)
    BY DEF WorkAround
  <1>2. CASE UNCHANGED blocks
    BY <1>1, <1>2
  <1>3. ASSUME NEW w \in Writes, AppWrite(w), Depth # 0 PROVE Kept(k)
    <2>1. blocks' = [blocks EXCEPT ![Depth].work = @ \cup {w}]
      BY <1>3 DEF AppWrite
    <2>2. /\ \A j \in DOMAIN blocks : j # Depth => blocks'[j] = blocks[j]
          /\ blocks'[Depth].sid = Top.sid
      BY <1>0, <1>3, <2>1, WriteBlock
    <2>3. \A j \in 1..(k - 1) : j \in DOMAIN blocks /\ j # Depth
      BY <1>0
    <2> QED
      BY <1>0, <1>1, <2>2, <2>3 DEF Top
  <1>4. CASE EnterSavepoint \/ EnterPlain
    BY <1>0, <1>1, <1>4, EnteredBlock
  <1>5. CASE LeaveInner
    <2>1. /\ DOMAIN blocks' = 1..(Depth - 1)
          /\ \A j \in 1..(Depth - 2) : blocks'[j] = blocks[j]
          /\ blocks'[Depth - 1].sid = blocks[Depth - 1].sid
      BY <1>0, <1>5, MergeBlock DEF LeaveInner
    <2> QED
      BY <1>0, <1>1, <2>1
  <1>6. CASE UndoInner \/ UndoInnerFails
    <2>1. Depth > 1 /\ blocks' = Outer
      BY <1>6 DEF UndoInner, UndoInnerFails, Leaving
    <2>2. DOMAIN Outer = 1..(Depth - 1) /\ \A j \in 1..(Depth - 1) : Outer[j] = blocks[j]
      BY <1>0, <2>1, OuterBlocks
    <2> QED
      BY <1>0, <1>1, <2>1, <2>2
  <1>7. CASE blocks = <<>> \/ blocks' = <<>>
    BY <1>7
  <1>8. CASE StatementFails \/ AppRaises \/ Loading
    BY <1>2, <1>8 DEF StatementFails, AppRaises, Raises, Loading, DisableConstraintChecking,
       EnableConstraintChecking, EnableFails, CheckConstraints
  <1>9. CASE Outside \/ UNCHANGED wvars
    BY <1>2, <1>9 DEF Outside, OpenConnection, ConnectionStep, RestoreAutocommit, CloseConnection,
       DropConnection, Dropped, Lose, wrapperVars, wvars
  <1>10. CASE EnterOutermost \/ LeaveOutermost \/ UndoOutermost
    BY <1>7, <1>10 DEF EnterOutermost, Between, LeaveOutermost, UndoOutermost, Outermost
  <1> QED
    BY <1>0, <1>2, <1>3, <1>4, <1>5, <1>6, <1>7, <1>8, <1>9, <1>10 DEF WNext, Outside, Loading

\* A block that was not there before is the innermost one and has written nothing.
LEMMA NewBlock ==
  ASSUME WInv, [WNext]_wvars
  PROVE  \A k \in DOMAIN blocks' : k \notin DOMAIN blocks =>
            /\ k = Depth + 1 /\ blocks'[k].work = {}
            /\ \/ blocks'[k].sid = NoSavepoint
               \/ Savepointed /\ blocks'[k].sid = savepoint_state + 1
  <1>0. blocks \in Seq(Block) /\ Depth \in Nat /\ DOMAIN blocks = 1..Depth
        /\ (Depth = 0 <=> blocks = <<>>)
    BY StateFacts
  <1> SUFFICES ASSUME NEW k \in DOMAIN blocks', k \notin DOMAIN blocks
               PROVE  /\ k = Depth + 1 /\ blocks'[k].work = {}
                      /\ \/ blocks'[k].sid = NoSavepoint
                         \/ Savepointed /\ blocks'[k].sid = savepoint_state + 1
    OBVIOUS
  <1>1. CASE UNCHANGED blocks \/ blocks' = <<>>
    BY <1>1
  <1>2. ASSUME NEW w \in Writes, AppWrite(w), Depth # 0 PROVE FALSE
    BY <1>0, <1>2, WriteBlock DEF AppWrite
  <1>3. CASE EnterSavepoint \/ EnterPlain
    <2>1. EnterSavepoint => Savepointed
      BY DEF EnterSavepoint, Savepointed
    <2> QED
      BY <1>0, <1>3, <2>1, EnteredBlock
  <1>4. CASE EnterOutermost
    <2> DEFINE b == [sid |-> NoSavepoint, work |-> {}]
    <2>1. blocks' = blocks \/ (blocks' = <<b>> /\ blocks = <<>>)
      BY <1>4 DEF EnterOutermost, Between
    <2>2. b.sid = NoSavepoint /\ b.work = {}
      OBVIOUS
    <2> HIDE DEF b
    <2>3. blocks' = <<b>> => DOMAIN blocks' = {1} /\ blocks'[1] = b
      OBVIOUS
    <2> QED
      BY <1>0, <1>1, <2>1, <2>2, <2>3
  <1>5. CASE LeaveInner
    <2>1. DOMAIN blocks' = 1..(Depth - 1)
      BY <1>0, <1>5, MergeBlock DEF LeaveInner
    <2> QED
      BY <1>0, <2>1
  <1>6. CASE UndoInner \/ UndoInnerFails
    <2>1. Depth > 1 /\ blocks' = Outer
      BY <1>6 DEF UndoInner, UndoInnerFails, Leaving
    <2>2. DOMAIN Outer = 1..(Depth - 1)
      BY <1>0, <2>1, OuterBlocks
    <2> QED
      BY <1>0, <2>1, <2>2
  <1>7. CASE StatementFails \/ AppRaises \/ Loading
    BY <1>1, <1>7 DEF StatementFails, AppRaises, Raises, Loading, DisableConstraintChecking,
       EnableConstraintChecking, EnableFails, CheckConstraints
  <1>8. CASE Outside \/ UNCHANGED wvars
    BY <1>1, <1>8 DEF Outside, OpenConnection, ConnectionStep, RestoreAutocommit, CloseConnection,
       DropConnection, Dropped, Lose, wrapperVars, wvars
  <1>9. CASE LeaveOutermost \/ UndoOutermost
    BY <1>1, <1>9 DEF LeaveOutermost, UndoOutermost, Outermost
  <1>10. ASSUME NEW w \in Writes, AppWrite(w), Depth = 0 PROVE UNCHANGED blocks
    BY <1>10 DEF AppWrite
  <1> QED
    BY <1>1, <1>2, <1>3, <1>4, <1>5, <1>6, <1>7, <1>8, <1>9, <1>10 DEF WNext, Outside, Loading

LEMMA SavepointNumbers ==
  ASSUME WInv, [WNext]_wvars
  PROVE  /\ savepoint_state \in Nat /\ savepoint_state' \in Nat
         /\ savepoint_state' >= savepoint_state
         /\ Savepointed => savepoint_state' = savepoint_state + 1
  <1>1. savepoint_state \in Nat
    BY DEF WInv, IntegrityInv, WTypeOK
  <1>2. Savepointed => savepoint_state' = savepoint_state + 1
    BY DEF Savepointed, EnterSavepoint
  <1>3. savepoint_state' = savepoint_state \/ Savepointed
    BY CatalogSteps
    DEF WNext, OpenConnection, ConnectionStep, RestoreAutocommit, CloseConnection, DropConnection,
        Dropped, Lose, wrapperVars, AppWrite, StatementFails, AppRaises, Raises, EnterOutermost,
        EnterSavepoint, EnterPlain, LeaveInner, UndoInner, UndoInnerFails, Leaving, LeaveOutermost,
        UndoOutermost, Outermost, DisableConstraintChecking, EnableConstraintChecking, EnableFails,
        CheckConstraints, wvars, Savepointed
  <1> QED
    BY <1>1, <1>2, <1>3

\* Where there are savepoints, their transaction is open, and has lost writes by a
\* rollback to one of them only.
LEMMA TransactionStays ==
  ASSUME WInv, [WNext]_wvars, saves' # <<>>
  PROVE  trancount' = 1 /\ (RolledBack \/ pending \subseteq pending')
  <1>0. /\ saves # <<>> => trancount = 1
        /\ trancount = 1 => AdoWorks /\ obj # "none"
    BY StateFacts DEF WInv, SavesInv
  <1> USE <1>0 DEF Fail, sessionVars, catalogVars, CatalogUndone, CatalogCommitted
  <1>1. CASE Outside
    <2>1. OpenConnection \/ DropConnection \/ Dropped
      BY <1>1 DEF Outside, ConnectionStep, RestoreAutocommit, CloseConnection, Lose
    <2>2. saves' = saves
      BY <2>1 DEF OpenConnection, DropConnection, Dropped
    <2>3. ~OpenConnection
      BY <2>2 DEF OpenConnection
    <2> QED
      BY <2>1, <2>2, <2>3 DEF DropConnection, Collect, Dropped, vars
  <1>2. ASSUME NEW w \in Writes, AppWrite(w) PROVE trancount' = 1 /\ pending \subseteq pending'
    BY <1>2 DEF AppWrite, Execute
  <1>3. CASE StatementFails \/ AppRaises \/ EnableFails
    BY <1>3 DEF StatementFails, AppRaises, EnableFails, ExecuteFails, vars
  <1>4. CASE DisableConstraintChecking \/ EnableConstraintChecking \/ CheckConstraints
    BY <1>4 DEF DisableConstraintChecking, EnableConstraintChecking, SetChecking, CheckConstraints,
       Statement
  <1>5. CASE EnterOutermost
    BY <1>5 DEF EnterOutermost, SetAutocommit, SetAutocommitFails, BeginTrans
  <1>6. CASE EnterSavepoint
    BY <1>6 DEF EnterSavepoint, CanEnd, Statement
  <1>7. CASE EnterPlain \/ LeaveInner \/ UNCHANGED wvars
    BY <1>7 DEF EnterPlain, LeaveInner, vars, wvars
  <1>8. CASE UndoInner
    BY <1>8 DEF UndoInner, CanEnd, RolledBack
  <1>9. CASE UndoInnerFails
    BY <1>9 DEF UndoInnerFails, ExecuteFails, vars
  <1>10. CASE LeaveOutermost \/ UndoOutermost
    BY <1>10 DEF LeaveOutermost, CommitFails, UndoOutermost, Rollback, RollbackFails
  <1> QED
    BY <1>1, <1>2, <1>3, <1>4, <1>5, <1>6, <1>7, <1>8, <1>9, <1>10 DEF WNext, Outside, Loading

LEMMA SavesInvNext == ASSUME WInv, [WNext]_wvars PROVE SavesInv'
  <1>0. SavesInv /\ saves \in Seq(Save) /\ blocks \in Seq(Block)
    BY StateFacts DEF WInv
  <1>1. /\ savepoint_state \in Nat /\ savepoint_state' \in Nat
        /\ savepoint_state' >= savepoint_state
        /\ Savepointed => savepoint_state' = savepoint_state + 1
    BY SavepointNumbers
  \* Every savepoint afterwards is one from before, or the one just made.
  <1> DEFINE Old == \A i \in DOMAIN saves' : i \in DOMAIN saves /\ saves'[i] = saves[i]
             New == /\ Savepointed
                    /\ DOMAIN saves' = 1..(Len(saves) + 1)
                    /\ \A i \in 1..Len(saves) : saves'[i] = saves[i]
                    /\ saves'[Len(saves) + 1].sid = savepoint_state + 1
                    /\ saves'[Len(saves) + 1].pending = pending
  <1>2. Old \/ New
    <2>1. CASE CatalogKept \/ Switched
      BY <2>1 DEF CatalogKept, catalogVars, Switched, SetChecking
    <2>2. CASE CatalogUndone \/ CatalogCommitted
      BY <2>2 DEF CatalogUndone, CatalogCommitted
    <2>3. CASE Savepointed
      <3> DEFINE new == [sid |-> savepoint_state + 1, pending |-> pending, checking |-> checking]
      <3>1. saves' = Append(saves, new) /\ new.sid = savepoint_state + 1 /\ new.pending = pending
        BY <2>3 DEF Savepointed
      <3> HIDE DEF new
      <3> QED
        BY <1>0, <2>3, <3>1
    <2>4. CASE RolledBack
      <3>1. PICK i \in Savepoint : saves' = SubSeq(saves, 1, i)
        BY <2>4 DEF RolledBack
      <3>2. i \in 1..Len(saves)
        BY <1>0, <3>1 DEF Savepoint
      <3>3. DOMAIN saves' = 1..i /\ \A j \in 1..i : saves'[j] = saves[j]
        BY <1>0, <3>1, <3>2
      <3> QED
        BY <1>0, <3>2, <3>3
    <2> QED
      BY <2>1, <2>2, <2>3, <2>4, CatalogSteps
  <1>3. saves' # <<>> => trancount' = 1
    BY TransactionStays
  <1>4. (\A i \in DOMAIN saves : saves[i].sid \in 1..savepoint_state)'
    BY <1>0, <1>1, <1>2 DEF SavesInv
  <1>5. (\A i, j \in DOMAIN saves : i <= j => saves[i].pending \subseteq saves[j].pending)'
    BY <1>0, <1>2 DEF SavesInv
  <1>6. (\A i \in DOMAIN saves : saves[i].pending \subseteq pending)'
    <2> SUFFICES ASSUME NEW i \in DOMAIN saves' PROVE saves'[i].pending \subseteq pending'
      OBVIOUS
    <2>1. saves' # <<>>
      OBVIOUS
    <2>2. RolledBack \/ pending \subseteq pending'
      BY <2>1, TransactionStays
    <2>3. saves'[i].pending \subseteq pending
      BY <1>0, <1>2 DEF SavesInv
    <2>4. CASE RolledBack
      <3>1. PICK k \in Savepoint : pending' = saves[k].pending /\ saves' = SubSeq(saves, 1, k)
        BY <2>4 DEF RolledBack
      <3>2. k \in 1..Len(saves)
        BY <1>0, <3>1 DEF Savepoint
      <3>3. DOMAIN saves' = 1..k /\ \A j \in 1..k : saves'[j] = saves[j]
        BY <1>0, <3>1, <3>2
      <3>4. i \in 1..k /\ i \in DOMAIN saves /\ k \in DOMAIN saves
        BY <1>0, <3>2, <3>3
      <3> QED
        BY <1>0, <3>1, <3>3, <3>4 DEF SavesInv
    <2> QED
      BY <2>2, <2>3, <2>4
  <1>7. (\A k \in DOMAIN blocks : blocks[k].sid <= savepoint_state)'
    <2> SUFFICES ASSUME NEW k \in DOMAIN blocks' PROVE blocks'[k].sid <= savepoint_state'
      OBVIOUS
    <2>1. CASE k \in DOMAIN blocks
      <3>1. blocks[k].sid \in Nat /\ blocks[k].sid <= savepoint_state
        <4>1. blocks[k] \in Block
          BY <1>0, <2>1
        <4> QED
          BY <1>0, <2>1, <4>1 DEF SavesInv, Block
      <3>2. blocks'[k].sid = blocks[k].sid
        BY <2>1, WorkAroundKept
      <3> QED
        BY <1>1, <3>1, <3>2
    <2>2. CASE k \notin DOMAIN blocks
      BY <1>1, <2>2, NewBlock DEF NoSavepoint
    <2> QED
      BY <2>1, <2>2
  <1>8. (\A k \in DOMAIN blocks, i \in DOMAIN saves :
            saves[i].sid = blocks[k].sid => saves[i].pending = WorkAround(k))'
    <2> SUFFICES ASSUME NEW k \in DOMAIN blocks', NEW i \in DOMAIN saves',
                        saves'[i].sid = blocks'[k].sid
                 PROVE  saves'[i].pending = WorkAround(k)'
      OBVIOUS
    <2>1. CASE k \in DOMAIN blocks /\ i \in DOMAIN saves /\ saves'[i] = saves[i]
      BY <1>0, <2>1, WorkAroundKept DEF SavesInv
    \* A block from before is not one of the savepoint just made ...
    <2>2. CASE k \in DOMAIN blocks /\ New /\ i = Len(saves) + 1
      <3>1. blocks[k].sid \in Nat /\ blocks[k].sid <= savepoint_state
        <4>1. blocks[k] \in Block
          BY <1>0, <2>2
        <4> QED
          BY <1>0, <2>2, <4>1 DEF SavesInv, Block
      <3>2. blocks'[k].sid = blocks[k].sid
        BY <2>2, WorkAroundKept
      <3> QED
        BY <1>1, <2>2, <3>1, <3>2
    \* ... and the block just entered is not one of a savepoint from before.
    <2>3. CASE k \notin DOMAIN blocks
      <3>1. saves'[i].sid \in 1..savepoint_state'
        BY <1>4
      <3>2. Savepointed /\ saves'[i].sid = savepoint_state + 1 /\ k = Depth + 1
        BY <1>1, <2>3, <3>1, NewBlock DEF NoSavepoint
      <3>3. i = Len(saves) + 1 /\ New
        <4>1. i \in DOMAIN saves => saves[i].sid \in 1..savepoint_state
          BY <1>0 DEF SavesInv
        <4>2. ~(i \in DOMAIN saves /\ saves'[i] = saves[i])
          BY <1>1, <3>2, <4>1
        <4>3. DOMAIN saves = 1..Len(saves) /\ Len(saves) \in Nat
          BY <1>0
        <4> QED
          BY <1>2, <4>2, <4>3
      <3>4. pending = Union(Works)
        BY <3>2, StateFacts, InBlock
        DEF Savepointed, EnterSavepoint, CanEnter, CanEnd, PendingIsWork, WInv, Nesting
      <3>5. Union(Works) = UNION {blocks[j].work : j \in 1..Depth}
        BY StateFacts DEF Union, Works
      <3>6. k - 1 = Depth /\ WorkAround(k)' = UNION {blocks'[j].work : j \in 1..(k - 1)}
        BY <3>2, StateFacts DEF WorkAround
      <3>7. \A j \in 1..Depth : blocks'[j] = blocks[j]
        BY <3>2, EnteredBlock DEF Savepointed
      <3>8. WorkAround(k)' = pending
        BY <3>4, <3>5, <3>6, <3>7
      <3> QED
        BY <3>2, <3>3, <3>8
    <2> QED
      BY <1>2, <2>1, <2>2, <2>3, <1>0
  <1> QED
    BY <1>3, <1>4, <1>5, <1>6, <1>7, <1>8 DEF SavesInv

(* Whose writes are pending and durable.                                   *)

LEMMA IssuedGrows == ASSUME [WNext]_wvars PROVE issued \subseteq issued'
  <1> USE DEF Fail, historyVars, Boundary
  <1>1. CASE ConnectionStep
    BY <1>1 DEF ConnectionStep, OperationStep, ConnectBegin, ConnectBeginFails, CommitBegin,
       CommitBeginFails, RollbackTransStep, RollbackBegin, RollbackTransFails,
       CloseAdo, CloseAdoFails, DelRollback, DelRelease
  <1>2. CASE OpenConnection \/ CloseConnection \/ DropConnection
    BY <1>2 DEF OpenConnection, Connect, ConnectFails, CloseConnection, CloseRollback, CloseFails,
       DropConnection, Collect
  <1>3. CASE RestoreAutocommit \/ Dropped \/ Lose
    BY <1>3 DEF RestoreAutocommit, SetAutocommit, SetAutocommitFails, SetAutocommitSame, Dropped,
       Lose, LoseSession, vars
  <1>4. CASE LeaveOutermost \/ UndoOutermost \/ EnterOutermost
    BY <1>4 DEF LeaveOutermost, Commit, CommitFails, CommitLosesSession, UndoOutermost,
       Rollback, RollbackFails, EnterOutermost, SetAutocommit, SetAutocommitFails
  <1>5. CASE (\E w \in Writes : AppWrite(w)) \/ StatementFails \/ AppRaises \/ Loading
    BY <1>5 DEF AppWrite, Execute, StatementFails, ExecuteFails, ExecuteAborted, AppRaises, Loading,
       DisableConstraintChecking, EnableConstraintChecking, EnableFails, CheckConstraints,
       Statement, vars
  <1>6. CASE Nesting \/ UNCHANGED wvars
    BY <1>6 DEF Nesting, EnterSavepoint, EnterPlain, LeaveInner, UndoInner, UndoInnerFails,
       ExecuteFails, ExecuteAborted, Statement, vars, wvars
  <1> QED
    BY <1>1, <1>2, <1>3, <1>4, <1>5, <1>6 DEF WNext, Loading, Nesting

\* What an open block has written was written in an open block before, or now.
LEMMA WorkSteps ==
  ASSUME WInv, [WNext]_wvars
  PROVE  \A k \in DOMAIN blocks', x \in Writes :
            x \in blocks'[k].work => \/ \E j \in DOMAIN blocks : x \in blocks[j].work
                                     \/ AppWrite(x) /\ blocks # <<>>
  <1>0. blocks \in Seq(Block) /\ Depth \in Nat /\ DOMAIN blocks = 1..Depth
        /\ (Depth = 0 <=> blocks = <<>>)
    BY StateFacts
  <1> SUFFICES ASSUME NEW k \in DOMAIN blocks', NEW x \in Writes, x \in blocks'[k].work,
                      ~\E j \in DOMAIN blocks : x \in blocks[j].work
               PROVE  AppWrite(x) /\ blocks # <<>>
    OBVIOUS
  <1>1. k \in DOMAIN blocks
    BY NewBlock
  <1>2. CASE blocks'[k].work = blocks[k].work
    BY <1>1, <1>2
  <1>3. ASSUME NEW w \in Writes, AppWrite(w) PROVE AppWrite(x) /\ blocks # <<>>
    <2>1. Depth # 0 /\ blocks' = [blocks EXCEPT ![Depth].work = @ \cup {w}]
      BY <1>0, <1>1, <1>3 DEF AppWrite
    <2>2. /\ \A j \in DOMAIN blocks : j # Depth => blocks'[j] = blocks[j]
          /\ blocks'[Depth].work = Top.work \cup {w}
      BY <1>0, <2>1, WriteBlock
    <2>3. x = w
      BY <1>0, <1>1, <2>2 DEF Top
    <2> QED
      BY <1>0, <1>3, <2>1, <2>3
  <1>4. CASE LeaveInner
    <2>1. /\ Depth > 1 /\ DOMAIN blocks' = 1..(Depth - 1)
          /\ \A j \in 1..(Depth - 2) : blocks'[j] = blocks[j]
          /\ blocks'[Depth - 1].work = blocks[Depth - 1].work \cup Top.work
      BY <1>0, <1>4, MergeBlock DEF LeaveInner
    <2>2. Depth - 1 \in DOMAIN blocks /\ Depth \in DOMAIN blocks
      BY <1>0, <2>1
    <2>3. k = Depth - 1
      BY <1>0, <1>1, <2>1
    <2> QED
      BY <2>1, <2>2, <2>3 DEF Top
  <1>5. CASE UndoInner \/ UndoInnerFails
    <2>1. Depth > 1 /\ blocks' = Outer
      BY <1>5 DEF UndoInner, UndoInnerFails, Leaving
    <2>2. DOMAIN Outer = 1..(Depth - 1) /\ \A j \in 1..(Depth - 1) : Outer[j] = blocks[j]
      BY <1>0, <2>1, OuterBlocks
    <2> QED
      BY <1>1, <2>1, <2>2
  <1>6. CASE EnterSavepoint \/ EnterPlain
    BY <1>0, <1>1, <1>6, EnteredBlock
  <1>7. CASE StatementFails \/ AppRaises \/ Loading
    BY <1>1, <1>7 DEF StatementFails, AppRaises, Raises, Loading, DisableConstraintChecking,
       EnableConstraintChecking, EnableFails, CheckConstraints
  <1>8. CASE Outside \/ UNCHANGED wvars
    BY <1>1, <1>8 DEF Outside, OpenConnection, ConnectionStep, RestoreAutocommit, CloseConnection,
       DropConnection, Dropped, Lose, wrapperVars, wvars
  <1>9. CASE LeaveOutermost \/ UndoOutermost \/ EnterOutermost
    <2>1. blocks = <<>> \/ blocks' = <<>>
      BY <1>9 DEF LeaveOutermost, UndoOutermost, Outermost, EnterOutermost, Between
    <2> QED
      BY <1>1, <2>1
  <1> QED
    BY <1>3, <1>4, <1>5, <1>6, <1>7, <1>8, <1>9 DEF WNext, Outside, Loading

\* The last outermost block is another one when one is left; what the application
\* is told of it changes when autocommit is on again.
LEMMA LastSteps ==
  ASSUME [WNext]_wvars
  PROVE  \/ UNCHANGED last
         \/ LeaveOutermost /\ last' = [how |-> "unknown", work |-> Top.work]
         \/ UndoOutermost /\ last' = [how |-> "undone", work |-> Top.work]
         \/ RestoreAutocommit /\ step = "commit" /\ ret.out = "ok"
            /\ last' = [last EXCEPT !.how = "committed"]
  <1>1. CASE Outside
    BY <1>1 DEF Outside, OpenConnection, ConnectionStep, RestoreAutocommit, CloseConnection,
       DropConnection, Dropped, Lose, wrapperVars
  <1>2. CASE LeaveOutermost \/ UndoOutermost
    BY <1>2 DEF LeaveOutermost, UndoOutermost, Outermost
  <1>3. CASE (\E w \in Writes : AppWrite(w)) \/ StatementFails \/ AppRaises \/ Loading
             \/ EnterOutermost \/ Nesting \/ UNCHANGED wvars
    BY <1>3 DEF AppWrite, StatementFails, AppRaises, Raises, Loading, DisableConstraintChecking,
       EnableConstraintChecking, EnableFails, CheckConstraints, EnterOutermost, Nesting,
       EnterSavepoint, EnterPlain, LeaveInner, UndoInner, UndoInnerFails, Leaving, wvars, wrapperVars
  <1> QED
    BY <1>1, <1>2, <1>3 DEF WNext, Outside, Loading, Nesting

\* When the outermost block is left, it is the one block there is.
LEMMA LeavingOutermost ==
  ASSUME WInv, LeaveOutermost \/ UndoOutermost
  PROVE  /\ DOMAIN blocks = {1} /\ Top = blocks[1] /\ Top \in Block /\ blocks # <<>>
         /\ Union(Works) = Top.work
         /\ LeaveOutermost /\ AdoWorks => trancount = 1 /\ pending = Top.work
  <1>1. Depth = 1
    BY DEF LeaveOutermost, UndoOutermost, Outermost
  <1>2. DOMAIN blocks = {1} /\ Top = blocks[1] /\ Top \in Block /\ blocks # <<>>
    BY <1>1, StateFacts, OuterBlocks DEF Top
  <1>3. Union(Works) = Top.work
    BY <1>2 DEF Union, Works
  <1>4. LeaveOutermost /\ AdoWorks => trancount = 1 /\ pending = Top.work
    BY <1>2, <1>3, StateFacts DEF LeaveOutermost, Normal, WInv, PendingIsWork
  <1> QED
    BY <1>2, <1>3, <1>4

LEMMA BlockOutcomeNext == ASSUME WInv, [WNext]_wvars PROVE BlockOutcome'
  <1>0. BlockOutcome /\ WorkInv
    BY DEF WInv
  <1>1. CASE UNCHANGED last
    <2>1. CASE UNCHANGED durable
      BY <1>0, <1>1, <2>1 DEF BlockOutcome
    <2>2. ASSUME NEW w \in Writes, w \notin issued, durable' = durable \cup {w}
          PROVE  BlockOutcome'
      BY <1>0, <1>1, <2>2 DEF BlockOutcome, WorkInv
    <2>3. CASE LeaveOutermost /\ AdoWorks /\ durable' = durable \cup pending
      <3>1. last' = [how |-> "unknown", work |-> Top.work]
        BY <2>3 DEF LeaveOutermost, Outermost
      <3> QED
        BY <2>3, <3>1, LeavingOutermost DEF BlockOutcome
    <2> QED
      BY <2>1, <2>2, <2>3, DurableSteps
  <1>2. CASE LeaveOutermost /\ last' = [how |-> "unknown", work |-> Top.work]
    <2>1. CASE durable' = durable \cup pending /\ AdoWorks
      BY <1>2, <2>1, LeavingOutermost DEF BlockOutcome
    <2>2. CASE UNCHANGED durable
      <3>1. Top.work \cap durable = {}
        BY <1>0, <1>2, LeavingOutermost DEF WorkInv
      <3> QED
        BY <1>2, <2>2, <3>1 DEF BlockOutcome
    <2>3. ~(\E w \in Writes : AppWrite(w) /\ blocks = <<>>)
      BY <1>2, LeavingOutermost
    <2> QED
      BY <2>1, <2>2, <2>3, DurableSteps
  <1>3. CASE UndoOutermost /\ last' = [how |-> "undone", work |-> Top.work]
    <2>1. Top.work \cap durable = {}
      BY <1>0, <1>3, LeavingOutermost DEF WorkInv
    <2>2. UNCHANGED durable
      BY <1>3 DEF UndoOutermost, Rollback, RollbackFails, Fail, sessionVars
    <2> QED
      BY <1>3, <2>1, <2>2 DEF BlockOutcome
  <1>4. CASE RestoreAutocommit /\ step = "commit" /\ ret.out = "ok"
             /\ last' = [last EXCEPT !.how = "committed"]
    <2>1. last.work \subseteq durable
      BY <1>0, <1>4 DEF WorkInv
    <2>2. UNCHANGED durable
      BY <1>4 DEF RestoreAutocommit, SetAutocommit, SetAutocommitFails, RollbackTrans, BeginTrans,
         Fail, sessionVars
    <2>3. last'.work = last.work /\ last'.how = "committed"
      BY <1>4 DEF WInv, IntegrityInv, WTypeOK
    <2> QED
      BY <2>1, <2>2, <2>3 DEF BlockOutcome
  <1> QED
    BY <1>1, <1>2, <1>3, <1>4, LastSteps

LEMMA WorkInvNext == ASSUME WInv, [WNext]_wvars PROVE WorkInv'
  <1>0. WorkInv /\ TypeOK /\ pending \cup durable \subseteq issued
        /\ (pending # {} => trancount = 1)
    BY StateFacts DEF WInv, IInv
  <1>1. issued \subseteq issued'
    BY IssuedGrows
  <1>2. (\A k \in DOMAIN blocks : blocks[k].work \subseteq issued \ durable)'
    <2> SUFFICES ASSUME NEW k \in DOMAIN blocks', NEW x \in blocks'[k].work
                 PROVE  x \in issued' /\ x \notin durable'
      OBVIOUS
    <2>0. x \in Writes
      <3>1. blocks' \in Seq(Block)
        BY BlocksType
      <3>2. blocks'[k] \in Block
        BY <3>1
      <3> QED
        BY <3>2 DEF Block
    <2>1. ASSUME NEW j \in DOMAIN blocks, x \in blocks[j].work
          PROVE  x \in issued' /\ x \notin durable'
      <3>1. x \in issued /\ x \notin durable /\ blocks # <<>>
        BY <1>0, <2>1 DEF WorkInv
      <3>2. ~LeaveOutermost
        BY DEF LeaveOutermost, Outermost
      <3>3. UNCHANGED durable
        BY <3>1, <3>2, DurableSteps
      <3> QED
        BY <1>1, <3>1, <3>3
    <2>2. CASE AppWrite(x) /\ blocks # <<>>
      <3>1. trancount = 1 /\ x \notin issued /\ issued' = issued \cup {x}
        BY <2>2 DEF AppWrite, Execute, Working, WInv, IntegrityInv
      <3>2. UNCHANGED durable
        BY <2>2, <3>1 DEF AppWrite, Execute
      <3> QED
        BY <1>0, <3>1, <3>2
    <2> QED
      BY <2>0, <2>1, <2>2, WorkSteps
  <1>3. (last.work \subseteq issued)'
    <2>1. last'.work = last.work \/ (last'.work = Top.work /\ (LeaveOutermost \/ UndoOutermost))
      BY LastSteps DEF WInv, IntegrityInv, WTypeOK
    <2>2. LeaveOutermost \/ UndoOutermost => Top.work \subseteq issued
      BY <1>0, LeavingOutermost DEF WorkInv
    <2> QED
      BY <1>0, <1>1, <2>1, <2>2 DEF WorkInv
  <1>4. (blocks # <<>> => pending \cap last.work = {})'
    <2> SUFFICES ASSUME blocks' # <<>> PROVE pending' \cap last'.work = {}
      OBVIOUS
    <2>1. ~LeaveOutermost /\ ~UndoOutermost
      BY DEF LeaveOutermost, UndoOutermost, Outermost
    <2>2. last'.work = last.work
      BY <2>1, LastSteps DEF WInv, IntegrityInv, WTypeOK
    <2>3. CASE blocks = <<>>
      <3>1. pending' = {}
        <4>1. EnterOutermost /\ SetAutocommit(FALSE)
          <5>1. ~Nesting
            BY <2>3, InBlock
          <5>2. \A w \in Writes : ~AppWrite(w)
            BY <2>3, StateFacts DEF AppWrite
          <5> QED
            BY <2>1, <2>3, <5>1, <5>2
            DEF WNext, Nesting, EnterOutermost, OpenConnection, ConnectionStep, RestoreAutocommit,
                CloseConnection, DropConnection, Dropped, Lose, wrapperVars, StatementFails,
                AppRaises, Raises, DisableConstraintChecking, EnableConstraintChecking,
                EnableFails, CheckConstraints, wvars
        <4>2. pending = {} /\ pending' = pending
          <5>1. supportsTransactions = FALSE /\ BeginTrans
            BY <1>0, <4>1 DEF SetAutocommit
          <5> QED
            BY <1>0, <5>1 DEF BeginTrans, CanBegin
        <4> QED
          BY <4>2
      <3> QED
        BY <3>1
    <2>4. CASE blocks # <<>>
      <3>1. pending \cap last.work = {} /\ last.work \subseteq issued
        BY <1>0, <2>4 DEF WorkInv
      <3>2. CASE RolledBack
        <4>1. \E i \in DOMAIN saves : pending' = saves[i].pending
          BY <3>2 DEF RolledBack, Savepoint
        <4>2. pending' \subseteq pending
          BY <4>1 DEF WInv, SavesInv
        <4> QED
          BY <2>2, <3>1, <4>2
      <3> QED
        BY <2>2, <3>1, <3>2, PendingSteps
    <2> QED
      BY <2>3, <2>4
  <1>5. (step = "commit" /\ (pc = "commit.begin" \/ ret.out = "ok") => last.work \subseteq durable)'
    <2>1. CASE LeaveOutermost
      <3>1. last'.work = Top.work
        BY <2>1 DEF LeaveOutermost, Outermost
      <3>2. CASE Commit
        BY <2>1, <3>1, <3>2, LeavingOutermost DEF Commit, CommitTrans, CanEnd
      <3>3. CASE CommitFails \/ CommitLosesSession
        <4>1. pc' = "idle" /\ ret' = [op |-> "commit", out |-> "Error", unit |-> unit]
          BY <3>3 DEF CommitFails, CommitLosesSession, Fail, Return
        <4> QED
          BY <4>1
      <3> QED
        BY <2>1, <3>2, <3>3 DEF LeaveOutermost
    <2>2. CASE ConnectionStep /\ step = "commit"
      <3>1. CommitBegin \/ CommitBeginFails
        BY <2>2
        DEF WInv, CallInv, ConnectionStep, OperationStep, ConnectBegin, ConnectBeginFails,
            RollbackTransStep, RollbackBegin, RollbackTransFails, CloseAdo, CloseAdoFails,
            DelRollback, DelRelease
      <3>2. UNCHANGED <<durable, last>> /\ pc' = "idle"
        BY <2>2, <3>1 DEF ConnectionStep, wrapperVars, CommitBegin, CommitBeginFails, Fail, Return,
           sessionVars
      <3>3. CASE CommitBegin
        BY <1>0, <2>2, <3>2, <3>3 DEF CommitBegin, WorkInv
      <3>4. CASE CommitBeginFails
        <4>1. ret' = [op |-> "commit", out |-> "Error", unit |-> unit]
          BY <3>4 DEF CommitBeginFails, Fail, Return
        <4> QED
          BY <3>2, <4>1
      <3> QED
        BY <3>1, <3>3, <3>4
    <2>3. CASE Lose \/ UNCHANGED wvars
      BY <1>0, <2>3 DEF WorkInv, Lose, LoseSession, wrapperVars, wvars, vars, sessionVars
    <2>4. CASE ~LeaveOutermost /\ ~(ConnectionStep /\ step = "commit") /\ ~Lose /\ ~UNCHANGED wvars
      <3>1. step' # "commit"
        BY <2>4
        DEF WNext, OpenConnection, Between, InApp, ConnectionStep, RestoreAutocommit,
            CloseConnection, DropConnection, Dropped, wrapperVars, AppWrite, Working,
            StatementFails, AppRaises, Raises, EnterOutermost, EnterSavepoint, EnterPlain, CanEnter,
            LeaveInner, CanLeave, UndoInner, UndoInnerFails, Leaving, UndoOutermost, Outermost,
            DisableConstraintChecking, EnableConstraintChecking, EnableFails, CheckConstraints
      <3> QED
        BY <3>1
    <2> QED
      BY <2>1, <2>2, <2>3, <2>4
  <1> QED
    BY <1>2, <1>3, <1>4, <1>5 DEF WorkInv

\* What the open blocks have written, by depth.
LEMMA UnionWorks ==
  ASSUME WInv, [WNext]_wvars
  PROVE  /\ Union(Works) = UNION {blocks[j].work : j \in DOMAIN blocks}
         /\ Union(Works)' = UNION {blocks'[j].work : j \in DOMAIN blocks'}
  BY DEF Union, Works

LEMMA PendingIsWorkNext == ASSUME WInv, [WNext]_wvars PROVE PendingIsWork'
  <1> SUFFICES ASSUME InApp', blocks' # <<>>, AdoWorks', ~needs_rollback', ~failing'
               PROVE  trancount' = 1 /\ pending' = Union(Works)'
    BY DEF PendingIsWork
  <1>1. trancount' = 1
    BY OpenInvNext DEF OpenInv
  <1> DEFINE Old == UNION {blocks[j].work : j \in DOMAIN blocks}
             New == UNION {blocks'[j].work : j \in DOMAIN blocks'}
  <1>2. Union(Works) = Old /\ Union(Works)' = New
    BY UnionWorks
  <1>3. InApp /\ blocks # <<>> /\ AdoWorks /\ ~needs_rollback /\ ~failing => pending = Old
    BY <1>2 DEF WInv, PendingIsWork
  <1>4. /\ blocks \in Seq(Block) /\ Depth \in Nat /\ DOMAIN blocks = 1..Depth
        /\ (Depth = 0 <=> blocks = <<>>) /\ (blocks # <<>> => InApp)
    BY StateFacts
  <1> SUFFICES pending' = New
    BY <1>1, <1>2
  <1> HIDE DEF Old, New
  <1>5. CASE Outside
    <2>1. CASE Lose
      BY <2>1 DEF Lose, LoseSession, EndSession, AdoWorks
    <2>2. CASE ~Lose
      <3>1. blocks = <<>> /\ blocks' = <<>>
        BY <1>4, <1>5, <2>2 DEF Outside, OpenConnection, Between, ConnectionStep, OperationStep,
           ConnectBegin, ConnectBeginFails, CommitBegin, CommitBeginFails, RollbackTransStep,
           RollbackBegin, RollbackTransFails, CloseAdo, CloseAdoFails, DelRollback, DelRelease,
           RestoreAutocommit, CloseConnection, DropConnection, Dropped, wrapperVars, InApp
      <3> QED
        BY <3>1
    <2> QED
      BY <2>1, <2>2
  <1>6. ASSUME NEW w \in Writes, AppWrite(w) PROVE pending' = New
    <2>1. blocks # <<>> /\ Depth # 0
      BY <1>4, <1>6 DEF AppWrite
    <2>2. trancount = 1 /\ pending = Old /\ pending' = pending \cup {w}
      BY <1>3, <1>6, <2>1 DEF AppWrite, Execute, Working, WInv, IntegrityInv
    <2>3. /\ DOMAIN blocks' = DOMAIN blocks
          /\ \A k \in DOMAIN blocks : k # Depth => blocks'[k] = blocks[k]
          /\ blocks'[Depth].work = blocks[Depth].work \cup {w}
      BY <1>4, <1>6, <2>1, WriteBlock DEF AppWrite, Top
    <2>4. Depth \in DOMAIN blocks
      BY <1>4, <2>1
    <2>5. New = Old \cup {w}
      BY <2>3, <2>4 DEF New, Old
    <2> QED
      BY <2>2, <2>5
  <1>7. CASE StatementFails \/ AppRaises \/ EnableFails
    BY <1>7 DEF StatementFails, AppRaises, Raises, EnableFails
  <1>8. CASE DisableConstraintChecking \/ EnableConstraintChecking \/ CheckConstraints
    <2>1. UNCHANGED <<step, blocks, adoConn, session, pending, needs_rollback>>
      BY <1>8 DEF DisableConstraintChecking, EnableConstraintChecking, CheckConstraints,
         Statement, objVars, sessionVars
    <2>2. failing' = failing \/ ~failing
      BY <1>8 DEF DisableConstraintChecking, EnableConstraintChecking, CheckConstraints, Working
    <2>3. pending = Old
      BY <1>3, <1>4, <2>1, <2>2 DEF AdoWorks
    <2> QED
      BY <2>1, <2>3 DEF New, Old
  <1>9. CASE EnterOutermost
    <2>1. SetAutocommit(FALSE) /\ blocks' = <<[sid |-> NoSavepoint, work |-> {}]>>
      BY <1>9 DEF EnterOutermost, Between
    <2>2. supportsTransactions = FALSE /\ BeginTrans
      BY <2>1 DEF SetAutocommit
    <2>3. pending' = {}
      BY <2>2, StateFacts DEF BeginTrans, CanBegin
    <2> DEFINE b == [sid |-> NoSavepoint, work |-> {}]
    <2>4. blocks' = <<b>> /\ b.work = {}
      BY <2>1
    <2> HIDE DEF b
    <2>5. DOMAIN blocks' = {1} /\ blocks'[1] = b
      BY <2>4
    <2>6. New = {}
      BY <2>4, <2>5 DEF New
    <2> QED
      BY <2>3, <2>6
  <1>10. CASE EnterSavepoint \/ EnterPlain
    <2>1. /\ UNCHANGED <<step, adoConn, session, pending, needs_rollback, failing>> /\ blocks # <<>>
      BY <1>10, InBlock DEF Nesting, EnterSavepoint, EnterPlain, Statement, objVars, sessionVars, vars
    <2>2. pending = Old
      BY <1>3, <1>4, <2>1 DEF AdoWorks
    <2>3. /\ DOMAIN blocks' = 1..(Depth + 1) /\ \A j \in 1..Depth : blocks'[j] = blocks[j]
          /\ blocks'[Depth + 1].work = {}
      BY <1>10, EnteredBlock
    <2>4. New = Old
      <3>1. \A x \in New : x \in Old
        <4> SUFFICES ASSUME NEW j \in DOMAIN blocks', NEW x \in blocks'[j].work PROVE x \in Old
          BY DEF New
        <4>1. j \in 1..Depth
          BY <1>4, <2>3
        <4> QED
          BY <1>4, <2>3, <4>1 DEF Old
      <3>2. \A x \in Old : x \in New
        BY <1>4, <2>3 DEF New, Old
      <3> QED
        BY <3>1, <3>2
    <2> QED
      BY <2>1, <2>2, <2>4
  <1>11. CASE LeaveInner
    <2>1. /\ UNCHANGED <<step, adoConn, session, pending, needs_rollback, failing>> /\ blocks # <<>>
      BY <1>11, InBlock DEF Nesting, LeaveInner, objVars, sessionVars, vars
    <2>2. pending = Old
      BY <1>3, <1>4, <2>1 DEF AdoWorks
    <2>3. /\ Depth > 1 /\ DOMAIN blocks' = 1..(Depth - 1)
          /\ \A j \in 1..(Depth - 2) : blocks'[j] = blocks[j]
          /\ blocks'[Depth - 1].work = blocks[Depth - 1].work \cup blocks[Depth].work
      BY <1>4, <1>11, MergeBlock DEF LeaveInner, Top
    <2>4. \A j \in DOMAIN blocks : j \in 1..(Depth - 2) \/ j = Depth - 1 \/ j = Depth
      BY <1>4
    <2>5. \A j \in DOMAIN blocks' : j \in DOMAIN blocks /\ (j \in 1..(Depth - 2) \/ j = Depth - 1)
      BY <1>4, <2>3
    <2>6. Depth - 1 \in DOMAIN blocks' /\ Depth \in DOMAIN blocks /\ Depth - 1 \in DOMAIN blocks
          /\ \A j \in 1..(Depth - 2) : j \in DOMAIN blocks'
      BY <1>4, <2>3
    <2>7. New = Old
      BY <2>3, <2>4, <2>5, <2>6 DEF New, Old
    <2> QED
      BY <2>1, <2>2, <2>7
  <1>12. CASE UndoInner
    <2>1. Depth > 1 /\ blocks' = Outer
      BY <1>12 DEF UndoInner, Leaving
    <2>2. DOMAIN blocks' = 1..(Depth - 1) /\ \A j \in 1..(Depth - 1) : blocks'[j] = blocks[j]
      BY <1>4, <2>1, OuterBlocks
    <2>3. PICK i \in Savepoint : pending' = saves[i].pending
      BY <1>12 DEF UndoInner
    <2>4. pending' = WorkAround(Depth)
      <3>1. Depth \in DOMAIN blocks /\ i \in DOMAIN saves /\ saves[i].sid = blocks[Depth].sid
        BY <1>4, <2>1, <2>3 DEF Savepoint, Top
      <3> QED
        BY <2>3, <3>1 DEF WInv, SavesInv
    <2>5. WorkAround(Depth) = New
      BY <2>2 DEF WorkAround, New
    <2> QED
      BY <2>4, <2>5
  <1>13. CASE UndoInnerFails
    BY <1>13 DEF UndoInnerFails
  <1>14. CASE LeaveOutermost \/ UndoOutermost
    BY <1>14 DEF LeaveOutermost, UndoOutermost, Outermost
  <1>15. CASE UNCHANGED wvars
    <2>1. pending = Old
      BY <1>3, <1>15 DEF wvars, vars, wrapperVars, objVars, sessionVars, AdoWorks, InApp
    <2> QED
      BY <1>15, <2>1 DEF wvars, vars, wrapperVars, sessionVars, Old, New
  <1> QED
    BY <1>5, <1>6, <1>7, <1>8, <1>9, <1>10, <1>11, <1>12, <1>13, <1>14, <1>15
    DEF WNext, Outside

------------------------------------------------------------------------------

LEMMA WNextInv == WInv /\ [WNext]_wvars => WInv'
  BY ConnectionInv, IntegrityNext, CallInvNext, SavesInvNext, WorkInvNext, PendingIsWorkNext,
     BlockOutcomeNext
  DEF WInv

\* In every step of nested blocks, savepoints and loads, for blocks of any depth,
\* any provider and every failure of the session and of the statements, what is
\* open, pending and durable is what the invariant says.
THEOREM WInvCorrect == WSpec => []WInv
  BY WInitInv, WNextInv, PTL DEF WSpec

\* While statements can be made in a block, the session's transaction holds exactly
\* what the open blocks have written: a rollback to a savepoint takes all of the
\* inner block and nothing of the blocks around it.
THEOREM WorkIsPending == WSpec => []PendingIsWork
  <1>1. WInv => PendingIsWork
    BY DEF WInv
  <1> QED
    BY WInvCorrect, <1>1, PTL

\* What the application is told of an outermost block is true of its writes.
THEOREM OutcomeIsTrue == WSpec => []BlockOutcome
  <1>1. WInv => BlockOutcome
    BY DEF WInv
  <1> QED
    BY WInvCorrect, <1>1, PTL

\* No row that refers to nothing is ever committed, and no load leaves the
\* constraints disabled behind it.
THEOREM IntegrityIsKept == WSpec => []IntegrityKept
  <1>1. WInv => IntegrityKept
    BY DEF WInv, IntegrityInv
  <1> QED
    BY WInvCorrect, <1>1, PTL

------------------------------------------------------------------------------
(* The refinement of AtomicContract, whose stack is the writes of the      *)
(* blocks: what WorksOf does to the operations on the sequence of blocks.  *)

WorksOf(s) == [i \in DOMAIN s |-> s[i].work]

LEMMA WorksOfType ==
  ASSUME NEW s \in Seq(Block)
  PROVE  /\ WorksOf(s) \in Seq(SUBSET Writes) /\ Len(WorksOf(s)) = Len(s)
         /\ DOMAIN WorksOf(s) = 1..Len(s) /\ Len(s) \in Nat
         /\ \A i \in 1..Len(s) : WorksOf(s)[i] = s[i].work
  <1>1. Len(s) \in Nat /\ DOMAIN s = 1..Len(s) /\ \A i \in 1..Len(s) : s[i] \in Block
    OBVIOUS
  <1>2. WorksOf(s) \in [1..Len(s) -> SUBSET Writes]
    BY <1>1 DEF WorksOf, Block
  <1>3. WorksOf(s) \in Seq(SUBSET Writes)
    BY <1>1, <1>2, SeqDef
  <1>4. Len(WorksOf(s)) = Len(s)
    <2>1. /\ Len(WorksOf(s)) \in Nat /\ DOMAIN WorksOf(s) = 1..Len(WorksOf(s))
      BY <1>3, LenProperties
    <2>2. DOMAIN WorksOf(s) = 1..Len(s)
      BY <1>2
    <2> DEFINE m == Len(WorksOf(s))
               n == Len(s)
    <2>3. m \in Nat /\ n \in Nat /\ 1..m = 1..n
      BY <1>1, <2>1, <2>2
    <2> HIDE DEF m, n
    <2>4. (m \in 1..m <=> m \in 1..n) /\ (n \in 1..m <=> n \in 1..n)
      BY <2>3
    <2>5. m = n
      BY <2>3, <2>4
    <2> QED
      BY <2>5 DEF m, n
  <1> QED
    BY <1>1, <1>2, <1>3, <1>4 DEF WorksOf

LEMMA WorksOfOuter ==
  ASSUME NEW s \in Seq(Block), NEW n \in 0..Len(s)
  PROVE  SubSeq(s, 1, n) \in Seq(Block) /\ Len(SubSeq(s, 1, n)) = n
         /\ WorksOf(SubSeq(s, 1, n)) = SubSeq(WorksOf(s), 1, n)
  <1>1. Len(s) \in Nat /\ n \in Nat /\ \A i \in 1..n : s[i] \in Block
    OBVIOUS
  <1> DEFINE o == SubSeq(s, 1, n)
             w == SubSeq(WorksOf(s), 1, n)
  <1>2. o \in Seq(Block) /\ Len(o) = n /\ \A i \in 1..n : o[i] = s[i]
    <2>1. \A i \in 1..n : i \in 1..(n - 1 + 1) /\ 1 + i - 1 = i
      BY <1>1
    <2> QED
      BY <1>1, <2>1, SubSeqProperties
  <1>3. \A i \in 1..n : WorksOf(s)[i] \in SUBSET Writes /\ WorksOf(s)[i] = s[i].work
    <2> SUFFICES ASSUME NEW i \in 1..n
                 PROVE  WorksOf(s)[i] \in SUBSET Writes /\ WorksOf(s)[i] = s[i].work
      OBVIOUS
    <2>1. s[i].work \in SUBSET Writes
      BY <1>1 DEF Block
    <2>2. WorksOf(s)[i] = s[i].work
      BY <1>1, WorksOfType
    <2> QED
      BY <2>1, <2>2
  <1>4. w \in Seq(SUBSET Writes) /\ Len(w) = n /\ \A i \in 1..n : w[i] = s[i].work
    <2>1. \A i \in 1..n : i \in 1..(n - 1 + 1) /\ 1 + i - 1 = i
      BY <1>1
    <2> QED
      BY <1>1, <1>3, <2>1, SubSeqProperties
  <1> HIDE DEF o, w
  <1>5. WorksOf(o) \in Seq(SUBSET Writes) /\ Len(WorksOf(o)) = n
        /\ \A i \in 1..n : WorksOf(o)[i] = s[i].work
    BY <1>2, WorksOfType
  <1>6. WorksOf(o) = w
    BY <1>4, <1>5, SeqEqual
  <1> QED
    BY <1>2, <1>6 DEF o, w

LEMMA WorksOfAppend ==
  ASSUME NEW s \in Seq(Block), NEW b \in Block
  PROVE  WorksOf(Append(s, b)) = Append(WorksOf(s), b.work)
  <1> DEFINE t == Append(s, b)
             u == Append(WorksOf(s), b.work)
  <1>1. b.work \in SUBSET Writes
    BY DEF Block
  <1>2. t \in Seq(Block) /\ Len(t) = Len(s) + 1 /\ t[Len(s) + 1] = b
        /\ \A i \in 1..Len(s) : t[i] = s[i]
    BY AppendProperties
  <1>3. /\ u \in Seq(SUBSET Writes) /\ Len(u) = Len(s) + 1 /\ u[Len(s) + 1] = b.work
        /\ \A i \in 1..Len(s) : u[i] = s[i].work
    BY <1>1, WorksOfType, AppendProperties
  <1> HIDE DEF t, u
  <1>4. /\ WorksOf(t) \in Seq(SUBSET Writes) /\ Len(WorksOf(t)) = Len(s) + 1
        /\ \A i \in 1..(Len(s) + 1) : WorksOf(t)[i] = t[i].work
    BY <1>2, WorksOfType
  <1>5. \A i \in 1..(Len(s) + 1) : i \in 1..Len(s) \/ i = Len(s) + 1
    OBVIOUS
  <1>6. WorksOf(t) = u
    BY <1>2, <1>3, <1>4, <1>5, SeqEqual
  <1> QED
    BY <1>6 DEF t, u

\* The writes of x are added to a block, and to its place on the stack.
AddWork(s, d, x) == [s EXCEPT ![d].work = @ \cup x]
AddTo(works, d, x) == [works EXCEPT ![d] = @ \cup x]

LEMMA WorksOfExcept ==
  ASSUME NEW s \in Seq(Block), NEW d \in 1..Len(s), NEW x \in SUBSET Writes
  PROVE  WorksOf(AddWork(s, d, x)) = AddTo(WorksOf(s), d, x)
  <1>1. DOMAIN s = 1..Len(s) /\ \A i \in 1..Len(s) : s[i] \in Block
    OBVIOUS
  <1> DEFINE b == [s[d] EXCEPT !.work = @ \cup x]
             t == [s EXCEPT ![d] = b]
  <1>2. b.work = s[d].work \cup x
    BY <1>1 DEF Block
  <1>3. t = [s EXCEPT ![d].work = @ \cup x]
    OBVIOUS
  <1> HIDE DEF b
  <1>4. DOMAIN t = DOMAIN s /\ \A i \in DOMAIN s : t[i] = IF i = d THEN b ELSE s[i]
    BY <1>1
  <1> HIDE DEF t
  <1>5. WorksOf(t) = [WorksOf(s) EXCEPT ![d] = @ \cup x]
    BY <1>1, <1>2, <1>4 DEF WorksOf
  <1> QED
    BY <1>3, <1>5 DEF AddWork, AddTo

\* Every step of atomic() is one step of the contract, or changes nothing that the
\* contract speaks of.
LEMMA AtomicStep == ASSUME WInv, [WNext]_wvars PROVE [Atomic!ANext]_(Atomic!avars)
  <1>0. /\ blocks \in Seq(Block) /\ Depth \in Nat /\ DOMAIN blocks = 1..Depth
        /\ Len(blocks) = Depth /\ (Depth = 0 <=> blocks = <<>>)
    BY StateFacts DEF Depth
  <1>1. Works = WorksOf(blocks) /\ Works' = WorksOf(blocks')
    BY DEF Works, WorksOf
  <1>2. Atomic!Depth = Depth
    BY <1>0, <1>1, WorksOfType DEF Atomic!Depth
  <1>3. Depth > 0 => /\ Atomic!Outer = WorksOf(Outer) /\ Outer \in Seq(Block)
                     /\ Len(Outer) = Depth - 1 /\ Works[Depth] = Top.work
                     /\ Top.work \in SUBSET Writes
    <2> SUFFICES ASSUME Depth > 0
                 PROVE  /\ Atomic!Outer = WorksOf(Outer) /\ Outer \in Seq(Block)
                        /\ Len(Outer) = Depth - 1 /\ Works[Depth] = Top.work
                        /\ Top.work \in SUBSET Writes
      OBVIOUS
    <2>1. Depth - 1 \in 0..Len(blocks) /\ Depth \in 1..Len(blocks)
      BY <1>0
    <2>2. WorksOf(Outer) = SubSeq(WorksOf(blocks), 1, Depth - 1)
      BY <1>0, <2>1, WorksOfOuter DEF Outer
    <2>3. Top \in Block /\ Outer \in Seq(Block) /\ Len(Outer) = Depth - 1
      BY <1>0, OuterBlocks
    <2>4. Works[Depth] = Top.work
      BY <1>0, <1>1, <2>1, WorksOfType DEF Top
    <2> QED
      BY <1>1, <1>2, <2>2, <2>3, <2>4 DEF Atomic!Outer, Block
  <1> USE DEF Atomic!avars
  <1>4. CASE UNCHANGED blocks /\ UNCHANGED durable
    BY <1>1, <1>4
  \* Outside of blocks a write is durable.
  <1>5. ASSUME NEW w \in Writes, AppWrite(w), blocks = <<>>, durable' = durable \cup {w}
        PROVE  Atomic!ANext
    <2>1. UNCHANGED Works
      BY <1>0, <1>1, <1>5 DEF AppWrite
    <2>2. Atomic!Write(w)
      BY <1>0, <1>2, <1>5, <2>1 DEF Atomic!Write
    <2> QED
      BY <2>2 DEF Atomic!ANext
  <1>6. ASSUME NEW w \in Writes, AppWrite(w), blocks # <<>>, UNCHANGED durable
        PROVE  Atomic!ANext
    <2>1. blocks' = [blocks EXCEPT ![Depth].work = @ \cup {w}] /\ Depth \in 1..Len(blocks)
      BY <1>0, <1>6 DEF AppWrite
    <2> DEFINE d == Depth
               x == {w}
    <2>2. d \in 1..Len(blocks) /\ x \in SUBSET Writes
      BY <2>1
    <2> HIDE DEF d, x
    <2>3. WorksOf(AddWork(blocks, d, x)) = AddTo(WorksOf(blocks), d, x)
      BY <1>0, <2>2, WorksOfExcept
    <2>4. Works' = [Works EXCEPT ![Depth] = @ \cup {w}]
      BY <1>1, <2>1, <2>3 DEF d, x, AddWork, AddTo
    <2>5. Atomic!Write(w)
      BY <1>0, <1>2, <1>6, <2>4 DEF Atomic!Write
    <2> QED
      BY <2>5 DEF Atomic!ANext
  <1>7. CASE (EnterOutermost \/ EnterSavepoint \/ EnterPlain) /\ UNCHANGED durable
             /\ ~UNCHANGED blocks
    <2>1. \E sid \in {NoSavepoint, savepoint_state + 1} :
             blocks' = Append(blocks, [sid |-> sid, work |-> {}])
      <3>1. CASE EnterOutermost
        <4>1. blocks = <<>> /\ blocks' = <<[sid |-> NoSavepoint, work |-> {}]>>
          BY <1>7, <3>1 DEF EnterOutermost, Between
        <4> QED
          BY <4>1
      <3> QED
        BY <1>7, <3>1 DEF EnterSavepoint, EnterPlain
    <2>2. PICK sid \in {NoSavepoint, savepoint_state + 1} :
             blocks' = Append(blocks, [sid |-> sid, work |-> {}])
      BY <2>1
    <2> DEFINE b == [sid |-> sid, work |-> {}]
    <2>3. b \in Block /\ b.work = {} /\ blocks' = Append(blocks, b)
      BY <2>2 DEF Block, NoSavepoint, WInv, IntegrityInv, WTypeOK
    <2> HIDE DEF b
    <2>4. WorksOf(Append(blocks, b)) = Append(WorksOf(blocks), b.work)
      BY <1>0, <2>3, WorksOfAppend
    <2>5. Works' = Append(Works, {})
      BY <1>1, <2>3, <2>4
    <2> QED
      BY <1>7, <2>5 DEF Atomic!Enter, Atomic!ANext
  <1>8. CASE LeaveInner
    <2>1. /\ Depth > 1 /\ UNCHANGED durable
          /\ blocks' = [Outer EXCEPT ![Depth - 1].work = @ \cup Top.work]
      BY <1>8 DEF LeaveInner, vars, sessionVars
    <2>2. Depth > 0
      BY <1>0, <2>1
    <2> DEFINE d == Depth - 1
    <2>3. d \in 1..Len(Outer)
      BY <1>0, <1>3, <2>1, <2>2
    <2> HIDE DEF d
    <2> DEFINE x == Top.work
    <2>4. x \in SUBSET Writes
      BY <1>3, <2>2
    <2> HIDE DEF x
    <2>5. WorksOf(AddWork(Outer, d, x)) = AddTo(WorksOf(Outer), d, x)
      BY <1>3, <2>2, <2>3, <2>4, WorksOfExcept
    <2>6. Works' = [Atomic!Outer EXCEPT ![Depth - 1] = @ \cup Works[Depth]]
      BY <1>1, <1>3, <2>1, <2>2, <2>5 DEF d, x, AddWork, AddTo
    <2> QED
      BY <1>2, <2>1, <2>6 DEF Atomic!Leave, Atomic!ANext
  <1>9. CASE (UndoInner \/ UndoInnerFails) /\ UNCHANGED durable
    <2>1. Depth > 0 /\ blocks' = Outer
      <3>1. Depth > 1 /\ blocks' = Outer
        BY <1>9 DEF UndoInner, UndoInnerFails, Leaving
      <3> QED
        BY <1>0, <3>1
    <2>2. Works' = Atomic!Outer
      BY <1>1, <1>3, <2>1
    <2> QED
      BY <1>2, <1>9, <2>1, <2>2 DEF Atomic!Undo, Atomic!ANext
  <1>10. CASE LeaveOutermost \/ UndoOutermost
    <2>1. Depth = 1 /\ Depth > 0 /\ blocks' = <<>>
      BY <1>10 DEF LeaveOutermost, UndoOutermost, Outermost
    <2>2. Works' = <<>>
      BY <1>1, <2>1 DEF WorksOf
    <2>3. CASE UNCHANGED durable
      <3>1. Outer = <<>>
        BY <1>0, <2>1, SubSeqEmpty DEF Outer
      <3>2. Atomic!Outer = <<>>
        BY <1>3, <2>1, <3>1 DEF WorksOf
      <3> QED
        BY <1>2, <2>1, <2>2, <2>3, <3>2 DEF Atomic!Undo, Atomic!ANext
    <2>4. CASE LeaveOutermost /\ AdoWorks /\ durable' = durable \cup pending
      <3>1. pending = Works[1]
        BY <1>3, <2>1, <2>4, LeavingOutermost
      <3> QED
        BY <1>2, <2>1, <2>2, <2>4, <3>1 DEF Atomic!Finish, Atomic!ANext
    <2>5. ~(\E w \in Writes : AppWrite(w) /\ blocks = <<>>)
      BY <1>10, LeavingOutermost
    <2> QED
      BY <2>3, <2>4, <2>5, DurableSteps
  <1>11. CASE ~LeaveOutermost /\ ~UndoOutermost
              /\ ~(\E w \in Writes : AppWrite(w) /\ blocks = <<>> /\ durable' = durable \cup {w})
    <2>1. UNCHANGED durable
      BY <1>11, DurableSteps
    <2>2. CASE UNCHANGED blocks
      BY <1>4, <2>1, <2>2
    <2>3. CASE ~UNCHANGED blocks
      <3>1. \/ \E w \in Writes : AppWrite(w) /\ blocks # <<>>
            \/ EnterOutermost \/ EnterSavepoint \/ EnterPlain
            \/ LeaveInner \/ UndoInner \/ UndoInnerFails
        BY <1>0, <1>11, <2>3
        DEF WNext, OpenConnection, ConnectionStep, RestoreAutocommit, CloseConnection,
            DropConnection, Dropped, Lose, wrapperVars, AppWrite, StatementFails, AppRaises,
            Raises, DisableConstraintChecking, EnableConstraintChecking, EnableFails,
            CheckConstraints, wvars
      <3> QED
        BY <1>6, <1>7, <1>8, <1>9, <2>1, <2>3, <3>1
    <2> QED
      BY <2>2, <2>3
  <1> QED
    BY <1>5, <1>10, <1>11

\* Nested blocks implement the contract: whatever fails, a block has the writes made
\* in it and those handed to it by blocks left normally, a block that is left by an
\* exception loses them all, and the outermost block makes all it has durable in
\* one step, or nothing.
THEOREM AtomicImplementation == WSpec => ImplementsAtomic
  <1>1. WInit => Atomic!AInit
    BY DEF WInit, Init, Atomic!AInit, Works
  <1>2. WInv /\ [WNext]_wvars => [Atomic!ANext]_(Atomic!avars)
    BY AtomicStep
  <1> QED
    BY WInvCorrect, <1>1, <1>2, PTL DEF WSpec, ImplementsAtomic, Atomic!ASpec

==============================================================================
