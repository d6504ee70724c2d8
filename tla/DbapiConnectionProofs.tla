------------------------ MODULE DbapiConnectionProofs ------------------------
(***************************************************************************)
(* Theorems about DbapiConnection, for every set of writes, every provider *)
(* and every bound.  All of them rest on the inductive invariant IInv.     *)
(***************************************************************************)
EXTENDS DbapiConnection, TLAPS

LEMMA InitInv == Init => IInv
  <1> SUFFICES ASSUME Init PROVE IInv
    OBVIOUS
  <1>1. TypeOK
    <2>1. ret \in [op : Ops, out : Outcomes, unit : SUBSET Writes]
      BY DEF Init, Ops, Outcomes, Errors
    <2> QED
      BY <2>1 DEF Init, TypeOK, Steps
  <1>2. ComInitialised /\ StepInv /\ PendingInTransaction /\ UnitStepInv
    BY DEF Init, ComInitialised, StepInv, PendingInTransaction, UnitStepInv
  <1>3. UnitAccounted
    BY DEF Init, UnitAccounted, Settled, Callable
  <1> QED
    BY <1>1, <1>2, <1>3 DEF IInv

(* One step per action.  What an action disturbs is a few conjuncts only,  *)
(* but an operation that comes back from the middle has UnitAccounted to   *)
(* establish from what StepInv and UnitStepInv say of its last ADO call.   *)
LEMMA NextInv == IInv /\ [Next]_vars => IInv'
  <1> SUFFICES ASSUME IInv, [Next]_vars PROVE IInv'
    OBVIOUS
  <1> USE SwitchesAssumption
      DEF IInv, TypeOK, ComInitialised, StepInv, PendingInTransaction, UnitStepInv,
          UnitAccounted, Settled, Callable, AdoWorks, CanBegin, CanEnd,
          Return, Continue, Boundary, Fail, Ops, Errors, Outcomes, Steps,
          objVars, sessionVars, historyVars
  <1>1. CASE ConnectFails
    BY <1>1 DEF ConnectFails
  <1>2. ASSUME NEW useTransactions \in BOOLEAN, Connect(useTransactions) PROVE IInv'
    <2>1. TypeOK'
      <3>1. ret' \in [op : Ops, out : Outcomes, unit : SUBSET Writes]
        <4>1. CASE useTransactions
          BY <1>2, <4>1 DEF Connect
        <4>2. CASE ~useTransactions
          BY <1>2, <4>2 DEF Connect
        <4> QED
          BY <4>1, <4>2
      <3>2. adoConn' \in BOOLEAN /\ supportsTransactions' \in BOOLEAN /\ aborted' \in BOOLEAN
        BY <1>2 DEF Connect
      <3>3. pc' \in Steps /\ obj' \in {"none", "held", "garbage"}
        BY <1>2 DEF Connect
      <3>4. comInit' \in Nat /\ connects' \in Nat /\ trancount' \in {0, 1}
        BY <1>2 DEF Connect
      <3> QED
        BY <1>2, <3>1, <3>2, <3>3, <3>4 DEF Connect
    <2>2. ComInitialised'
      BY <1>2 DEF Connect
    <2>3. StepInv'
      BY <1>2 DEF Connect
    <2>4. PendingInTransaction'
      BY <1>2 DEF Connect
    <2>5. UnitStepInv'
      BY <1>2 DEF Connect
    <2>6. UnitAccounted'
      BY <1>2 DEF Connect
    <2> QED
      BY <2>1, <2>2, <2>3, <2>4, <2>5, <2>6
  <1>3. ASSUME NEW w \in Writes, Execute(w) PROVE IInv'
    BY <1>3 DEF Execute
  <1>4. CASE ExecuteFails
    BY <1>4 DEF ExecuteFails
  <1>5. CASE ExecuteAborted
    BY <1>5 DEF ExecuteAborted
  <1>6. CASE IsUsable
    BY <1>6 DEF IsUsable
  <1>7. CASE CommitUnsupported
    BY <1>7 DEF CommitUnsupported
  <1>8. CASE Commit
    BY <1>8 DEF Commit, CommitTrans
  <1>9. CASE CommitFails
    BY <1>9 DEF CommitFails
  <1>10. CASE CommitLosesSession
    BY <1>10 DEF CommitLosesSession, EndSession
  <1>11. CASE Rollback
    BY <1>11 DEF Rollback
  <1>12. CASE RollbackFails
    BY <1>12 DEF RollbackFails
  <1>13. ASSUME NEW value \in BOOLEAN, SetAutocommitSame(value) PROVE IInv'
    BY <1>13 DEF SetAutocommitSame
  <1>14. ASSUME NEW value \in BOOLEAN, SetAutocommit(value) PROVE IInv'
    <2>1. TypeOK'
      BY <1>14 DEF SetAutocommit, RollbackTrans, BeginTrans
    <2>2. ComInitialised'
      BY <1>14 DEF SetAutocommit, RollbackTrans, BeginTrans
    <2>3. StepInv'
      BY <1>14 DEF SetAutocommit, RollbackTrans, BeginTrans
    <2>4. PendingInTransaction'
      BY <1>14 DEF SetAutocommit, RollbackTrans, BeginTrans
    <2>5. UnitStepInv'
      BY <1>14 DEF SetAutocommit, RollbackTrans, BeginTrans
    <2>6. UnitAccounted'
      BY <1>14 DEF SetAutocommit, RollbackTrans, BeginTrans
    <2> QED
      BY <2>1, <2>2, <2>3, <2>4, <2>5, <2>6
  <1>15. ASSUME NEW value \in BOOLEAN, SetAutocommitFails(value) PROVE IInv'
    BY <1>15 DEF SetAutocommitFails
  <1>16. CASE CloseRollback
    BY <1>16 DEF CloseRollback, RollbackTrans
  <1>17. CASE CloseFails
    BY <1>17 DEF CloseFails
  <1>18. CASE Collect
    BY <1>18 DEF Collect
  <1>19. CASE ConnectBegin
    <2>1. TypeOK'
      BY <1>19 DEF ConnectBegin, BeginTrans
    <2>2. ComInitialised'
      BY <1>19 DEF ConnectBegin, BeginTrans
    <2>3. StepInv'
      BY <1>19 DEF ConnectBegin, BeginTrans
    <2>4. PendingInTransaction'
      BY <1>19 DEF ConnectBegin, BeginTrans
    <2>5. UnitStepInv'
      BY <1>19 DEF ConnectBegin, BeginTrans
    <2>6. UnitAccounted'
      BY <1>19 DEF ConnectBegin, BeginTrans
    <2> QED
      BY <2>1, <2>2, <2>3, <2>4, <2>5, <2>6
  <1>20. CASE ConnectBeginFails
    BY <1>20 DEF ConnectBeginFails
  <1>21. CASE CommitBegin
    <2>1. TypeOK'
      BY <1>21 DEF CommitBegin
    <2>2. ComInitialised'
      BY <1>21 DEF CommitBegin
    <2>3. StepInv'
      BY <1>21 DEF CommitBegin
    <2>4. PendingInTransaction'
      BY <1>21 DEF CommitBegin
    <2>5. UnitStepInv'
      BY <1>21 DEF CommitBegin
    <2>6. UnitAccounted'
      BY <1>21 DEF CommitBegin
    <2> QED
      BY <2>1, <2>2, <2>3, <2>4, <2>5, <2>6
  <1>22. CASE CommitBeginFails
    BY <1>22 DEF CommitBeginFails
  <1>23. CASE RollbackTransStep
    BY <1>23 DEF RollbackTransStep, RollbackTrans
  <1>24. CASE RollbackBegin
    <2>1. TypeOK'
      BY <1>24 DEF RollbackBegin, BeginTrans
    <2>2. ComInitialised'
      BY <1>24 DEF RollbackBegin, BeginTrans
    <2>3. StepInv'
      BY <1>24 DEF RollbackBegin, BeginTrans
    <2>4. PendingInTransaction'
      BY <1>24 DEF RollbackBegin, BeginTrans
    <2>5. UnitStepInv'
      BY <1>24 DEF RollbackBegin, BeginTrans
    <2>6. UnitAccounted'
      BY <1>24 DEF RollbackBegin, BeginTrans
    <2> QED
      BY <2>1, <2>2, <2>3, <2>4, <2>5, <2>6
  <1>25. CASE RollbackTransFails
    BY <1>25 DEF RollbackTransFails
  <1>26. CASE CloseAdo
    <2>1. TypeOK'
      <3>1. comInit' \in Nat
        BY <1>26 DEF CloseAdo, EndSession
      <3> QED
        BY <1>26, <3>1 DEF CloseAdo, EndSession
    <2>2. ComInitialised'
      BY <1>26 DEF CloseAdo, EndSession
    <2>3. StepInv'
      BY <1>26 DEF CloseAdo, EndSession
    <2>4. PendingInTransaction'
      BY <1>26 DEF CloseAdo, EndSession
    <2>5. UnitStepInv'
      BY <1>26 DEF CloseAdo, EndSession
    <2>6. UnitAccounted'
      BY <1>26 DEF CloseAdo, EndSession
    <2> QED
      BY <2>1, <2>2, <2>3, <2>4, <2>5, <2>6
  <1>27. CASE CloseAdoFails
    BY <1>27 DEF CloseAdoFails
  <1>28. CASE DelRollback
    BY <1>28 DEF DelRollback, RollbackTrans
  <1>29. CASE DelRelease
    <2>1. TypeOK'
      BY <1>29 DEF DelRelease, EndSession
    <2>2. ComInitialised'
      BY <1>29 DEF DelRelease, EndSession
    <2>3. StepInv'
      BY <1>29 DEF DelRelease, EndSession
    <2>4. PendingInTransaction'
      BY <1>29 DEF DelRelease, EndSession
    <2>5. UnitStepInv'
      BY <1>29 DEF DelRelease, EndSession
    <2>6. UnitAccounted'
      BY <1>29 DEF DelRelease, EndSession
    <2> QED
      BY <2>1, <2>2, <2>3, <2>4, <2>5, <2>6
  <1>30. CASE LoseSession
    BY <1>30 DEF LoseSession, EndSession
  <1>31. CASE UNCHANGED vars
    BY <1>31 DEF vars
  <1> QED
    BY <1>1, <1>2, <1>3, <1>4, <1>5, <1>6, <1>7, <1>8, <1>9, <1>10, <1>11, <1>12, <1>13, <1>14, <1>15, <1>16, <1>17, <1>18, <1>19, <1>20, <1>21, <1>22, <1>23, <1>24, <1>25, <1>26, <1>27, <1>28, <1>29, <1>30, <1>31 DEF Next, OperationStep

THEOREM InvCorrect == Spec => []IInv
  BY InitInv, NextInv, PTL DEF Spec

\* Every variable keeps its type; in particular close() never uninitialises COM
\* more often than connect() has initialised it.
THEOREM TypeCorrect == Spec => []TypeOK
  <1>1. IInv => TypeOK
    BY DEF IInv
  <1> QED
    BY InvCorrect, <1>1, PTL

\* Between two calls a manual connection has a transaction open that holds
\* exactly what was acknowledged since the last boundary, unless the server has
\* ended the transaction: for every provider and with sessions lost at any
\* point of any operation.
THEOREM UnitIsAccounted == Spec => []UnitAccounted
  <1>1. IInv => UnitAccounted
    BY DEF IInv
  <1> QED
    BY InvCorrect, <1>1, PTL

------------------------------------------------------------------------------

\* A commit() that returns normally has made all of its unit of work durable,
\* also when the server may abort transactions and the session may be lost.
THEOREM CommitKeepsWork == Spec => []CommitKeeps
  <1>1. Init => CommitKeeps
    BY DEF Init, CommitKeeps, Callable
  <1>2. IInv /\ CommitKeeps /\ [Next]_vars => CommitKeeps'
    <2> SUFFICES ASSUME IInv, CommitKeeps, [Next]_vars PROVE CommitKeeps'
      OBVIOUS
    <2> USE DEF Callable, Return, Continue, Fail, objVars, sessionVars, historyVars
    \* A step that returns from another operation, or with an error.
    <2> DEFINE Other == ret'.op # "commit" \/ ret'.out # "ok" \/ pc' # "idle"
    <2>0. Other => CommitKeeps'
      BY DEF CommitKeeps
    <2>1. CASE Commit
      <3>1. trancount = 1 /\ pending = unit
        BY <2>1 DEF Commit, CommitTrans, CanEnd, AdoWorks, IInv, UnitAccounted, Settled,
                    StepInv
      <3> QED
        BY <2>1, <3>1 DEF Commit, CommitTrans, CommitKeeps
    <2>2. CASE CommitBegin
      BY <2>2 DEF CommitBegin, IInv, UnitStepInv, CommitKeeps
    <2>3. CASE CommitUnsupported
      BY <2>3 DEF CommitUnsupported, CommitKeeps
    <2>4. CASE CommitFails \/ CommitLosesSession \/ CommitBeginFails
      <3>1. Other
        BY <2>4 DEF CommitFails, CommitLosesSession, CommitBeginFails
      <3> QED
        BY <2>0, <3>1
    <2>5. CASE ConnectFails \/ \E useTransactions \in BOOLEAN : Connect(useTransactions)
      <3>1. Other
        BY <2>5 DEF ConnectFails, Connect
      <3> QED
        BY <2>0, <3>1
    <2>6. CASE ConnectBegin \/ ConnectBeginFails
      <3>1. Other
        BY <2>6 DEF ConnectBegin, ConnectBeginFails
      <3> QED
        BY <2>0, <3>1
    <2>7. CASE (\E w \in Writes : Execute(w)) \/ ExecuteFails \/ ExecuteAborted \/ IsUsable
      <3>1. Other
        BY <2>7 DEF Execute, ExecuteFails, ExecuteAborted, IsUsable
      <3> QED
        BY <2>0, <3>1
    <2>8. CASE Rollback \/ RollbackFails \/ RollbackTransStep \/ RollbackBegin
                 \/ RollbackTransFails
      <3>1. Other
        BY <2>8 DEF Rollback, RollbackFails, RollbackTransStep, RollbackBegin,
                    RollbackTransFails
      <3> QED
        BY <2>0, <3>1
    <2>9. CASE \E value \in BOOLEAN :
                 SetAutocommitSame(value) \/ SetAutocommit(value) \/ SetAutocommitFails(value)
      <3>1. Other
        BY <2>9 DEF SetAutocommitSame, SetAutocommit, SetAutocommitFails
      <3> QED
        BY <2>0, <3>1
    <2>10. CASE CloseRollback \/ CloseFails \/ CloseAdo \/ CloseAdoFails
      <3>1. Other
        BY <2>10 DEF CloseRollback, CloseFails, CloseAdo, CloseAdoFails
      <3> QED
        BY <2>0, <3>1
    <2>11. CASE Collect \/ DelRollback
      BY <2>11 DEF CommitKeeps, Collect, DelRollback
    <2>12. CASE DelRelease
      BY <2>12 DEF CommitKeeps, DelRelease
    <2>13. CASE LoseSession
      BY <2>13 DEF CommitKeeps, LoseSession
    <2>14. CASE UNCHANGED vars
      BY <2>14 DEF CommitKeeps, vars
    <2> QED
      BY <2>1, <2>2, <2>3, <2>4, <2>5, <2>6, <2>7, <2>8, <2>9, <2>10, <2>11, <2>12,
         <2>13, <2>14 DEF Next, OperationStep
  <1> QED
    BY InvCorrect, <1>1, <1>2, PTL DEF Spec

------------------------------------------------------------------------------

\* Only a statement that the server aborts ends a transaction behind the
\* connection's back.
LEMMA NeverAborted == ASSUME ServerAborts = FALSE PROVE Spec => [](aborted = FALSE)
  <1>1. Init => aborted = FALSE
    BY DEF Init
  <1>2. aborted = FALSE /\ [Next]_vars => (aborted = FALSE)'
    BY ServerAborts = FALSE
    DEF Next, OperationStep, vars, objVars, sessionVars, historyVars, Fail, EndSession,
        BeginTrans, CommitTrans, RollbackTrans, LoseSession, ConnectFails, Connect,
        ConnectBegin, ConnectBeginFails, Execute, ExecuteFails, ExecuteAborted, IsUsable,
        CommitUnsupported, Commit, CommitFails, CommitLosesSession, CommitBegin,
        CommitBeginFails, Rollback, RollbackFails, RollbackTransStep, RollbackBegin,
        RollbackTransFails, SetAutocommitSame, SetAutocommit, SetAutocommitFails,
        CloseRollback, CloseFails, CloseAdo, CloseAdoFails, Collect, DelRollback, DelRelease
  <1> QED
    BY <1>1, <1>2, PTL DEF Spec

\* When the server aborts no transaction by itself, a rollback() that returns
\* normally has left nothing of its unit of work, neither durable nor pending.
THEOREM RollbackUndoesWork == ASSUME ServerAborts = FALSE PROVE Spec => []RollbackUndoes
  <1>1. Init => RollbackUndoes
    BY DEF Init, RollbackUndoes, Callable
  <1>2. IInv /\ aborted = FALSE /\ RollbackUndoes /\ [Next]_vars => RollbackUndoes'
    <2> SUFFICES ASSUME IInv, aborted = FALSE, RollbackUndoes, [Next]_vars
                 PROVE RollbackUndoes'
      OBVIOUS
    <2> USE DEF Callable, Return, Continue, Fail, objVars, sessionVars, historyVars
    \* A step that returns from another operation, or with an error.
    <2> DEFINE Other == ret'.op # "rollback" \/ ret'.out # "ok" \/ pc' # "idle"
    <2>0. Other => RollbackUndoes'
      BY DEF RollbackUndoes
    <2>1. CASE Rollback
      \* A manual connection has a transaction: rollback() goes on.
      <3>1. supportsTransactions => trancount = 1
        BY <2>1 DEF Rollback, IInv, UnitAccounted, Settled
      <3> QED
        BY <2>1, <3>1 DEF Rollback, RollbackUndoes
    <2>2. CASE RollbackTransStep
      <3>1. supportsTransactions => unit \cap durable = {}
        BY <2>2 DEF RollbackTransStep, RollbackTrans, CanEnd, AdoWorks, IInv, UnitStepInv
      <3> QED
        BY <2>2, <3>1 DEF RollbackTransStep, RollbackTrans, RollbackUndoes
    <2>3. CASE RollbackBegin
      <3>1. pending = {} /\ pending' = {}
        BY <2>3 DEF RollbackBegin, BeginTrans, CanBegin, IInv, PendingInTransaction
      <3>2. (supportsTransactions => unit \cap durable = {}) /\ UNCHANGED durable
        BY <2>3 DEF RollbackBegin, BeginTrans, IInv, UnitStepInv
      <3> QED
        BY <2>3, <3>1, <3>2 DEF RollbackBegin, RollbackUndoes
    <2>4. CASE RollbackFails \/ RollbackTransFails
      <3>1. Other
        BY <2>4 DEF RollbackFails, RollbackTransFails
      <3> QED
        BY <2>0, <3>1
    <2>5. CASE CommitUnsupported \/ Commit \/ CommitFails \/ CommitLosesSession
                 \/ CommitBegin \/ CommitBeginFails
      <3>1. Other
        BY <2>5 DEF CommitUnsupported, Commit, CommitFails, CommitLosesSession, CommitBegin,
                    CommitBeginFails
      <3> QED
        BY <2>0, <3>1
    <2>6. CASE ConnectFails \/ (\E useTransactions \in BOOLEAN : Connect(useTransactions))
                 \/ ConnectBegin \/ ConnectBeginFails
      <3>1. Other
        BY <2>6 DEF ConnectFails, Connect, ConnectBegin, ConnectBeginFails
      <3> QED
        BY <2>0, <3>1
    <2>7. CASE (\E w \in Writes : Execute(w)) \/ ExecuteFails \/ ExecuteAborted \/ IsUsable
      <3>1. Other
        BY <2>7 DEF Execute, ExecuteFails, ExecuteAborted, IsUsable
      <3> QED
        BY <2>0, <3>1
    <2>8. CASE \E value \in BOOLEAN :
                 SetAutocommitSame(value) \/ SetAutocommit(value) \/ SetAutocommitFails(value)
      <3>1. Other
        BY <2>8 DEF SetAutocommitSame, SetAutocommit, SetAutocommitFails
      <3> QED
        BY <2>0, <3>1
    <2>9. CASE CloseRollback \/ CloseFails \/ CloseAdo \/ CloseAdoFails
      <3>1. Other
        BY <2>9 DEF CloseRollback, CloseFails, CloseAdo, CloseAdoFails
      <3> QED
        BY <2>0, <3>1
    <2>10. CASE Collect \/ DelRollback \/ DelRelease
      BY <2>10 DEF Collect, DelRollback, DelRelease, RollbackUndoes
    <2>11. CASE LoseSession
      BY <2>11 DEF LoseSession, EndSession, RollbackUndoes
    <2>12. CASE UNCHANGED vars
      BY <2>12 DEF vars, RollbackUndoes
    <2> QED
      BY <2>1, <2>2, <2>3, <2>4, <2>5, <2>6, <2>7, <2>8, <2>9, <2>10, <2>11, <2>12
      DEF Next, OperationStep
  <1> QED
    BY InvCorrect, NeverAborted, <1>1, <1>2, PTL DEF Spec

------------------------------------------------------------------------------

LEMMA AutoInvCorrect == ASSUME AbortRetaining = FALSE PROVE Spec => []AutoInv
  <1>1. Init => AutoInv
    BY DEF Init, AutoInv
  <1>2. IInv /\ AutoInv /\ [Next]_vars => AutoInv'
    <2> SUFFICES ASSUME IInv, AutoInv, [Next]_vars PROVE AutoInv'
      OBVIOUS
    <2> USE AbortRetaining = FALSE
        DEF AutoInv, Callable, Return, Continue, Fail, Boundary,
            objVars, sessionVars, historyVars
    <2>1. CASE ConnectFails \/ \E useTransactions \in BOOLEAN : Connect(useTransactions)
      BY <2>1 DEF ConnectFails, Connect
    <2>2. CASE ConnectBegin \/ ConnectBeginFails
      BY <2>2 DEF ConnectBegin, ConnectBeginFails, BeginTrans, IInv, StepInv
    <2>3. CASE (\E w \in Writes : Execute(w)) \/ ExecuteFails \/ ExecuteAborted \/ IsUsable
      BY <2>3 DEF Execute, ExecuteFails, ExecuteAborted, IsUsable, AdoWorks
    <2>4. CASE CommitUnsupported \/ Commit \/ CommitFails \/ CommitLosesSession
      BY <2>4 DEF CommitUnsupported, Commit, CommitTrans, CommitFails, CommitLosesSession,
                  EndSession
    <2>5. CASE CommitBegin \/ CommitBeginFails
      BY <2>5 DEF CommitBegin, CommitBeginFails, IInv, StepInv
    <2>6. CASE Rollback \/ RollbackFails
      BY <2>6 DEF Rollback, RollbackFails, AdoWorks
    <2>7. CASE RollbackTransStep \/ RollbackBegin \/ RollbackTransFails
      BY <2>7 DEF RollbackTransStep, RollbackTrans, RollbackBegin, BeginTrans,
                  RollbackTransFails
    <2>8. CASE \E value \in BOOLEAN :
                 SetAutocommitSame(value) \/ SetAutocommit(value) \/ SetAutocommitFails(value)
      <3>1. ASSUME NEW value \in BOOLEAN, SetAutocommit(value) PROVE AutoInv'
        <4>1. CASE supportsTransactions = TRUE
          <5>1. RollbackTrans
            BY <3>1, <4>1 DEF SetAutocommit
          <5>2. trancount' = 0
            BY <5>1 DEF RollbackTrans
          <5>3. unit' = {} /\ pc' = "idle"
            BY <3>1 DEF SetAutocommit
          <5> QED
            BY <5>2, <5>3
        <4>2. CASE supportsTransactions = FALSE
          <5>1. value = FALSE /\ supportsTransactions' = ~value
            BY <3>1, <4>2 DEF SetAutocommit
          <5>2. supportsTransactions' = TRUE
            BY <5>1
          <5> QED
            BY <5>2
        <4> QED
          BY <4>1, <4>2 DEF IInv, TypeOK
      <3> QED
        BY <2>8, <3>1 DEF SetAutocommitSame, SetAutocommitFails
    <2>9. CASE CloseRollback \/ CloseFails \/ CloseAdo \/ CloseAdoFails
      BY <2>9 DEF CloseRollback, RollbackTrans, CloseFails, CloseAdo, CloseAdoFails, EndSession
    <2>10. CASE Collect \/ DelRollback \/ DelRelease
      BY <2>10 DEF Collect, DelRollback, RollbackTrans, DelRelease, EndSession
    <2>11. CASE LoseSession
      BY <2>11 DEF LoseSession, EndSession
    <2>12. CASE UNCHANGED vars
      BY <2>12 DEF vars
    <2> QED
      BY <2>1, <2>2, <2>3, <2>4, <2>5, <2>6, <2>7, <2>8, <2>9, <2>10, <2>11, <2>12
      DEF Next, OperationStep
  <1> QED
    BY InvCorrect, <1>1, <1>2, PTL DEF Spec

\* With a provider whose aborts do not retain, what an autocommit connection has
\* acknowledged is durable between two calls.
THEOREM AutoWorkIsDurable == ASSUME AbortRetaining = FALSE PROVE Spec => []AutoIsDurable
  <1>1. AutoInv => AutoIsDurable
    BY DEF AutoInv, AutoIsDurable, Settled, AdoWorks
  <1> QED
    BY AutoInvCorrect, <1>1, PTL

------------------------------------------------------------------------------

\* The connection implements the contract: with such a provider, and when the
\* server aborts no transaction by itself, each of its steps is a step of
\* TransactionContract or changes nothing that the contract speaks of, also
\* when sessions are lost in the middle of operations.
THEOREM Implementation ==
  ASSUME ServerAborts = FALSE, AbortRetaining = FALSE PROVE Spec => ImplementsContract
  <1>1. Init => Contract!CInit
    BY DEF Init, Contract!CInit
  <1>2. IInv /\ AutoInv /\ aborted = FALSE /\ [Next]_vars
          => [Contract!CNext]_(Contract!cvars)
    <2> SUFFICES ASSUME IInv, AutoInv, aborted = FALSE, [Next]_vars
                 PROVE [Contract!CNext]_(Contract!cvars)
      OBVIOUS
    <2> DEFINE Mode == IF session = "up"
                       THEN IF supportsTransactions THEN "manual" ELSE "auto"
                       ELSE "none"
               Stutter == Mode' = Mode /\ pending' = pending /\ durable' = durable
    <2> USE DEF Callable, Return, Continue, Fail, objVars, sessionVars, historyVars
    <2>0. Stutter => UNCHANGED Contract!cvars
      BY DEF Contract!cvars
    <2>1. ASSUME NEW useTransactions \in BOOLEAN, Connect(useTransactions)
          PROVE \E m \in {"manual", "auto"} : Contract!Start(m)
      <3> DEFINE m == IF useTransactions THEN "manual" ELSE "auto"
      <3>1. session # "up"
        BY <2>1 DEF Connect, IInv, StepInv
      <3>2. Contract!Start(m)
        BY <2>1, <3>1 DEF Connect, Contract!Start
      <3> QED
        BY <3>2
    <2>2. ASSUME NEW w \in Writes, Execute(w) PROVE Contract!Write(w)
      <3>1. session = "up" /\ (supportsTransactions <=> trancount = 1)
        BY <2>2 DEF Execute, AdoWorks, IInv, UnitAccounted, Settled, AutoInv
      <3> QED
        BY <2>2, <3>1 DEF Execute, Contract!Write
    <2>3. CASE Commit
      <3>1. Contract!Commit
        BY <2>3 DEF Commit, CommitTrans, CanEnd, AdoWorks, Contract!Commit
      <3> QED
        BY <3>1 DEF Contract!CNext
    <2>4. CASE CommitLosesSession
      <3>1. Contract!End
        BY <2>4 DEF CommitLosesSession, EndSession, CanEnd, AdoWorks, Contract!End
      <3> QED
        BY <3>1 DEF Contract!CNext
    <2>5. CASE RollbackTransStep \/ CloseRollback \/ DelRollback
               \/ \E value \in BOOLEAN : SetAutocommit(value)
      <3>1. Stutter \/ \E m \in {"manual", "auto"} : Contract!Discard(m)
        BY <2>5 DEF RollbackTransStep, CloseRollback, DelRollback, SetAutocommit,
                    RollbackTrans, BeginTrans, CanEnd, CanBegin, AdoWorks, Contract!Discard,
                    IInv, PendingInTransaction
      <3> QED
        BY <2>0, <3>1 DEF Contract!CNext
    <2>6. CASE CloseAdo \/ DelRelease \/ LoseSession
      <3>1. Stutter \/ Contract!End
        BY <2>6 DEF CloseAdo, DelRelease, LoseSession, EndSession, Contract!End,
                    IInv, PendingInTransaction
      <3> QED
        BY <2>0, <3>1 DEF Contract!CNext
    <2>7. CASE ConnectFails \/ ConnectBegin \/ ConnectBeginFails \/ ExecuteFails
               \/ IsUsable \/ CommitUnsupported \/ CommitFails \/ CommitBegin
               \/ CommitBeginFails
      <3>1. Stutter
        BY <2>7 DEF ConnectFails, ConnectBegin, ConnectBeginFails, BeginTrans, ExecuteFails,
                    IsUsable, CommitUnsupported, CommitFails, CommitBegin, CommitBeginFails
      <3> QED
        BY <2>0, <3>1
    <2>8. CASE Rollback \/ RollbackFails \/ RollbackBegin \/ RollbackTransFails
               \/ CloseFails \/ CloseAdoFails \/ Collect \/ UNCHANGED vars
               \/ \E value \in BOOLEAN : SetAutocommitSame(value) \/ SetAutocommitFails(value)
      <3>1. Stutter
        BY <2>8 DEF Rollback, RollbackFails, RollbackBegin, BeginTrans, RollbackTransFails,
                    CloseFails, CloseAdoFails, Collect, vars, SetAutocommitSame,
                    SetAutocommitFails
      <3> QED
        BY <2>0, <3>1
    <2>9. ~ExecuteAborted
      BY ServerAborts = FALSE DEF ExecuteAborted
    <2> QED
      BY <2>1, <2>2, <2>3, <2>4, <2>5, <2>6, <2>7, <2>8, <2>9
      DEF Next, OperationStep, Contract!CNext
  <1> QED
    BY InvCorrect, AutoInvCorrect, NeverAborted, <1>1, <1>2, PTL
    DEF Spec, ImplementsContract, Contract!CSpec

------------------------------------------------------------------------------

\* When the server aborts no transaction by itself, whatever becomes durable on
\* a manual connection is the whole of its transaction: commit() is the only
\* way, and no write finds itself outside a transaction.
THEOREM ManualWorkIsAtomic == ASSUME ServerAborts = FALSE PROVE Spec => ManualIsAtomic
  <1>1. IInv /\ aborted = FALSE /\ [Next]_vars =>
          [supportsTransactions /\ durable' # durable
             => durable' = durable \cup pending /\ pending' = {}]_vars
    <2> SUFFICES ASSUME IInv, aborted = FALSE, [Next]_vars,
                        supportsTransactions, durable' # durable
                 PROVE  durable' = durable \cup pending /\ pending' = {}
      OBVIOUS
    <2> USE DEF Fail, Continue, Return, objVars, sessionVars, historyVars
    <2>1. ASSUME NEW w \in Writes, Execute(w) PROVE FALSE
      <3>1. trancount = 1
        BY <2>1 DEF Execute, IInv, UnitAccounted, Settled
      <3> QED
        BY <2>1, <3>1 DEF Execute
    <2>2. CASE Commit
      BY <2>2 DEF Commit, CommitTrans
    <2>3. CASE CommitLosesSession
      BY <2>3 DEF CommitLosesSession, EndSession
    \* No other step touches what is durable.
    <2>4. CASE OperationStep
      BY <2>4 DEF OperationStep, ConnectBegin, ConnectBeginFails, CommitBegin, CommitBeginFails,
                  RollbackTransStep, RollbackTrans, RollbackBegin, RollbackTransFails,
                  BeginTrans, CloseAdo, CloseAdoFails, DelRollback, DelRelease
    <2>5. CASE \E value \in BOOLEAN :
                 SetAutocommitSame(value) \/ SetAutocommit(value) \/ SetAutocommitFails(value)
      BY <2>5 DEF SetAutocommitSame, SetAutocommit, SetAutocommitFails, RollbackTrans, BeginTrans
    <2>6. CASE ConnectFails \/ (\E useTransactions \in BOOLEAN : Connect(useTransactions))
               \/ ExecuteFails \/ ExecuteAborted \/ IsUsable \/ CommitUnsupported \/ CommitFails
               \/ Rollback \/ RollbackFails \/ CloseRollback \/ CloseFails \/ Collect
               \/ LoseSession \/ UNCHANGED vars
      BY <2>6 DEF ConnectFails, Connect, ExecuteFails, ExecuteAborted, IsUsable,
                  CommitUnsupported, CommitFails, Rollback, RollbackFails, CloseRollback,
                  RollbackTrans, CloseFails, Collect, LoseSession, vars
    <2> QED
      BY <2>1, <2>2, <2>3, <2>4, <2>5, <2>6 DEF Next
  <1> QED
    BY InvCorrect, NeverAborted, <1>1, PTL DEF Spec, ManualIsAtomic

\* Every operation on a closed manual connection raises an Error of the module,
\* however it was closed.
THEOREM ClosedConnectionRaises == Spec => ClosedRaises
  <1>1. [Next]_vars =>
          [Callable /\ ~adoConn /\ supportsTransactions /\ ret' # ret
             /\ ret'.op \in {"execute", "commit", "rollback", "close"}
           => ret'.out \in Errors]_vars
    <2> SUFFICES ASSUME [Next]_vars, Callable, ~adoConn, supportsTransactions, ret' # ret,
                        ret'.op \in {"execute", "commit", "rollback", "close"}
                 PROVE  ret'.out \in Errors
      OBVIOUS
    <2> USE DEF Callable, Fail, Continue, Return
    <2>1. CASE ExecuteFails \/ CommitFails \/ RollbackFails \/ CloseFails
      BY <2>1 DEF ExecuteFails, CommitFails, RollbackFails, CloseFails, Errors
    \* What needs the ADO connection, or autocommit, cannot happen.
    <2>2. CASE (\E w \in Writes : Execute(w)) \/ ExecuteAborted \/ CommitUnsupported
               \/ Commit \/ CommitLosesSession \/ Rollback \/ CloseRollback
      BY <2>2 DEF Execute, ExecuteAborted, CommitUnsupported, Commit, CommitTrans,
                  CommitLosesSession, Rollback, CloseRollback, CanEnd, AdoWorks
    <2>3. CASE OperationStep
      BY <2>3 DEF OperationStep, ConnectBegin, ConnectBeginFails, CommitBegin, CommitBeginFails,
                  RollbackTransStep, RollbackBegin, RollbackTransFails, CloseAdo, CloseAdoFails,
                  DelRollback, DelRelease
    \* The rest returns from something else, or not at all.
    <2>4. CASE \E value \in BOOLEAN :
                 SetAutocommitSame(value) \/ SetAutocommit(value) \/ SetAutocommitFails(value)
      <3>1. \E out \in {"ok", "raw"} : ret' = [op |-> "set_autocommit", out |-> out, unit |-> unit]
        BY <2>4 DEF SetAutocommitSame, SetAutocommit, SetAutocommitFails
      <3> QED
        BY <3>1
    <2>5. CASE ConnectFails \/ (\E useTransactions \in BOOLEAN : Connect(useTransactions))
      <3>1. ret' = ret \/ ret'.op = "connect"
        BY <2>5 DEF ConnectFails, Connect
      <3> QED
        BY <3>1
    <2>6. CASE IsUsable
      <3>1. ret'.op = "is_usable"
        BY <2>6 DEF IsUsable
      <3> QED
        BY <3>1
    <2>7. CASE Collect \/ LoseSession \/ UNCHANGED vars
      BY <2>7 DEF Collect, LoseSession, vars
    <2> QED
      BY <2>1, <2>2, <2>3, <2>4, <2>5, <2>6, <2>7 DEF Next
  <1> QED
    BY <1>1, PTL DEF Spec, ClosedRaises

==============================================================================
