--------------------------- MODULE SwapTaskProofs ---------------------------
(***************************************************************************)
(* Theorems about SwapTask for every number of workers, executions, users, *)
(* retries, crashes and redeliveries, and every set of faults.             *)
(***************************************************************************)
EXTENDS SwapTask, TLAPS

\* The type of one step of keeper.execute.
LEMMA KeeperStepType ==
    ASSUME TypeOK, NEW w \in Workers, KeeperStep(w)
    PROVE  RunTypeOK' /\ ChainTypeOK' /\ LedgerTypeOK'
<1> USE DEF TypeOK, RunTypeOK, ChainTypeOK, LedgerTypeOK, Goto, Returns,
            chainVars, ledgerVars
<1>a. Ex(w) \in Executions
  BY DEF Ex, Messages
<1>b. User(w) \in Users
  BY <1>a, PlanAssumption DEF User
<1>c. Amount[Ex(w)] \in Nat
  BY <1>a, PlanAssumption
<1>d. \A kind \in {"approve", "swap"}, fee \in Fees : Signed(w, kind, fee) \in Txs
  BY <1>a DEF Signed, Txs
<1>1. CASE RejectPlan(w)
  BY <1>1 DEF RejectPlan, PCs, Results
<1>2. CASE AcceptPlan(w)
  BY <1>2 DEF AcceptPlan, PCs
<1>3. CASE RaiseEarly(w)
  BY <1>3 DEF RaiseEarly, PCs
<1>4. CASE LockUnavailable(w)
  BY <1>4 DEF LockUnavailable, PCs, Results
<1>5. CASE LockRead(w)
  BY <1>5, <1>b DEF LockRead, PCs
<1>6. CASE LockWrite(w)
  BY <1>6, <1>a, <1>b, <1>c DEF LockWrite, SetHold, Raised, User, PCs
<1>7. CASE LockRaises(w)
  BY <1>7 DEF LockRaises, PCs
<1>8. CASE GetWeb3(w)
  BY <1>8 DEF GetWeb3, PCs
<1>9. CASE GetWeb3Raises(w)
  BY <1>9 DEF GetWeb3Raises, PCs
<1>10. CASE AllowanceEnough(w)
  BY <1>10 DEF AllowanceEnough, PCs
<1>11. CASE AllowanceShort(w)
  BY <1>11 DEF AllowanceShort, PCs
<1>12. CASE ReadNonce(w)
  BY <1>12 DEF ReadNonce, PCs
<1>13. CASE SendApprove(w)
  BY <1>13, <1>d DEF SendApprove, Send, Broadcast, PCs
<1>14. CASE SendSwap(w)
  BY <1>14, <1>d DEF SendSwap, Send, Broadcast, PCs
<1>15. CASE RpcFails(w)
  BY <1>15 DEF RpcFails, Excepts, PCs, Results
<1>16. CASE AnswerLost(w)
  BY <1>16, <1>d DEF AnswerLost, Excepts, Broadcast, PCs, Results
<1>17. CASE ApproveMined(w)
  BY <1>17 DEF ApproveMined, PCs
<1>18. CASE ApproveTimeout(w)
  BY <1>18 DEF ApproveTimeout, Excepts, PCs, Results
<1>19. CASE ReceiptOk(w)
  BY <1>19 DEF ReceiptOk, PCs
<1>20. CASE ReceiptReverted(w)
  BY <1>20 DEF ReceiptReverted, PCs, Results
<1>21. CASE ReceiptTimeout(w)
  BY <1>21 DEF ReceiptTimeout, PCs, Results
<1>22. CASE Credit(w)
  BY <1>22, <1>a DEF Credit, IncreaseAmount, PCs, Results
<1>23. CASE CreditNothing(w)
  BY <1>23 DEF CreditNothing, PCs, Results
<1>24. CASE UnlockRead(w)
  BY <1>24, <1>b DEF UnlockRead, PCs
<1>25. CASE UnlockWrite(w)
  BY <1>25, <1>a, <1>b, <1>c DEF UnlockWrite, FreeHold, Lowered, User, PCs
<1>26. CASE UnlockFails(w)
  BY <1>26 DEF UnlockFails, PCs
<1> QED
  BY <1>1, <1>2, <1>3, <1>4, <1>5, <1>6, <1>7, <1>8, <1>9, <1>10, <1>11,
     <1>12, <1>13, <1>14, <1>15, <1>16, <1>17, <1>18, <1>19, <1>20, <1>21,
     <1>22, <1>23, <1>24, <1>25, <1>26 DEF KeeperStep

LEMMA NoJobType == NoJob \in Messages
  BY PlanAssumption, KeeperAssumption DEF NoJob, Messages

\* A step that forgets a worker's run keeps the types of the runs.
LEMMA ForgetType ==
    ASSUME RunTypeOK, NEW w \in Workers, Forget(w)
    PROVE  RunTypeOK'
  BY NoJobType DEF RunTypeOK, Forget, PCs, Results

\* Blocks and evictions keep the types of the chain.
LEMMA ChainStepType ==
    ASSUME ChainTypeOK, ChainStep
    PROVE  ChainTypeOK'
<1>1. CASE \E t \in pool, ok \in BOOLEAN : Mine(t, ok)
  BY <1>1 DEF ChainTypeOK, Mine
<1>2. CASE \E t \in pool : Evict(t)
  BY <1>2 DEF ChainTypeOK, Evict
<1> QED
  BY <1>1, <1>2 DEF ChainStep

\* The type invariant is inductive.
LEMMA TypeStep ==
    ASSUME TypeOK, [Next]_vars
    PROVE  TypeOK'
<1> USE DEF TypeOK, rowVars, brokerVars
<1>1. CASE Enqueue
  <2>1. RunTypeOK' /\ ChainTypeOK' /\ LedgerTypeOK'
    BY <1>1 DEF Enqueue, CreateRow, Publish, PublishFails, RunTypeOK,
         ChainTypeOK, LedgerTypeOK, runVars, chainVars, ledgerVars
  <2>2. RowTypeOK'
    BY <1>1 DEF Enqueue, CreateRow, Publish, PublishFails, RowTypeOK, Statuses
  <2>3. \A e \in Executions : [ex |-> e, n |-> 0] \in Messages
    BY KeeperAssumption DEF Messages
  <2>4. BrokerTypeOK'
    BY <1>1, <2>3 DEF Enqueue, CreateRow, Publish, PublishFails, BrokerTypeOK
  <2> QED
    BY <2>1, <2>2, <2>4
<1>2. ASSUME NEW w \in Workers, Deliver(w) PROVE TypeOK'
  BY <1>2 DEF Deliver, Receive, Goto, RowTypeOK, BrokerTypeOK, RunTypeOK,
         ChainTypeOK, LedgerTypeOK, chainVars, ledgerVars, PCs
<1>3. ASSUME NEW w \in Workers, TaskStep(w) PROVE TypeOK'
  <2>1. Ex(w) \in Executions /\ job[w] \in Messages
    BY DEF RunTypeOK, Ex, Messages
  <2>2. CASE Claim(w)
    BY <2>1, <2>2 DEF Claim, Goto, RowTypeOK, BrokerTypeOK, RunTypeOK,
         ChainTypeOK, LedgerTypeOK, chainVars, ledgerVars, PCs, Statuses
  <2>3. CASE Execute(w)
    BY <2>3, KeeperStepType DEF Execute, RowTypeOK, BrokerTypeOK
  <2>4. CASE WriteResult(w)
    BY <2>1, <2>4 DEF WriteResult, StatusOf, Goto, RowTypeOK, BrokerTypeOK,
         RunTypeOK, ChainTypeOK, LedgerTypeOK, chainVars, ledgerVars, PCs,
         Statuses
  <2>5. CASE ResultLost(w)
    BY <2>5 DEF ResultLost, Goto, RowTypeOK, BrokerTypeOK, RunTypeOK,
         ChainTypeOK, LedgerTypeOK, chainVars, ledgerVars, PCs
  <2>6. CASE SaveFailed(w)
    BY <2>1, <2>6 DEF SaveFailed, Goto, RowTypeOK, BrokerTypeOK, RunTypeOK,
         ChainTypeOK, LedgerTypeOK, chainVars, ledgerVars, PCs, Statuses
  <2>7. CASE Retry(w)
    <3>1. job[w].n < MaxRetries =>
            [ex |-> Ex(w), n |-> job[w].n + 1] \in Messages
      BY <2>1, KeeperAssumption DEF Messages
    <3>2. BrokerTypeOK'
      BY <2>7, <3>1 DEF Retry, BrokerTypeOK
    <3> QED
      BY <2>7, <3>2 DEF Retry, Goto, RowTypeOK, RunTypeOK, ChainTypeOK,
         LedgerTypeOK, chainVars, ledgerVars, PCs
  <2>8. CASE Ack(w)
    BY <2>8, ForgetType DEF Ack, RowTypeOK, BrokerTypeOK, ChainTypeOK,
         LedgerTypeOK, chainVars, ledgerVars
  <2> QED
    BY <1>3, <2>2, <2>3, <2>4, <2>5, <2>6, <2>7, <2>8 DEF TaskStep
<1>4. ASSUME NEW w \in Workers, Faulty(w) PROVE TypeOK'
  <2>1. job[w] \in Messages
    BY DEF RunTypeOK
  <2>2. CASE Crash(w)
    BY <2>1, <2>2, ForgetType DEF Crash, RowTypeOK, BrokerTypeOK,
         ChainTypeOK, LedgerTypeOK, chainVars, ledgerVars
  <2>3. CASE Redeliver(w)
    BY <2>1, <2>3 DEF Redeliver, RowTypeOK, BrokerTypeOK, RunTypeOK,
         ChainTypeOK, LedgerTypeOK, runVars, chainVars, ledgerVars
  <2> QED
    BY <1>4, <2>2, <2>3 DEF Faulty
<1>5. CASE Chain
  BY <1>5, ChainStepType DEF Chain, RowTypeOK, BrokerTypeOK, RunTypeOK,
       LedgerTypeOK, runVars, ledgerVars
<1>6. CASE UNCHANGED vars
  BY <1>6 DEF vars, RowTypeOK, BrokerTypeOK, RunTypeOK, ChainTypeOK,
       LedgerTypeOK, runVars, chainVars, ledgerVars
<1> QED
  BY <1>1, <1>2, <1>3, <1>4, <1>5, <1>6 DEF Next

\* The types hold in every reachable state of the swap system.
THEOREM TypeCorrect == Spec => []TypeOK
<1>1. Init => TypeOK
  BY PlanAssumption, DepositAssumption, KeeperAssumption, NoJobType
     DEF Init, TypeOK, RowTypeOK, BrokerTypeOK, RunTypeOK, ChainTypeOK,
         LedgerTypeOK, RunInit, ChainInit, LedgerInit, Statuses, PCs, Results
<1>2. TypeOK /\ [Next]_vars => TypeOK'
  BY TypeStep
<1> QED
  BY <1>1, <1>2, PTL DEF Spec

----------------------------------------------------------------------------
(* The final statuses and the chain *)

\* What a step of another actor leaves alone of a worker's run.
SameRun(v) ==
    /\ pc'[v] = pc[v] /\ job'[v] = job[v]
    /\ tx'[v] = tx[v] /\ result'[v] = result[v]

\* A step of keeper.execute touches no other run and forgets no receipt.
LEMMA KeeperFrame ==
    ASSUME TypeOK, NEW w \in Workers, KeeperStep(w)
    PROVE  /\ \A v \in Workers \ {w} : SameRun(v)
           /\ job' = job
           /\ mined' = mined
<1> USE DEF TypeOK, RunTypeOK, Goto, Returns, chainVars, SameRun
<1>1. CASE RejectPlan(w) \/ AcceptPlan(w) \/ RaiseEarly(w) \/ LockUnavailable(w)
  BY <1>1 DEF RejectPlan, AcceptPlan, RaiseEarly, LockUnavailable
<1>2. CASE LockRead(w) \/ LockWrite(w) \/ LockRaises(w) \/ GetWeb3(w)
  BY <1>2 DEF LockRead, LockWrite, LockRaises, GetWeb3
<1>3. CASE GetWeb3Raises(w) \/ AllowanceEnough(w) \/ AllowanceShort(w)
             \/ ReadNonce(w)
  BY <1>3 DEF GetWeb3Raises, AllowanceEnough, AllowanceShort, ReadNonce
<1>4. CASE SendApprove(w) \/ SendSwap(w)
  BY <1>4 DEF SendApprove, SendSwap, Send, Broadcast
<1>5. CASE RpcFails(w) \/ AnswerLost(w) \/ ApproveTimeout(w)
  BY <1>5 DEF RpcFails, AnswerLost, ApproveTimeout, Excepts, Broadcast
<1>6. CASE ApproveMined(w) \/ ReceiptOk(w) \/ ReceiptReverted(w)
             \/ ReceiptTimeout(w)
  BY <1>6 DEF ApproveMined, ReceiptOk, ReceiptReverted, ReceiptTimeout
<1>7. CASE Credit(w) \/ CreditNothing(w) \/ UnlockRead(w) \/ UnlockWrite(w)
             \/ UnlockFails(w)
  BY <1>7 DEF Credit, CreditNothing, UnlockRead, UnlockWrite, UnlockFails
<1> QED
  BY <1>1, <1>2, <1>3, <1>4, <1>5, <1>6, <1>7 DEF KeeperStep

\* No step forgets a receipt.
LEMMA MinedGrows ==
    ASSUME TypeOK, [Next]_vars
    PROVE  mined \subseteq mined'
<1>1. CASE Enqueue
  BY <1>1 DEF Enqueue, CreateRow, Publish, PublishFails, chainVars
<1>2. ASSUME NEW w \in Workers, Deliver(w) PROVE mined \subseteq mined'
  BY <1>2 DEF Deliver, Receive, chainVars
<1>3. ASSUME NEW w \in Workers, TaskStep(w) PROVE mined \subseteq mined'
  BY <1>3, KeeperFrame DEF TaskStep, Claim, Execute, WriteResult, ResultLost,
       SaveFailed, Retry, Ack, chainVars
<1>4. ASSUME NEW w \in Workers, Faulty(w) PROVE mined \subseteq mined'
  BY <1>4 DEF Faulty, Crash, Redeliver, chainVars
<1>5. CASE Chain
  BY <1>5 DEF Chain, ChainStep, Mine, Evict
<1>6. CASE UNCHANGED vars
  BY <1>6 DEF vars, chainVars
<1> QED
  BY <1>1, <1>2, <1>3, <1>4, <1>5, <1>6 DEF Next

\* What a run knows survives the steps of the others.
LEMMA KnowledgeStays ==
    ASSUME NEW v \in Workers, RunKnows(v), SameRun(v), mined \subseteq mined'
    PROVE  RunKnows(v)'
  BY DEF RunKnows, SameRun, OwnSwap, Ex, MinedOk

\* A step of keeper.execute keeps what its own run knows.
LEMMA KeeperLearns ==
    ASSUME TypeOK, NEW w \in Workers, KeeperStep(w), RunKnows(w)
    PROVE  RunKnows(w)'
<1> USE DEF TypeOK, RunTypeOK, Goto, Returns, RunKnows
<1>a. Ex(w) \in Executions /\ nonce[w] \in Nat
  BY DEF Ex, Messages
<1>1. CASE RejectPlan(w) \/ AcceptPlan(w) \/ RaiseEarly(w) \/ LockUnavailable(w)
  BY <1>1 DEF RejectPlan, AcceptPlan, RaiseEarly, LockUnavailable
<1>2. CASE LockRead(w) \/ LockWrite(w) \/ LockRaises(w) \/ GetWeb3(w)
  BY <1>2 DEF LockRead, LockWrite, LockRaises, GetWeb3
<1>3. CASE GetWeb3Raises(w) \/ AllowanceEnough(w) \/ AllowanceShort(w)
             \/ ReadNonce(w)
  BY <1>3 DEF GetWeb3Raises, AllowanceEnough, AllowanceShort, ReadNonce
<1>4. CASE SendApprove(w)
  BY <1>4 DEF SendApprove, Send
<1>5. CASE SendSwap(w)
  <2>1. PICK fee \in Fees : tx' = [tx EXCEPT ![w] = Signed(w, "swap", fee)]
    BY <1>5 DEF SendSwap, Send
  <2>2. tx'[w] = [ex |-> Ex(w), kind |-> "swap", nonce |-> nonce[w], fee |-> fee]
    BY <2>1 DEF Signed
  <2>3. OwnSwap(w)'
    BY <1>5, <1>a, <2>2 DEF SendSwap, Send, OwnSwap, Ex, Txs
  <2> QED
    BY <1>5, <2>3 DEF SendSwap, Send
<1>6. CASE RpcFails(w) \/ AnswerLost(w) \/ ApproveTimeout(w)
  BY <1>6 DEF RpcFails, AnswerLost, ApproveTimeout, Excepts
<1>7. CASE ApproveMined(w)
  BY <1>7 DEF ApproveMined
<1>8. CASE ReceiptOk(w)
  BY <1>8 DEF ReceiptOk, OwnSwap, Ex, MinedOk, chainVars
<1>9. CASE ReceiptReverted(w)
  <2>1. PICK m \in mined : m.tx = tx[w]
    BY <1>9 DEF ReceiptReverted, Mined
  <2>2. m = [tx |-> tx[w], ok |-> m.ok] /\ m.ok \in BOOLEAN
    BY <2>1 DEF ChainTypeOK
  <2>3. [tx |-> tx[w], ok |-> FALSE] \in mined
    BY <1>9, <2>1, <2>2 DEF ReceiptReverted, MinedOk
  <2> QED
    BY <1>9, <2>3 DEF ReceiptReverted, OwnSwap, Ex, chainVars
<1>10. CASE ReceiptTimeout(w)
  BY <1>10 DEF ReceiptTimeout
<1>11. CASE Credit(w) \/ CreditNothing(w)
  BY <1>11 DEF Credit, CreditNothing, OwnSwap, Ex, MinedOk, chainVars
<1>12. CASE UnlockRead(w) \/ UnlockWrite(w) \/ UnlockFails(w)
  BY <1>12 DEF UnlockRead, UnlockWrite, UnlockFails, OwnSwap, Ex, chainVars
<1> QED
  BY <1>1, <1>2, <1>3, <1>4, <1>5, <1>6, <1>7, <1>8, <1>9, <1>10, <1>11,
     <1>12 DEF KeeperStep

\* What makes one row right.
RowMatches(e) ==
    /\ status[e] = "success" =>
          \E m \in SettledSwaps(e) : m.tx = txHash[e]
    /\ status[e] = "reverted" =>
          \E m \in mined : /\ m.tx = txHash[e] /\ ~m.ok
                           /\ m.tx.ex = e /\ m.tx.kind = "swap"

\* A row nobody writes stays right.
LEMMA RowStays ==
    ASSUME NEW e \in Executions, RowMatches(e), mined \subseteq mined',
           status'[e] = status[e], txHash'[e] = txHash[e]
    PROVE  RowMatches(e)'
  BY DEF RowMatches, SettledSwaps

\* A row written with anything but a final status needs nothing of the chain.
LEMMA RowNotFinal ==
    ASSUME NEW e \in Executions, status'[e] \notin {"success", "reverted"}
    PROVE  RowMatches(e)'
  BY DEF RowMatches

\* The row WriteResult writes is right when the run knows its receipt.
LEMMA WrittenRow ==
    ASSUME TypeOK, NEW w \in Workers, RunKnows(w), WriteResult(w),
           NEW e \in Executions, e = Ex(w)
    PROVE  RowMatches(e)'
<1>1. pc[w] = "write" /\ mined' = mined
  BY DEF WriteResult, Goto, chainVars
<1>2. status'[e] = StatusOf(result[w]) /\ txHash'[e] = tx[w]
  BY DEF WriteResult, TypeOK, RowTypeOK
<1>3. CASE result[w] = "success"
  <2>1. OwnSwap(w) /\ [tx |-> tx[w], ok |-> TRUE] \in mined'
    BY <1>1, <1>3 DEF RunKnows, MinedOk
  <2>2. status'[e] = "success"
    BY <1>2, <1>3 DEF StatusOf
  <2> QED
    BY <1>2, <2>1, <2>2 DEF RowMatches, SettledSwaps, OwnSwap
<1>4. CASE result[w] = "tx_reverted"
  <2>1. OwnSwap(w) /\ [tx |-> tx[w], ok |-> FALSE] \in mined'
    BY <1>1, <1>4 DEF RunKnows
  <2>2. status'[e] = "reverted"
    BY <1>2, <1>4 DEF StatusOf
  <2> QED
    BY <1>2, <2>1, <2>2 DEF RowMatches, OwnSwap
<1>5. CASE result[w] \notin {"success", "tx_reverted"}
  BY <1>2, <1>5 DEF StatusOf, RowMatches
<1> QED
  BY <1>3, <1>4, <1>5

\* Every step keeps what the runs know.
LEMMA KnowledgeStep ==
    ASSUME TypeOK, [Next]_vars, \A w \in Workers : RunKnows(w)
    PROVE  \A w \in Workers : RunKnows(w)'
<1>a. mined \subseteq mined'
  BY MinedGrows
<1>b. SUFFICES \A v \in Workers : SameRun(v) \/ RunKnows(v)'
  BY <1>a, KnowledgeStays
<1> USE DEF TypeOK, RunTypeOK, SameRun, Goto
<1>1. CASE Enqueue \/ Chain \/ UNCHANGED vars
  BY <1>1 DEF Enqueue, CreateRow, Publish, PublishFails, Chain, vars, runVars
<1>2. ASSUME NEW w \in Workers, Deliver(w)
      PROVE  \A v \in Workers : SameRun(v) \/ RunKnows(v)'
  BY <1>2 DEF Deliver, Receive, RunKnows
<1>3. ASSUME NEW w \in Workers, TaskStep(w)
      PROVE  \A v \in Workers : SameRun(v) \/ RunKnows(v)'
  <2>1. CASE Execute(w)
    BY <2>1, KeeperFrame, KeeperLearns DEF Execute
  <2>2. CASE Claim(w) \/ WriteResult(w) \/ ResultLost(w) \/ SaveFailed(w)
               \/ Retry(w)
    BY <2>2 DEF Claim, WriteResult, ResultLost, SaveFailed, Retry, RunKnows
  <2>3. CASE Ack(w)
    BY <2>3 DEF Ack, Forget, RunKnows
  <2> QED
    BY <1>3, <2>1, <2>2, <2>3 DEF TaskStep
<1>4. ASSUME NEW w \in Workers, Faulty(w)
      PROVE  \A v \in Workers : SameRun(v) \/ RunKnows(v)'
  BY <1>4 DEF Faulty, Crash, Redeliver, Forget, RunKnows, runVars
<1> QED
  BY <1>1, <1>2, <1>3, <1>4 DEF Next

\* Every step keeps every row right.
LEMMA RowStep ==
    ASSUME TypeOK, [Next]_vars, \A w \in Workers : RunKnows(w),
           NEW e \in Executions, RowMatches(e)
    PROVE  RowMatches(e)'
<1>a. mined \subseteq mined'
  BY MinedGrows
<1>b. SUFFICES ASSUME ~(status'[e] = status[e] /\ txHash'[e] = txHash[e])
               PROVE  RowMatches(e)'
  BY <1>a, RowStays
<1> USE DEF TypeOK, RowTypeOK
<1>1. CASE Enqueue
  BY <1>1, <1>b, RowNotFinal DEF Enqueue, CreateRow, Publish, PublishFails
<1>2. ASSUME NEW w \in Workers, Deliver(w) \/ Faulty(w) PROVE RowMatches(e)'
  BY <1>2, <1>b DEF Deliver, Receive, Faulty, Crash, Redeliver, rowVars
<1>3. ASSUME NEW w \in Workers, TaskStep(w) PROVE RowMatches(e)'
  <2>1. CASE Claim(w)
    BY <2>1, <1>b, RowNotFinal DEF Claim
  <2>2. CASE WriteResult(w)
    <3>1. e = Ex(w)
      BY <2>2, <1>b DEF WriteResult
    <3> QED
      BY <2>2, <3>1, WrittenRow
  <2>3. CASE SaveFailed(w)
    BY <2>3, <1>b, RowNotFinal DEF SaveFailed
  <2>4. CASE Execute(w) \/ ResultLost(w) \/ Retry(w) \/ Ack(w)
    BY <2>4, <1>b DEF Execute, ResultLost, Retry, Ack, rowVars
  <2> QED
    BY <1>3, <2>1, <2>2, <2>3, <2>4 DEF TaskStep
<1>4. CASE Chain \/ UNCHANGED vars
  BY <1>4, <1>b DEF Chain, vars, rowVars
<1> QED
  BY <1>1, <1>2, <1>3, <1>4 DEF Next

\* A SUCCESS row names a swap of its own that was mined and succeeded, a
\* REVERTED row one that was mined and failed, with any number of workers,
\* crashes and redeliveries and however late the receipt is looked at.
THEOREM FinalStatusIsTrue == Spec => []FinalMatchesChain
<1> DEFINE Rows == \A e \in Executions : RowMatches(e)
           Knowledge == \A w \in Workers : RunKnows(w)
<1>1. Rows <=> FinalMatchesChain
  BY DEF RowMatches, FinalMatchesChain
<1>2. Init => Rows /\ Knowledge
  BY DEF Init, RunInit, RowMatches, RunKnows
<1>3. TypeOK /\ [Next]_vars /\ Rows /\ Knowledge => Rows' /\ Knowledge'
  BY RowStep, KnowledgeStep
<1> HIDE DEF Rows, Knowledge
<1>4. QED
  BY <1>1, <1>2, <1>3, TypeCorrect, PTL DEF Spec

----------------------------------------------------------------------------
(* Stranded rows *)

\* A step of keeper.execute is a step of a live run, and what it broadcasts
\* belongs to the execution of that run.
LEMMA KeeperConfined ==
    ASSUME TypeOK, NEW w \in Workers, KeeperStep(w),
           NEW e \in Executions, e # Ex(w)
    PROVE  Live(w) /\ Swaps(e)' = Swaps(e)
<1> USE DEF Goto, chainVars, Live
<1>a. \A kind, fee : Signed(w, kind, fee).ex # e
  BY DEF Signed
<1>1. CASE RejectPlan(w) \/ AcceptPlan(w) \/ RaiseEarly(w) \/ LockUnavailable(w)
  BY <1>1 DEF RejectPlan, AcceptPlan, RaiseEarly, LockUnavailable, Swaps
<1>2. CASE LockRead(w) \/ LockWrite(w) \/ LockRaises(w) \/ GetWeb3(w)
  BY <1>2 DEF LockRead, LockWrite, LockRaises, GetWeb3, Swaps
<1>3. CASE GetWeb3Raises(w) \/ AllowanceEnough(w) \/ AllowanceShort(w)
             \/ ReadNonce(w)
  BY <1>3 DEF GetWeb3Raises, AllowanceEnough, AllowanceShort, ReadNonce, Swaps
<1>4. CASE SendApprove(w) \/ SendSwap(w)
  <2>1. PICK kind \in {"approve", "swap"}, fee \in Fees :
          sent' = sent \cup {Signed(w, kind, fee)}
    BY <1>4 DEF SendApprove, SendSwap, Send, Broadcast
  <2>2. Live(w)
    BY <1>4 DEF SendApprove, SendSwap, Send
  <2> QED
    BY <1>a, <2>1, <2>2 DEF Swaps
<1>5. CASE RpcFails(w) \/ ApproveTimeout(w)
  BY <1>5 DEF RpcFails, ApproveTimeout, Excepts, Swaps
<1>6. CASE AnswerLost(w)
  <2>1. PICK kind \in {"approve", "swap"}, fee \in Fees :
          /\ Excepts(w, IF kind = "swap" THEN "send" ELSE "approve")
          /\ Broadcast(Signed(w, kind, fee))
    BY <1>6 DEF AnswerLost
  <2>2. sent' = sent \cup {Signed(w, kind, fee)}
    BY <2>1 DEF Broadcast
  <2> QED
    BY <1>a, <2>1, <2>2 DEF Excepts, Swaps
<1>7. CASE ApproveMined(w) \/ ReceiptOk(w) \/ ReceiptReverted(w)
             \/ ReceiptTimeout(w)
  BY <1>7 DEF ApproveMined, ReceiptOk, ReceiptReverted, ReceiptTimeout, Swaps
<1>8. CASE Credit(w) \/ CreditNothing(w) \/ UnlockRead(w) \/ UnlockWrite(w)
             \/ UnlockFails(w)
  BY <1>8 DEF Credit, CreditNothing, UnlockRead, UnlockWrite, UnlockFails, Swaps
<1> QED
  BY <1>1, <1>2, <1>3, <1>4, <1>5, <1>6, <1>7, <1>8 DEF KeeperStep

\* No run of e is under way.
NoRunOf(e) == \A w \in Workers : Live(w) => Ex(w) # e

\* A run of e can only start from a queued or failed row.
LEMMA RunsStartRunnable ==
    ASSUME TypeOK, [Next]_vars, NEW e \in Executions, NoRunOf(e),
           status[e] \notin Runnable
    PROVE  NoRunOf(e)' /\ Swaps(e)' = Swaps(e)
<1> USE DEF NoRunOf, Live, TypeOK, RunTypeOK, Goto
<1>1. CASE Enqueue \/ UNCHANGED vars
  BY <1>1 DEF Enqueue, CreateRow, Publish, PublishFails, vars, runVars,
       chainVars, Ex, Swaps
<1>2. CASE Chain
  BY <1>2 DEF Chain, ChainStep, Mine, Evict, runVars, Ex, Swaps
<1>3. ASSUME NEW w \in Workers, Deliver(w)
      PROVE  NoRunOf(e)' /\ Swaps(e)' = Swaps(e)
  BY <1>3 DEF Deliver, Receive, chainVars, Ex, Swaps
<1>4. ASSUME NEW w \in Workers, TaskStep(w)
      PROVE  NoRunOf(e)' /\ Swaps(e)' = Swaps(e)
  <2>1. CASE Execute(w)
    <3>1. KeeperStep(w)
      BY <2>1 DEF Execute
    <3>2. pc[w] \notin {"idle", "retry", "ack"}
      BY <3>1 DEF KeeperStep, RejectPlan, AcceptPlan, RaiseEarly,
           LockUnavailable, LockRead, LockWrite, LockRaises, GetWeb3,
           GetWeb3Raises, AllowanceEnough, AllowanceShort, ReadNonce,
           SendApprove, SendSwap, Send, RpcFails, AnswerLost, Excepts,
           ApproveMined, ApproveTimeout, ReceiptOk, ReceiptReverted,
           ReceiptTimeout, Credit, CreditNothing, UnlockRead, UnlockWrite,
           UnlockFails
    <3>3. e # Ex(w)
      BY <3>2 DEF NoRunOf, Live
    <3>4. Swaps(e)' = Swaps(e)
      BY <3>1, <3>3, KeeperConfined
    <3>5. NoRunOf(e)'
      BY <3>1, <3>3, KeeperFrame DEF SameRun, Ex
    <3> QED
      BY <3>4, <3>5
  <2>2. CASE Claim(w) \/ WriteResult(w) \/ ResultLost(w) \/ SaveFailed(w)
               \/ Retry(w)
    BY <2>2 DEF Claim, WriteResult, ResultLost, SaveFailed, Retry, chainVars,
         Ex, Swaps
  <2>3. CASE Ack(w)
    BY <2>3 DEF Ack, Forget, chainVars, Ex, Swaps
  <2> QED
    BY <1>4, <2>1, <2>2, <2>3 DEF TaskStep
<1>5. ASSUME NEW w \in Workers, Faulty(w)
      PROVE  NoRunOf(e)' /\ Swaps(e)' = Swaps(e)
  BY <1>5 DEF Faulty, Crash, Redeliver, Forget, runVars, chainVars, Ex, Swaps
<1> QED
  BY <1>1, <1>2, <1>3, <1>4, <1>5 DEF Next

\* Only a run of e, or the creation of its row, writes the status of e.
LEMMA StatusWriters ==
    ASSUME TypeOK, [Next]_vars, NEW e \in Executions, NoRunOf(e),
           client[e] # "new"
    PROVE  status'[e] = status[e] /\ client'[e] # "new"
<1> USE DEF TypeOK, RowTypeOK, Goto
<1>1. CASE Enqueue
  BY <1>1 DEF Enqueue, CreateRow, Publish, PublishFails
<1>2. ASSUME NEW w \in Workers, Deliver(w) \/ Faulty(w)
      PROVE  status'[e] = status[e] /\ client'[e] # "new"
  BY <1>2 DEF Deliver, Receive, Faulty, Crash, Redeliver, rowVars
<1>3. ASSUME NEW w \in Workers, TaskStep(w)
      PROVE  status'[e] = status[e] /\ client'[e] # "new"
  BY <1>3 DEF TaskStep, Claim, WriteResult, SaveFailed, Execute, ResultLost,
       Retry, Ack, rowVars, NoRunOf, Live
<1>4. CASE Chain \/ UNCHANGED vars
  BY <1>4 DEF Chain, vars, rowVars
<1> QED
  BY <1>1, <1>2, <1>3, <1>4 DEF Next

\* While the row of e is absent nobody runs e.
LEMMA AbsentStep ==
    ASSUME TypeOK, [Next]_vars, AbsentUntouched
    PROVE  AbsentUntouched'
<1> SUFFICES ASSUME NEW e \in Executions, client'[e] = "new"
             PROVE  status'[e] = "absent" /\ NoRunOf(e)'
  BY DEF AbsentUntouched, NoRunOf
<1>1. client[e] = "new"
  BY DEF Next, Enqueue, CreateRow, Publish, PublishFails, Deliver, Receive,
       TaskStep, Claim, Execute, WriteResult, ResultLost, SaveFailed, Retry,
       Ack, Faulty, Crash, Redeliver, Chain, vars, rowVars, TypeOK, RowTypeOK
<1>2. status[e] = "absent" /\ NoRunOf(e)
  BY <1>1 DEF AbsentUntouched, NoRunOf
<1>3. NoRunOf(e)'
  BY <1>2, RunsStartRunnable DEF Runnable
<1>4. status'[e] = "absent"
  <2> USE DEF TypeOK, RowTypeOK, Goto
  <2>1. CASE Enqueue
    BY <1>1, <1>2, <2>1 DEF Enqueue, CreateRow, Publish, PublishFails
  <2>2. ASSUME NEW w \in Workers, Deliver(w) \/ Faulty(w)
        PROVE  status'[e] = "absent"
    BY <1>2, <2>2 DEF Deliver, Receive, Faulty, Crash, Redeliver, rowVars
  <2>3. ASSUME NEW w \in Workers, TaskStep(w) PROVE status'[e] = "absent"
    BY <1>2, <2>3 DEF TaskStep, Claim, WriteResult, SaveFailed, Execute,
         ResultLost, Retry, Ack, rowVars, NoRunOf, Live
  <2>4. CASE Chain \/ UNCHANGED vars
    BY <1>2, <2>4 DEF Chain, vars, rowVars
  <2> QED
    BY <2>1, <2>2, <2>3, <2>4 DEF Next
<1> QED
  BY <1>3, <1>4

\* A BROADCASTING row that lost its run is never run again and no swap is ever
\* broadcast for it again, by no retry, no redelivery and no other worker.
THEOREM StrandedStays == Spec => NoResumeAfterCrash
<1>1. Init => AbsentUntouched
  BY DEF Init, RunInit, AbsentUntouched, Live
<1>2. TypeOK /\ [Next]_vars /\ AbsentUntouched => AbsentUntouched'
  BY AbsentStep
<1>3. TypeOK /\ AbsentUntouched /\ [Next]_vars =>
        [\A e \in Executions :
           Stranded(e) => Stranded(e)' /\ Swaps(e)' = Swaps(e)]_vars
  <2> SUFFICES ASSUME TypeOK, AbsentUntouched, [Next]_vars,
                      NEW e \in Executions, Stranded(e)
               PROVE  Stranded(e)' /\ Swaps(e)' = Swaps(e)
    OBVIOUS
  <2>1. NoRunOf(e) /\ status[e] = "broadcasting"
    BY DEF Stranded, NoRunOf
  <2>2. client[e] # "new"
    BY <2>1 DEF AbsentUntouched
  <2>3. NoRunOf(e)' /\ Swaps(e)' = Swaps(e)
    BY <2>1, RunsStartRunnable DEF Runnable
  <2>4. status'[e] = "broadcasting"
    BY <2>1, <2>2, StatusWriters
  <2> QED
    BY <2>3, <2>4 DEF Stranded, NoRunOf
<1>4. QED
  BY <1>1, <1>2, <1>3, TypeCorrect, PTL DEF Spec, NoResumeAfterCrash
=============================================================================
