-------------------------- MODULE SwapSerialProofs --------------------------
(***************************************************************************)
(* What SwapTask guarantees when the runs of an execution do not overlap:  *)
(* with one worker, whatever crashes and is delivered again, or with any   *)
(* number of them while the broker delivers every message once.            *)
(***************************************************************************)
EXTENDS SwapTaskProofs, FiniteSetTheorems

\* celery --concurrency 1.
OneWorker == \A v, w \in Workers : v = w

\* No worker dies, and no message is delivered while it is processed.
DeliversOnce == MaxCrashes = 0 /\ MaxDuplicates = 0

\* Every user has one execution at the most.
OneEach == \A d, e \in Executions : Owner[d] = Owner[e] => d = e

----------------------------------------------------------------------------
(* What a step of keeper.execute does                                      *)

\* Where a step takes the run.
Edges ==
    ({"execute"} \X {"write", "lock", "raised"})
    \cup ({"lock"} \X {"write", "hold"})
    \cup ({"hold"} \X {"web3", "raised"})
    \cup ({"web3"} \X {"allowance", "raised"})
    \cup ({"allowance"} \X {"nonce", "approve", "unlock"})
    \cup ({"approve"} \X {"approving", "unlock"})
    \cup ({"approving"} \X {"nonce", "unlock"})
    \cup ({"nonce"} \X {"send", "unlock"})
    \cup ({"send"} \X {"wait", "unlock"})
    \cup ({"wait"} \X {"credit", "unlock"})
    \cup ({"credit"} \X {"write"})
    \cup ({"unlock"} \X {"free", "write"})
    \cup ({"free"} \X {"write"})

LEMMA KeeperEdges ==
    ASSUME TypeOK, NEW w \in Workers, KeeperStep(w)
    PROVE  <<pc[w], pc'[w]>> \in Edges
<1> USE DEF TypeOK, RunTypeOK, Goto, Edges
<1>1. CASE RejectPlan(w) \/ AcceptPlan(w) \/ RaiseEarly(w) \/ LockUnavailable(w)
  BY <1>1 DEF RejectPlan, AcceptPlan, RaiseEarly, LockUnavailable
<1>2. CASE LockRead(w) \/ LockWrite(w) \/ LockRaises(w) \/ GetWeb3(w)
  BY <1>2 DEF LockRead, LockWrite, LockRaises, GetWeb3
<1>3. CASE GetWeb3Raises(w) \/ AllowanceEnough(w) \/ AllowanceShort(w)
             \/ ReadNonce(w)
  BY <1>3 DEF GetWeb3Raises, AllowanceEnough, AllowanceShort, ReadNonce
<1>4. CASE SendApprove(w) \/ SendSwap(w)
  BY <1>4 DEF SendApprove, SendSwap, Send
<1>5. CASE RpcFails(w) \/ AnswerLost(w) \/ ApproveTimeout(w)
  BY <1>5 DEF RpcFails, AnswerLost, ApproveTimeout, Excepts
<1>6. CASE ApproveMined(w) \/ ReceiptOk(w) \/ ReceiptReverted(w)
             \/ ReceiptTimeout(w)
  BY <1>6 DEF ApproveMined, ReceiptOk, ReceiptReverted, ReceiptTimeout
<1>7. CASE Credit(w) \/ CreditNothing(w) \/ UnlockRead(w) \/ UnlockWrite(w)
             \/ UnlockFails(w)
  BY <1>7 DEF Credit, CreditNothing, UnlockRead, UnlockWrite, UnlockFails
<1> QED
  BY <1>1, <1>2, <1>3, <1>4, <1>5, <1>6, <1>7 DEF KeeperStep

\* A step sends nothing, or one transaction of its execution; a swap leaves at
\* "send" only, and the run is then past it.
LEMMA KeeperSends ==
    ASSUME TypeOK, NEW w \in Workers, KeeperStep(w)
    PROVE  \/ UNCHANGED chainVars
           \/ \E t \in Txs :
                /\ Broadcast(t) /\ t.ex = Ex(w)
                /\ t.kind = "swap" => pc[w] = "send" /\ pc'[w] \in {"wait", "unlock"}
<1> USE DEF TypeOK, RunTypeOK, Goto
<1>a. \A kind \in {"approve", "swap"}, fee \in Fees :
         /\ Signed(w, kind, fee) \in Txs /\ Signed(w, kind, fee).ex = Ex(w)
         /\ Signed(w, kind, fee).kind = kind
  BY DEF Signed, Txs, Ex, Messages
<1>1. CASE RejectPlan(w) \/ AcceptPlan(w) \/ RaiseEarly(w) \/ LockUnavailable(w)
  BY <1>1 DEF RejectPlan, AcceptPlan, RaiseEarly, LockUnavailable
<1>2. CASE LockRead(w) \/ LockWrite(w) \/ LockRaises(w) \/ GetWeb3(w)
  BY <1>2 DEF LockRead, LockWrite, LockRaises, GetWeb3
<1>3. CASE GetWeb3Raises(w) \/ AllowanceEnough(w) \/ AllowanceShort(w)
             \/ ReadNonce(w)
  BY <1>3 DEF GetWeb3Raises, AllowanceEnough, AllowanceShort, ReadNonce
<1>4. CASE SendApprove(w) \/ SendSwap(w)
  BY <1>4, <1>a DEF SendApprove, SendSwap, Send
<1>5. CASE AnswerLost(w)
  BY <1>5, <1>a DEF AnswerLost, Excepts
<1>6. CASE RpcFails(w) \/ ApproveTimeout(w)
  BY <1>6 DEF RpcFails, ApproveTimeout
<1>7. CASE ApproveMined(w) \/ ReceiptOk(w) \/ ReceiptReverted(w)
             \/ ReceiptTimeout(w)
  BY <1>7 DEF ApproveMined, ReceiptOk, ReceiptReverted, ReceiptTimeout
<1>8. CASE Credit(w) \/ CreditNothing(w) \/ UnlockRead(w) \/ UnlockWrite(w)
             \/ UnlockFails(w)
  BY <1>8 DEF Credit, CreditNothing, UnlockRead, UnlockWrite, UnlockFails
<1> QED
  BY <1>1, <1>2, <1>3, <1>4, <1>5, <1>6, <1>7, <1>8 DEF KeeperStep

\* A step of keeper.execute credits at "credit" or not at all, and says success
\* only there.
LEMMA KeeperCredits ==
    ASSUME TypeOK, NEW w \in Workers, KeeperStep(w)
    PROVE  /\ \/ credits' = credits
              \/ /\ pc[w] = "credit" /\ pc'[w] = "write"
                 /\ credits' = [credits EXCEPT ![Ex(w)] = @ + 1]
           /\ pc[w] = "credit" => result'[w] = "success"
           /\ pc[w] = "credit" /\ "credit_fails" \notin Faults =>
                 credits' = [credits EXCEPT ![Ex(w)] = @ + 1]
           /\ pc'[w] = "write" /\ result'[w] = "success" =>
                 pc[w] = "credit" \/ (pc[w] \in {"unlock", "free"} /\ result[w] = "success")
<1> USE DEF TypeOK, RunTypeOK, Goto, Returns, ledgerVars
<1>1. CASE RejectPlan(w) \/ AcceptPlan(w) \/ RaiseEarly(w) \/ LockUnavailable(w)
  BY <1>1 DEF RejectPlan, AcceptPlan, RaiseEarly, LockUnavailable
<1>2. CASE LockRead(w) \/ LockWrite(w) \/ LockRaises(w) \/ GetWeb3(w)
  BY <1>2 DEF LockRead, LockWrite, SetHold, LockRaises, GetWeb3
<1>3. CASE GetWeb3Raises(w) \/ AllowanceEnough(w) \/ AllowanceShort(w)
             \/ ReadNonce(w)
  BY <1>3 DEF GetWeb3Raises, AllowanceEnough, AllowanceShort, ReadNonce
<1>4. CASE SendApprove(w) \/ SendSwap(w)
  BY <1>4 DEF SendApprove, SendSwap, Send
<1>5. CASE RpcFails(w) \/ AnswerLost(w) \/ ApproveTimeout(w)
  BY <1>5 DEF RpcFails, AnswerLost, ApproveTimeout, Excepts
<1>6. CASE ApproveMined(w) \/ ReceiptOk(w) \/ ReceiptReverted(w)
             \/ ReceiptTimeout(w)
  BY <1>6 DEF ApproveMined, ReceiptOk, ReceiptReverted, ReceiptTimeout
<1>7. CASE Credit(w) \/ CreditNothing(w)
  BY <1>7 DEF Credit, CreditNothing, IncreaseAmount
<1>8. CASE UnlockRead(w) \/ UnlockWrite(w) \/ UnlockFails(w)
  BY <1>8 DEF UnlockRead, UnlockWrite, FreeHold, UnlockFails
<1> QED
  BY <1>1, <1>2, <1>3, <1>4, <1>5, <1>6, <1>7, <1>8 DEF KeeperStep

\* What a step of keeper.execute does to the balances of its user: nothing, a
\* hook reads them, or it writes what it computed from the read.
LEMMA KeeperLedger ==
    ASSUME TypeOK, NEW w \in Workers, KeeperStep(w)
    PROVE  /\ \A v \in Workers \ {w} : cur'[v] = cur[v]
           /\ \/ /\ UNCHANGED <<avail, inOrders>>
                 /\ pc'[w] \notin {"hold", "free"}
                 /\ pc'[w] \in Holding => pc[w] \in Holding
              \/ /\ UNCHANGED <<avail, inOrders>>
                 /\ cur'[w] = inOrders[User(w)]
                 /\ pc'[w] = "hold" \/ (pc[w] \in Holding /\ pc'[w] = "free")
              \/ /\ pc[w] = "hold" /\ pc'[w] = "web3"
                 /\ avail' = [avail EXCEPT ![User(w)] = @ - Amount[Ex(w)]]
                 /\ inOrders' = [inOrders EXCEPT ![User(w)] = cur[w] + Amount[Ex(w)]]
              \/ /\ pc[w] = "free" /\ pc'[w] = "write"
                 /\ avail' = [avail EXCEPT ![User(w)] = @ + Amount[Ex(w)]]
                 /\ inOrders' = [inOrders EXCEPT ![User(w)] = Lowered(Ex(w), cur[w])]
<1> USE DEF TypeOK, RunTypeOK, Goto, ledgerVars, Holding
<1>1. CASE RejectPlan(w) \/ AcceptPlan(w) \/ RaiseEarly(w) \/ LockUnavailable(w)
  BY <1>1 DEF RejectPlan, AcceptPlan, RaiseEarly, LockUnavailable
<1>2. CASE LockRead(w)
  BY <1>2 DEF LockRead
<1>3. CASE LockWrite(w)
  BY <1>3 DEF LockWrite, SetHold, Raised, User
<1>4. CASE LockRaises(w) \/ GetWeb3(w)
  BY <1>4 DEF LockRaises, GetWeb3
<1>5. CASE GetWeb3Raises(w) \/ AllowanceEnough(w) \/ AllowanceShort(w)
             \/ ReadNonce(w)
  BY <1>5 DEF GetWeb3Raises, AllowanceEnough, AllowanceShort, ReadNonce
<1>6. CASE SendApprove(w) \/ SendSwap(w)
  <2>1. UNCHANGED <<avail, inOrders, cur>>
    BY <1>6 DEF SendApprove, SendSwap, Send
  <2>2. pc[w] \in Holding /\ pc'[w] \notin {"hold", "free"}
    BY <1>6 DEF SendApprove, SendSwap, Send
  <2> QED
    BY <2>1, <2>2
<1>7. CASE RpcFails(w) \/ AnswerLost(w) \/ ApproveTimeout(w)
  <2>1. UNCHANGED <<avail, inOrders, cur>>
    BY <1>7 DEF RpcFails, AnswerLost, ApproveTimeout, Excepts
  <2>2. pc[w] \in Holding /\ pc'[w] \notin {"hold", "free"}
    BY <1>7 DEF RpcFails, AnswerLost, ApproveTimeout, Excepts
  <2> QED
    BY <2>1, <2>2
<1>8. CASE ApproveMined(w) \/ ReceiptOk(w) \/ ReceiptReverted(w)
             \/ ReceiptTimeout(w)
  BY <1>8 DEF ApproveMined, ReceiptOk, ReceiptReverted, ReceiptTimeout
<1>9. CASE Credit(w) \/ CreditNothing(w)
  BY <1>9 DEF Credit, CreditNothing, IncreaseAmount
<1>10. CASE UnlockRead(w) \/ UnlockFails(w)
  BY <1>10 DEF UnlockRead, UnlockFails
<1>11. CASE UnlockWrite(w)
  BY <1>11 DEF UnlockWrite, FreeHold, User
<1> QED
  BY <1>1, <1>2, <1>3, <1>4, <1>5, <1>6, <1>7, <1>8, <1>9, <1>10, <1>11
     DEF KeeperStep

\* Nobody touches a balance but keeper.execute.
LEMMA OthersKeepLedger ==
    ASSUME [Next]_vars, \A w \in Workers : ~Execute(w)
    PROVE  UNCHANGED ledgerVars
<1>1. CASE Enqueue
  BY <1>1 DEF Enqueue, CreateRow, Publish, PublishFails
<1>2. ASSUME NEW w \in Workers, Deliver(w) \/ Faulty(w) PROVE UNCHANGED ledgerVars
  BY <1>2 DEF Deliver, Receive, Faulty, Crash, Redeliver
<1>3. ASSUME NEW w \in Workers, TaskStep(w) PROVE UNCHANGED ledgerVars
  BY <1>3 DEF TaskStep, Claim, WriteResult, ResultLost, SaveFailed, Retry, Ack
<1>4. CASE Chain \/ UNCHANGED vars
  BY <1>4 DEF Chain, vars
<1> QED
  BY <1>1, <1>2, <1>3, <1>4 DEF Next

----------------------------------------------------------------------------
(* One delivery, one run                                                   *)

\* The task has not yet published its retry or returned.
Active(w) == pc[w] \notin {"idle", "ack"}

NoMessageOf(e) == \A m \in Messages : m.ex = e => ready[m] = 0

\* An execution is in one place: with the web process, in one message, or in
\* one run.
OnePlace ==
    /\ \A m \in Messages : ready[m] <= 1
    /\ \A l, m \in Messages :
          ready[l] > 0 /\ ready[m] > 0 /\ l.ex = m.ex => l = m
    /\ \A w \in Workers : Active(w) => NoMessageOf(Ex(w))
    /\ \A v, w \in Workers : v # w /\ Active(v) /\ Active(w) => Ex(v) # Ex(w)
    /\ \A e \in Executions : client[e] # "done" =>
          NoMessageOf(e) /\ \A w \in Workers : Active(w) => Ex(w) # e

\* A step that publishes nothing and starts no run keeps executions in place.
LEMMA OnePlaceStays ==
    ASSUME OnePlace, ready' = ready,
           \A e \in Executions : client[e] = "done" => client'[e] = "done",
           \A v \in Workers : Active(v)' => Active(v) /\ job'[v] = job[v]
    PROVE  OnePlace'
<1>1. \A v \in Workers : Active(v)' => Active(v) /\ Ex(v)' = Ex(v)
  BY DEF Ex
<1>2. \A e : NoMessageOf(e)' <=> NoMessageOf(e)
  BY DEF NoMessageOf
<1>3. \A e \in Executions : client'[e] # "done" => client[e] # "done"
  OBVIOUS
<1> QED
  BY <1>1, <1>2, <1>3 DEF OnePlace

LEMMA OnePlaceStep ==
    ASSUME DeliversOnce, TypeOK, OnePlace, [Next]_vars
    PROVE  OnePlace'
<1> USE DEF TypeOK, RunTypeOK, BrokerTypeOK, RowTypeOK, Goto
<1>a. ~(crashes < MaxCrashes) /\ ~(duplicates < MaxDuplicates)
  BY DEF DeliversOnce
<1>1. ASSUME NEW e \in Executions, CreateRow(e) \/ PublishFails(e)
      PROVE  OnePlace'
  BY <1>1, <1>a, OnePlaceStays DEF CreateRow, PublishFails, brokerVars,
     runVars, Active
<1>2. ASSUME NEW e \in Executions, Publish(e)
      PROVE  OnePlace'
  <2> DEFINE m0 == [ex |-> e, n |-> 0]
  <2>1. m0 \in Messages /\ m0.ex = e
    BY KeeperAssumption DEF Messages
  <2>2. NoMessageOf(e) /\ \A w \in Workers : Active(w) => Ex(w) # e
    BY <1>2 DEF Publish, OnePlace
  <2>3. ready[m0] = 0
    BY <2>1, <2>2 DEF NoMessageOf
  <2>4. ready' = [ready EXCEPT ![m0] = 1]
    BY <1>2, <2>1, <2>3 DEF Publish
  <2>5. \A d \in Executions \ {e} :
           /\ NoMessageOf(d)' <=> NoMessageOf(d)
           /\ client'[d] = client[d]
    BY <1>2, <2>1, <2>4 DEF Publish, NoMessageOf
  <2>6. client'[e] = "done" /\ pc' = pc /\ job' = job
    BY <1>2 DEF Publish, runVars
  <2>7. \A w \in Workers : (Active(w)' <=> Active(w)) /\ Ex(w)' = Ex(w)
                            /\ Ex(w) \in Executions
    BY <2>6 DEF Active, Ex, Messages
  <2>8. \A m \in Messages : ready'[m] > 0 =>
            m = m0 \/ (ready[m] > 0 /\ m.ex # e)
    BY <2>2, <2>3, <2>4 DEF NoMessageOf
  <2>9. /\ \A m \in Messages : ready'[m] <= 1
        /\ \A l, m \in Messages :
              ready'[l] > 0 /\ ready'[m] > 0 /\ l.ex = m.ex => l = m
    BY <2>1, <2>4, <2>8 DEF OnePlace
  <2> HIDE DEF m0
  <2> QED
    BY <2>2, <2>5, <2>6, <2>7, <2>9 DEF OnePlace
<1>3. ASSUME NEW w \in Workers, NEW m \in Messages, Receive(w, m)
      PROVE  OnePlace'
  <2>a. ready[m] \in Nat /\ ready[m] > 0 /\ ready[m] <= 1
    BY <1>3 DEF Receive, OnePlace
  <2>1. ready[m] = 1 /\ ready' = [ready EXCEPT ![m] = 0]
    <3>1. ready[m] = 1 /\ ready[m] - 1 = 0
      BY <2>a
    <3> QED
      BY <1>3, <3>1 DEF Receive
  <2>2. job'[w] = m /\ Ex(w)' = m.ex /\ m.ex \in Executions /\ client' = client
    BY <1>3 DEF Receive, Ex, Messages, rowVars
  <2>3. \A v \in Workers \ {w} : (Active(v)' <=> Active(v)) /\ Ex(v)' = Ex(v)
    BY <1>3 DEF Receive, Active, Ex
  <2>4. \A l \in Messages : ready'[l] > 0 => ready[l] > 0 /\ l # m
    BY <2>1
  <2>5. \A e : NoMessageOf(e) => NoMessageOf(e)'
    BY <2>1 DEF NoMessageOf
  <2>6. NoMessageOf(m.ex)'
    BY <2>1, <2>4 DEF OnePlace, NoMessageOf
  <2>7. \A v \in Workers : Active(v) => Ex(v) # m.ex
    BY <2>1 DEF OnePlace, NoMessageOf
  <2>8. client[m.ex] = "done"
    BY <2>1, <2>2 DEF OnePlace, NoMessageOf
  <2>9. /\ \A l \in Messages : ready'[l] <= 1
        /\ \A l, k \in Messages :
              ready'[l] > 0 /\ ready'[k] > 0 /\ l.ex = k.ex => l = k
    BY <2>1, <2>4 DEF OnePlace
  <2>10. \A v \in Workers : Active(v)' => NoMessageOf(Ex(v))'
    BY <2>2, <2>3, <2>5, <2>6 DEF OnePlace
  <2>11. \A u, v \in Workers : u # v /\ Active(u)' /\ Active(v)' => Ex(u)' # Ex(v)'
    BY <2>2, <2>3, <2>7 DEF OnePlace
  <2>12. \A e \in Executions : client'[e] # "done" =>
            NoMessageOf(e)' /\ \A v \in Workers : Active(v)' => Ex(v)' # e
    BY <2>2, <2>3, <2>5, <2>8 DEF OnePlace
  <2> QED
    BY <2>9, <2>10, <2>11, <2>12 DEF OnePlace, NoMessageOf
<1>4. ASSUME NEW w \in Workers,
             Claim(w) \/ WriteResult(w) \/ ResultLost(w) \/ SaveFailed(w)
      PROVE  OnePlace'
  BY <1>4, OnePlaceStays DEF Claim, WriteResult, ResultLost, SaveFailed,
     brokerVars, rowVars, Active
<1>5. ASSUME NEW w \in Workers, Execute(w)
      PROVE  OnePlace'
  <2>1. \A v \in Workers \ {w} : SameRun(v)
    BY <1>5, KeeperFrame DEF Execute
  <2>2. Active(w) /\ job' = job
    BY <1>5, KeeperEdges, KeeperFrame DEF Execute, Active, Edges
  <2> QED
    BY <1>5, <2>1, <2>2, OnePlaceStays DEF Execute, rowVars, brokerVars,
       SameRun, Active
<1>6. ASSUME NEW w \in Workers, Retry(w)
      PROVE  OnePlace'
  <2> DEFINE next == [ex |-> Ex(w), n |-> job[w].n + 1]
  <2>1. /\ Active(w) /\ ~Active(w)' /\ job' = job /\ client' = client
        /\ \A v \in Workers \ {w} : Active(v)' <=> Active(v)
    BY <1>6 DEF Retry, Active, rowVars
  <2>2. CASE job[w].n < MaxRetries
    <3>1. next \in Messages /\ next.ex = Ex(w) /\ Ex(w) \in Executions
      BY <2>2, KeeperAssumption DEF Messages, Ex
    <3>2. NoMessageOf(Ex(w))
      BY <2>1 DEF OnePlace
    <3>3. ready[next] = 0
      BY <3>1, <3>2 DEF NoMessageOf
    <3>4. ready' = [ready EXCEPT ![next] = 1]
      BY <1>6, <2>2, <3>1, <3>3 DEF Retry
    <3>5. \A d : d # Ex(w) => (NoMessageOf(d)' <=> NoMessageOf(d))
      BY <3>1, <3>4 DEF NoMessageOf
    <3>6. \A m \in Messages :
             ready'[m] > 0 => m = next \/ (ready[m] > 0 /\ m.ex # Ex(w))
      BY <3>2, <3>3, <3>4 DEF NoMessageOf
    <3>7. \A v \in Workers : Active(v)' => Active(v) /\ v # w /\ Ex(v)' = Ex(v)
      BY <2>1 DEF Ex
    <3>8. \A v \in Workers : Active(v)' => Ex(v) # Ex(w)
      BY <2>1, <3>7 DEF OnePlace
    <3>9. client[Ex(w)] = "done"
      BY <2>1, <3>1 DEF OnePlace
    <3>10. /\ \A m \in Messages : ready'[m] <= 1
           /\ \A l, m \in Messages :
                 ready'[l] > 0 /\ ready'[m] > 0 /\ l.ex = m.ex => l = m
      BY <3>1, <3>4, <3>6 DEF OnePlace
    <3>11. \A v \in Workers : Active(v)' => NoMessageOf(Ex(v))'
      BY <3>5, <3>7, <3>8 DEF OnePlace
    <3>12. \A u, v \in Workers : u # v /\ Active(u)' /\ Active(v)' => Ex(u)' # Ex(v)'
      BY <3>7 DEF OnePlace
    <3>13. \A e \in Executions : client'[e] # "done" =>
              NoMessageOf(e)' /\ \A v \in Workers : Active(v)' => Ex(v)' # e
      BY <2>1, <3>5, <3>7, <3>9 DEF OnePlace
    <3> QED
      BY <3>10, <3>11, <3>12, <3>13 DEF OnePlace, NoMessageOf
  <2>3. CASE ~(job[w].n < MaxRetries)
    <3>1. ready' = ready
      BY <1>6, <2>3 DEF Retry
    <3> QED
      BY <2>1, <3>1, OnePlaceStays
  <2> QED
    BY <2>2, <2>3
<1>7. ASSUME NEW w \in Workers, Ack(w)
      PROVE  OnePlace'
  BY <1>7, OnePlaceStays DEF Ack, Forget, brokerVars, rowVars, Active
<1>8. ASSUME NEW w \in Workers, Faulty(w) PROVE OnePlace'
  BY <1>8, <1>a DEF Faulty, Crash, Redeliver
<1>9. CASE Chain \/ UNCHANGED vars
  BY <1>9, OnePlaceStays DEF Chain, vars, rowVars, brokerVars, runVars, Active
<1> QED
  BY <1>1, <1>2, <1>3, <1>4, <1>5, <1>6, <1>7, <1>8, <1>9
     DEF Next, Enqueue, Deliver, TaskStep

LEMMA OnePlaceInit == Init => OnePlace
  BY DEF Init, RunInit, OnePlace, NoMessageOf, Active

LEMMA OnePlaceAlways ==
    ASSUME DeliversOnce
    PROVE  Spec => []OnePlace
<1>1. TypeOK /\ [Next]_vars /\ OnePlace => OnePlace'
  BY OnePlaceStep
<1> QED
  BY <1>1, OnePlaceInit, TypeCorrect, PTL DEF Spec

\* While the broker delivers every message once, two workers never run the same
\* execution: its message, its run and its next attempt hand it on.
THEOREM OneRunAtATime ==
    ASSUME DeliversOnce
    PROVE  Spec => []OneRunPerExecution
<1>1. OnePlace => OneRunPerExecution
  BY DEF OnePlace, OneRunPerExecution, Active, Live
<1> QED
  BY <1>1, OnePlaceAlways, PTL

\* Swaps leave in the last steps of a run, after which nothing is retried.
Gone == {"wait", "credit", "unlock", "free", "write"}

SentOnce(e) ==
    /\ \A s, t \in Swaps(e) : s = t
    /\ Swaps(e) # {} =>
          /\ client[e] = "done" /\ NoMessageOf(e)
          /\ \A w \in Workers : Active(w) /\ Ex(w) = e => pc[w] \in Gone

\* Nobody sends a swap but keeper.execute.
LEMMA OthersSendNothing ==
    ASSUME TypeOK, [Next]_vars, \A w \in Workers : ~Execute(w)
    PROVE  sent' = sent
<1>1. CASE Enqueue
  BY <1>1 DEF Enqueue, CreateRow, Publish, PublishFails, chainVars
<1>2. ASSUME NEW w \in Workers, Deliver(w) \/ Faulty(w) PROVE sent' = sent
  BY <1>2 DEF Deliver, Receive, Faulty, Crash, Redeliver, chainVars
<1>3. ASSUME NEW w \in Workers, TaskStep(w) PROVE sent' = sent
  BY <1>3 DEF TaskStep, Claim, WriteResult, ResultLost, SaveFailed, Retry,
     Ack, chainVars
<1>4. CASE Chain \/ UNCHANGED vars
  BY <1>4 DEF Chain, ChainStep, Mine, Evict, vars, chainVars
<1> QED
  BY <1>1, <1>2, <1>3, <1>4 DEF Next

\* A message or a run of e appears only from a message, a run or a web process
\* that has e.
LEMMA GoneStays ==
    ASSUME DeliversOnce, TypeOK, [Next]_vars, \A w \in Workers : ~Execute(w),
           NEW e \in Executions, client[e] = "done", NoMessageOf(e),
           \A w \in Workers : Active(w) /\ Ex(w) = e => pc[w] \in Gone
    PROVE  /\ client'[e] = "done" /\ NoMessageOf(e)'
           /\ \A w \in Workers : Active(w)' /\ Ex(w)' = e => pc'[w] \in Gone
<1> USE DEF TypeOK, RunTypeOK, BrokerTypeOK, RowTypeOK, Goto, Gone
<1>a. ~(crashes < MaxCrashes) /\ ~(duplicates < MaxDuplicates)
  BY DEF DeliversOnce
<1>1. CASE Enqueue
  BY <1>1, <1>a DEF Enqueue, CreateRow, Publish, PublishFails, brokerVars,
     runVars, Active, Ex, NoMessageOf
<1>2. ASSUME NEW w \in Workers, NEW m \in Messages, Receive(w, m)
      PROVE  /\ client'[e] = "done" /\ NoMessageOf(e)'
             /\ \A v \in Workers : Active(v)' /\ Ex(v)' = e => pc'[v] \in Gone
  <2>1. m.ex # e
    BY <1>2 DEF Receive, NoMessageOf
  <2>2. client' = client /\ ready' = [ready EXCEPT ![m] = ready[m] - 1]
    BY <1>2 DEF Receive, rowVars
  <2>3. NoMessageOf(e)'
    BY <2>1, <2>2 DEF NoMessageOf
  <2>4. Ex(w)' # e /\ \A v \in Workers \ {w} : pc'[v] = pc[v] /\ Ex(v)' = Ex(v)
    BY <1>2, <2>1 DEF Receive, Ex
  <2> QED
    BY <2>2, <2>3, <2>4 DEF Active
<1>3. ASSUME NEW w \in Workers, TaskStep(w)
      PROVE  /\ client'[e] = "done" /\ NoMessageOf(e)'
             /\ \A v \in Workers : Active(v)' /\ Ex(v)' = e => pc'[v] \in Gone
  <2>1. CASE Claim(w) \/ WriteResult(w) \/ ResultLost(w) \/ SaveFailed(w)
    BY <2>1 DEF Claim, WriteResult, ResultLost, SaveFailed, brokerVars,
       rowVars, Active, Ex, NoMessageOf
  <2>2. CASE Retry(w)
    <3>1. Ex(w) # e /\ job[w] \in Messages /\ client' = client
      BY <2>2 DEF Retry, Active, rowVars
    <3>2. NoMessageOf(e)'
      BY <2>2, <3>1 DEF Retry, NoMessageOf
    <3>3. \A v \in Workers : Active(v)' => pc'[v] = pc[v] /\ Ex(v)' = Ex(v) /\ Active(v)
      BY <2>2 DEF Retry, Active, Ex
    <3> QED
      BY <3>1, <3>2, <3>3
  <2>3. CASE Ack(w)
    BY <2>3 DEF Ack, Forget, brokerVars, rowVars, Active, Ex, NoMessageOf
  <2> QED
    BY <1>3, <2>1, <2>2, <2>3 DEF TaskStep
<1>4. ASSUME NEW w \in Workers, Faulty(w) PROVE FALSE
  BY <1>4, <1>a DEF Faulty, Crash, Redeliver
<1>5. CASE Chain \/ UNCHANGED vars
  BY <1>5 DEF Chain, vars, rowVars, brokerVars, runVars, Active, Ex, NoMessageOf
<1> QED
  BY <1>1, <1>2, <1>3, <1>4, <1>5 DEF Next, Deliver

LEMMA SentStep ==
    ASSUME DeliversOnce, TypeOK, OnePlace, [Next]_vars,
           NEW e \in Executions, SentOnce(e)
    PROVE  SentOnce(e)'
<1>1. CASE \A w \in Workers : ~Execute(w)
  <2>1. Swaps(e)' = Swaps(e)
    BY <1>1, OthersSendNothing DEF Swaps
  <2> QED
    BY <1>1, <2>1, GoneStays DEF SentOnce
<1>2. ASSUME NEW w \in Workers, Execute(w)
      PROVE  SentOnce(e)'
  <2>1. KeeperStep(w) /\ client' = client /\ ready' = ready
    BY <1>2 DEF Execute, rowVars, brokerVars
  <2>2. /\ \A v \in Workers \ {w} : pc'[v] = pc[v]
        /\ \A v \in Workers : Ex(v)' = Ex(v)
        /\ <<pc[w], pc'[w]>> \in Edges
    BY <2>1, KeeperFrame, KeeperEdges DEF SameRun, Ex
  <2>3. NoMessageOf(e)' <=> NoMessageOf(e)
    BY <2>1 DEF NoMessageOf
  <2>4. CASE Ex(w) # e
    <3>1. Swaps(e)' = Swaps(e)
      BY <2>1, <2>4, KeeperConfined
    <3> QED
      BY <2>1, <2>2, <2>3, <2>4, <3>1 DEF SentOnce, Active
  <2>5. CASE Ex(w) = e /\ Swaps(e)' = Swaps(e)
    <3>1. Swaps(e) # {} => pc[w] \in Gone
      BY <2>2, <2>5 DEF SentOnce, Active, Edges
    <3>2. Swaps(e) # {} => pc'[w] \in Gone
      BY <2>2, <3>1 DEF Edges, Gone
    <3> QED
      BY <2>1, <2>2, <2>3, <2>5, <3>2 DEF SentOnce, Active
  <2>6. CASE Ex(w) = e /\ Swaps(e)' # Swaps(e)
    <3>1. PICK t \in Txs : /\ sent' = sent \cup {t}
                           /\ t.kind = "swap" =>
                                 pc[w] = "send" /\ pc'[w] \in {"wait", "unlock"}
      BY <2>1, <2>6, KeeperSends DEF chainVars, Broadcast, Swaps
    <3>2. t.kind = "swap" /\ Swaps(e)' = Swaps(e) \cup {t}
      BY <2>6, <3>1 DEF Swaps
    <3>3. pc[w] = "send" /\ pc'[w] \in {"wait", "unlock"} /\ Active(w)
      BY <3>1, <3>2 DEF Active
    <3>4. Swaps(e) = {}
      BY <2>6, <3>3 DEF SentOnce, Gone
    <3>5. /\ client[e] = "done" /\ NoMessageOf(e)
          /\ \A v \in Workers \ {w} : Active(v) => Ex(v) # e
      BY <2>6, <3>3 DEF OnePlace
    <3> QED
      BY <2>1, <2>2, <2>3, <3>2, <3>3, <3>4, <3>5 DEF SentOnce, Active, Gone
  <2> QED
    BY <2>4, <2>5, <2>6
<1> QED
  BY <1>1, <1>2

LEMMA SentOnceAlways ==
    ASSUME DeliversOnce
    PROVE  Spec => [](\A e \in Executions : SentOnce(e))
<1> DEFINE Sent == \A e \in Executions : SentOnce(e)
<1>1. Init => Sent
  BY DEF Init, ChainInit, SentOnce, Swaps
<1>2. TypeOK /\ OnePlace /\ [Next]_vars /\ Sent => Sent'
  BY SentStep
<1> HIDE DEF Sent
<1>3. Spec => []Sent
  BY <1>1, <1>2, OnePlaceAlways, TypeCorrect, PTL DEF Spec
<1> QED
  BY <1>3 DEF Sent

\* While the broker delivers every message once, no execution has two swaps on
\* the network, however many attempts it takes: an attempt that may have sent
\* its swap is never followed by another.
THEOREM OneSwapEach ==
    ASSUME DeliversOnce
    PROVE  Spec => []OneSwapPerExecution
<1> DEFINE Sent == \A e \in Executions : SentOnce(e)
<1>1. Sent => OneSwapPerExecution
  <2> SUFFICES ASSUME Sent, NEW e \in Executions
               PROVE  Cardinality(Swaps(e)) <= 1
    BY DEF OneSwapPerExecution
  <2>1. CASE Swaps(e) = {}
    BY <2>1, FS_EmptySet
  <2>2. CASE Swaps(e) # {}
    <3>1. PICK t : Swaps(e) = {t}
      BY <2>2 DEF SentOnce
    <3>2. Cardinality({t}) = 1
      BY FS_Singleton
    <3>3. Cardinality(Swaps(e)) = 1
      BY <3>1, <3>2
    <3> QED
      BY <3>3
  <2> QED
    BY <2>1, <2>2
<1>2. Spec => []Sent
  BY SentOnceAlways
<1> HIDE DEF Sent
<1> QED
  BY <1>1, <1>2, PTL

\* What the nonce of the account makes of the keeper's transactions.
ChainSound ==
    /\ pool \subseteq sent
    /\ \A m \in mined : m.tx \in sent /\ m.tx.nonce < chainNonce
    /\ \A t \in pool : t.nonce >= chainNonce
    /\ \A l, m \in mined : l.tx = m.tx => l = m

LEMMA SoundBroadcast ==
    ASSUME ChainTypeOK, ChainSound, NEW t \in Txs, Broadcast(t)
    PROVE  ChainSound'
  BY DEF ChainSound, ChainTypeOK, Broadcast, Accepts

LEMMA SoundChain ==
    ASSUME ChainTypeOK, ChainSound, ChainStep
    PROVE  ChainSound'
<1> USE DEF ChainTypeOK, Txs
<1>1. ASSUME NEW t \in pool, NEW ok \in BOOLEAN, Mine(t, ok)
      PROVE  ChainSound'
  <2>1. /\ t.nonce = chainNonce /\ chainNonce' = chainNonce + 1
        /\ mined' = mined \cup {[tx |-> t, ok |-> ok]} /\ sent' = sent
        /\ pool' = {p \in pool : p.nonce > chainNonce}
    BY <1>1 DEF Mine
  <2>2. \A m \in mined : m.tx # t /\ m.tx.nonce \in Nat
    BY <2>1 DEF ChainSound
  <2>3. \A m \in mined' : m.tx \in sent' /\ m.tx.nonce < chainNonce'
    BY <2>1, <2>2 DEF ChainSound
  <2>4. \A p \in pool' : p.nonce >= chainNonce'
    BY <2>1
  <2>5. \A l, m \in mined' : l.tx = m.tx => l = m
    BY <2>1, <2>2 DEF ChainSound
  <2> QED
    BY <2>1, <2>3, <2>4, <2>5 DEF ChainSound
<1>2. CASE \E t \in pool : Evict(t)
  BY <1>2 DEF Evict, ChainSound
<1> QED
  BY <1>1, <1>2 DEF ChainStep

LEMMA SoundStep ==
    ASSUME TypeOK, ChainSound, [Next]_vars
    PROVE  ChainSound'
<1>1. CASE UNCHANGED chainVars
  BY <1>1 DEF ChainSound, chainVars
<1>2. CASE Enqueue \/ UNCHANGED vars
  BY <1>2, <1>1 DEF Enqueue, CreateRow, Publish, PublishFails, vars
<1>3. ASSUME NEW w \in Workers, Deliver(w) \/ Faulty(w) PROVE ChainSound'
  BY <1>1, <1>3 DEF Deliver, Receive, Faulty, Crash, Redeliver
<1>4. ASSUME NEW w \in Workers, TaskStep(w) PROVE ChainSound'
  <2>1. CASE Execute(w)
    BY <1>1, <2>1, KeeperSends, SoundBroadcast DEF Execute, TypeOK
  <2>2. CASE ~Execute(w)
    BY <1>1, <1>4, <2>2 DEF TaskStep, Claim, WriteResult, ResultLost,
       SaveFailed, Retry, Ack
  <2> QED
    BY <2>1, <2>2
<1>5. CASE Chain
  BY <1>5, SoundChain DEF Chain, TypeOK
<1> QED
  BY <1>2, <1>3, <1>4, <1>5 DEF Next

LEMMA SoundAlways == Spec => []ChainSound
<1>1. Init => ChainSound
  BY DEF Init, ChainInit, ChainSound
<1>2. TypeOK /\ [Next]_vars /\ ChainSound => ChainSound'
  BY SoundStep
<1> QED
  BY <1>1, <1>2, TypeCorrect, PTL DEF Spec

\* While the broker delivers every message once, a REVERTED row, whose hold
\* went back to the user, has no swap that settled and none that still can: its
\* only swap is the one whose failed receipt was read.
THEOREM RevertedHasNoSwap ==
    ASSUME DeliversOnce
    PROVE  Spec => []RevertedMeansUnsettled
<1> DEFINE Sent == \A e \in Executions : SentOnce(e)
<1>1. TypeOK /\ ChainSound /\ Sent /\ FinalMatchesChain => RevertedMeansUnsettled
  <2> SUFFICES ASSUME TypeOK, ChainSound, Sent, FinalMatchesChain,
                      NEW e \in Executions, status[e] = "reverted"
               PROVE  SettledSwaps(e) = {} /\ Swaps(e) \cap pool = {}
    BY DEF RevertedMeansUnsettled
  <2>1. PICK m \in mined : ~m.ok /\ m.tx.ex = e /\ m.tx.kind = "swap"
    BY DEF FinalMatchesChain
  <2>2. m.tx \in Swaps(e)
    BY <2>1 DEF ChainSound, Swaps
  <2>3. ASSUME NEW l \in SettledSwaps(e) PROVE FALSE
    <3>1. l \in mined /\ l.ok /\ l.tx \in Swaps(e)
      BY <2>3 DEF SettledSwaps, ChainSound, Swaps
    <3>2. l.tx = m.tx
      BY <2>2, <3>1 DEF SentOnce
    <3> QED
      BY <2>1, <3>1, <3>2 DEF ChainSound
  <2>4. ASSUME NEW t \in Swaps(e), t \in pool PROVE FALSE
    <3>1. t = m.tx
      BY <2>2, <2>4 DEF SentOnce
    <3>2. t.nonce < chainNonce /\ t.nonce >= chainNonce
      BY <2>4, <3>1 DEF ChainSound
    <3>3. t.nonce \in Int /\ chainNonce \in Int
      BY <2>4 DEF TypeOK, ChainTypeOK, Txs
    <3> QED
      BY <3>2, <3>3
  <2> QED
    BY <2>3, <2>4
<1>2. Spec => []Sent
  BY SentOnceAlways
<1> HIDE DEF Sent
<1> QED
  BY <1>1, <1>2, SoundAlways, FinalStatusIsTrue, TypeCorrect, PTL

----------------------------------------------------------------------------
(* Runs that do not overlap                                                *)

\* The row of a run is as the run left it.
RowOfRun(w) ==
    /\ pc[w] = "claim" => status[Ex(w)] \in Runnable
    /\ Live(w) /\ pc[w] # "claim" => status[Ex(w)] = "broadcasting"

\* A credited execution is not run again.
CreditFinal(e) ==
    /\ credits[e] <= 1
    /\ credits[e] > 0 =>
          /\ status[e] \in {"broadcasting", "success"}
          /\ \A w \in Workers : Live(w) /\ Ex(w) = e =>
                pc[w] = "write" /\ result[w] = "success"

\* Only the creation of a row and its own run write the row; runs that do not
\* overlap find it as they left it.
LEMMA RowOfRunStep ==
    ASSUME TypeOK, AbsentUntouched, OneRunPerExecution, [Next]_vars,
           \A w \in Workers : RowOfRun(w)
    PROVE  \A w \in Workers : RowOfRun(w)'
<1> USE DEF TypeOK, RunTypeOK, RowTypeOK, Goto
<1>a. ASSUME NEW v \in Workers, status' = status,
             pc'[v] = pc[v] /\ job'[v] = job[v]
      PROVE  RowOfRun(v)'
  BY <1>a DEF RowOfRun, Live, Ex
<1>b. ASSUME NEW v \in Workers, ~Live(v)'
      PROVE  RowOfRun(v)'
  BY <1>b DEF RowOfRun, Live
<1>1. ASSUME NEW e \in Executions, CreateRow(e)
      PROVE  \A w \in Workers : RowOfRun(w)'
  <2>1. \A w \in Workers : Live(w) => Ex(w) # e
    BY <1>1 DEF CreateRow, AbsentUntouched
  <2> QED
    BY <1>1, <2>1 DEF CreateRow, runVars, RowOfRun, Live, Ex
<1>2. CASE (\E e \in Executions : Publish(e) \/ PublishFails(e)) \/ Chain
             \/ UNCHANGED vars
  BY <1>2, <1>a DEF Publish, PublishFails, Chain, vars, runVars, rowVars
<1>3. ASSUME NEW w \in Workers, Deliver(w)
      PROVE  \A v \in Workers : RowOfRun(v)'
  <2>1. PICK m \in Messages : Receive(w, m)
    BY <1>3 DEF Deliver
  <2>2. /\ status' = status /\ Ex(w)' = m.ex
        /\ pc'[w] = IF status[m.ex] \in Runnable THEN "claim" ELSE "ack"
        /\ \A v \in Workers \ {w} : pc'[v] = pc[v] /\ job'[v] = job[v]
    BY <2>1 DEF Receive, rowVars, Ex
  <2>3. RowOfRun(w)'
    BY <2>2 DEF RowOfRun, Live
  <2> QED
    BY <2>2, <2>3, <1>a
<1>4. ASSUME NEW w \in Workers, Claim(w) \/ WriteResult(w) \/ SaveFailed(w)
      PROVE  \A v \in Workers : RowOfRun(v)'
  <2>1. /\ Live(w) /\ job' = job /\ Ex(w) \in Executions
        /\ \A v \in Workers \ {w} : pc'[v] = pc[v]
        /\ \A e \in Executions \ {Ex(w)} : status'[e] = status[e]
    BY <1>4 DEF Claim, WriteResult, SaveFailed, Live, Ex, Messages
  <2>2. \A v \in Workers \ {w} : Live(v) => Ex(v) # Ex(w) /\ Ex(v) \in Executions
    BY <2>1 DEF OneRunPerExecution, Ex, Messages
  <2>3. \A v \in Workers \ {w} : RowOfRun(v)'
    BY <2>1, <2>2 DEF RowOfRun, Live, Ex
  <2>4. RowOfRun(w)'
    BY <1>4, <2>1 DEF Claim, WriteResult, SaveFailed, RowOfRun, Live, Ex
  <2> QED
    BY <2>3, <2>4
<1>5. ASSUME NEW w \in Workers, Execute(w)
      PROVE  \A v \in Workers : RowOfRun(v)'
  <2>1. status' = status /\ job' = job /\ KeeperStep(w)
    BY <1>5, KeeperFrame DEF Execute, rowVars
  <2>2. Live(w) /\ pc[w] # "claim" /\ pc'[w] # "claim"
    BY <2>1, KeeperEdges DEF Edges, Live
  <2>3. RowOfRun(w)'
    BY <2>1, <2>2 DEF RowOfRun, Ex
  <2> QED
    BY <2>1, <2>3, <1>a, KeeperFrame DEF SameRun
<1>6. ASSUME NEW w \in Workers, ResultLost(w) \/ Retry(w) \/ Ack(w) \/ Faulty(w)
      PROVE  \A v \in Workers : RowOfRun(v)'
  <2>1. CASE ResultLost(w) \/ Retry(w)
    BY <2>1, <1>a, <1>b DEF ResultLost, Retry, rowVars, Live
  <2>2. CASE Ack(w) \/ Crash(w)
    BY <2>2, <1>a, <1>b DEF Ack, Crash, Forget, rowVars, Live
  <2>3. CASE Redeliver(w)
    BY <2>3, <1>a DEF Redeliver, rowVars, runVars
  <2> QED
    BY <1>6, <2>1, <2>2, <2>3 DEF Faulty
<1> QED
  BY <1>1, <1>2, <1>3, <1>4, <1>5, <1>6 DEF Next, Enqueue, TaskStep

\* No step credits an execution twice.
LEMMA CreditFinalStep ==
    ASSUME TypeOK, AbsentUntouched, OneRunPerExecution, [Next]_vars,
           \A w \in Workers : RowOfRun(w),
           NEW e \in Executions, CreditFinal(e)
    PROVE  CreditFinal(e)'
<1> USE DEF TypeOK, RunTypeOK, RowTypeOK, Goto
<1>a. credits[e] \in Nat
  BY DEF LedgerTypeOK
<1>1. ASSUME NEW w \in Workers, Execute(w)
      PROVE  CreditFinal(e)'
  <2>1. status' = status /\ KeeperStep(w)
    BY <1>1 DEF Execute, rowVars
  <2>2. /\ \A v \in Workers \ {w} : pc'[v] = pc[v] /\ result'[v] = result[v]
        /\ \A v \in Workers : Ex(v)' = Ex(v)
        /\ <<pc[w], pc'[w]>> \in Edges
    BY <2>1, KeeperFrame, KeeperEdges DEF SameRun, Ex
  <2>3. pc[w] \notin {"idle", "claim", "write", "raised", "retry", "ack"}
    BY <2>2 DEF Edges
  <2>4. CASE Ex(w) # e
    <3>1. credits'[e] = credits[e]
      BY <2>1, <2>4, KeeperCredits DEF LedgerTypeOK, Ex, Messages
    <3> QED
      BY <2>1, <2>2, <2>4, <3>1 DEF CreditFinal, Live
  <2>5. CASE Ex(w) = e
    <3>1. credits[e] = 0
      BY <2>3, <2>5, <1>a DEF CreditFinal, Live
    <3>2. CASE credits' = credits
      BY <3>1, <3>2 DEF CreditFinal
    <3>3. CASE credits' # credits
      <4>1. /\ pc'[w] = "write" /\ result'[w] = "success"
            /\ credits' = [credits EXCEPT ![e] = @ + 1]
        BY <2>1, <2>5, <3>3, KeeperCredits
      <4>2. credits'[e] = 1
        BY <3>1, <4>1 DEF LedgerTypeOK
      <4>3. status'[e] = "broadcasting"
        BY <2>1, <2>3, <2>5 DEF RowOfRun, Live
      <4>4. \A v \in Workers : Live(v)' /\ Ex(v)' = e => v = w
        BY <2>2, <2>3, <2>5 DEF OneRunPerExecution, Live
      <4> QED
        BY <4>1, <4>2, <4>3, <4>4 DEF CreditFinal
    <3> QED
      BY <3>2, <3>3
  <2> QED
    BY <2>4, <2>5
<1>2. ASSUME \A w \in Workers : ~Execute(w)
      PROVE  CreditFinal(e)'
  <2>1. credits' = credits
    BY <1>2, OthersKeepLedger DEF ledgerVars
  <2> SUFFICES ASSUME credits[e] > 0
               PROVE  /\ status'[e] \in {"broadcasting", "success"}
                      /\ \A v \in Workers : Live(v)' /\ Ex(v)' = e =>
                            pc'[v] = "write" /\ result'[v] = "success"
    BY <2>1 DEF CreditFinal
  <2>a. /\ status[e] \in {"broadcasting", "success"}
        /\ \A v \in Workers : Live(v) /\ Ex(v) = e =>
              pc[v] = "write" /\ result[v] = "success"
    BY DEF CreditFinal
  <2>2. CASE Enqueue
    <3>1. \A d \in Executions : CreateRow(d) => d # e
      BY <2>a DEF CreateRow, AbsentUntouched
    <3> QED
      BY <2>2, <2>a, <3>1 DEF Enqueue, CreateRow, Publish, PublishFails,
         runVars, Live, Ex
  <2>3. ASSUME NEW w \in Workers, Deliver(w)
        PROVE  /\ status'[e] \in {"broadcasting", "success"}
               /\ \A v \in Workers : Live(v)' /\ Ex(v)' = e =>
                     pc'[v] = "write" /\ result'[v] = "success"
    BY <2>3, <2>a DEF Deliver, Receive, rowVars, Live, Ex, Runnable
  <2>4. ASSUME NEW w \in Workers, TaskStep(w)
        PROVE  /\ status'[e] \in {"broadcasting", "success"}
               /\ \A v \in Workers : Live(v)' /\ Ex(v)' = e =>
                     pc'[v] = "write" /\ result'[v] = "success"
    <3>1. CASE Claim(w) \/ SaveFailed(w)
      <4>1. Ex(w) # e
        BY <3>1, <2>a DEF Claim, SaveFailed, Live
      <4> QED
        BY <3>1, <4>1, <2>a DEF Claim, SaveFailed, Live, Ex
    <3>2. CASE WriteResult(w)
      <4>1. Ex(w) = e => status'[e] = "success"
        BY <3>2, <2>a DEF WriteResult, Live, StatusOf
      <4> QED
        BY <3>2, <4>1, <2>a DEF WriteResult, Live, Ex
    <3>3. CASE ResultLost(w) \/ Retry(w)
      BY <3>3, <2>a DEF ResultLost, Retry, rowVars, Live, Ex
    <3>4. CASE Ack(w)
      BY <3>4, <2>a DEF Ack, Forget, rowVars, Live, Ex
    <3> QED
      BY <1>2, <2>4, <3>1, <3>2, <3>3, <3>4 DEF TaskStep
  <2>5. ASSUME NEW w \in Workers, Faulty(w)
        PROVE  /\ status'[e] \in {"broadcasting", "success"}
               /\ \A v \in Workers : Live(v)' /\ Ex(v)' = e =>
                     pc'[v] = "write" /\ result'[v] = "success"
    BY <2>5, <2>a DEF Faulty, Crash, Redeliver, Forget, rowVars, runVars, Live, Ex
  <2>6. CASE Chain \/ UNCHANGED vars
    BY <2>6, <2>a DEF Chain, vars, rowVars, runVars, Live, Ex
  <2> QED
    BY <2>2, <2>3, <2>4, <2>5, <2>6 DEF Next
<1> QED
  BY <1>1, <1>2

LEMMA KnowledgeAlways == Spec => [](\A w \in Workers : RunKnows(w))
<1> DEFINE Knowledge == \A w \in Workers : RunKnows(w)
<1>1. Init => Knowledge
  BY DEF Init, RunInit, RunKnows
<1>2. TypeOK /\ [Next]_vars /\ Knowledge => Knowledge'
  BY KnowledgeStep
<1> HIDE DEF Knowledge
<1>3. Spec => []Knowledge
  BY <1>1, <1>2, TypeCorrect, PTL DEF Spec
<1> QED
  BY <1>3 DEF Knowledge

LEMMA AbsentAlways == Spec => []AbsentUntouched
<1>1. Init => AbsentUntouched
  BY DEF Init, RunInit, AbsentUntouched, Live
<1>2. TypeOK /\ [Next]_vars /\ AbsentUntouched => AbsentUntouched'
  BY AbsentStep
<1> QED
  BY <1>1, <1>2, TypeCorrect, PTL DEF Spec

\* One worker, or a broker that delivers once: runs do not overlap.
LEMMA RunsApart ==
    ASSUME OneWorker \/ DeliversOnce
    PROVE  Spec => []OneRunPerExecution
<1>1. CASE OneWorker
  <2>1. OneRunPerExecution
    BY <1>1 DEF OneWorker, OneRunPerExecution
  <2> QED
    BY <2>1, PTL
<1>2. CASE DeliversOnce
  BY <1>2, OneRunAtATime
<1> QED
  BY <1>1, <1>2

LEMMA SerialAlways ==
    ASSUME OneWorker \/ DeliversOnce
    PROVE  Spec => []((\A w \in Workers : RowOfRun(w))
                      /\ \A e \in Executions : CreditFinal(e))
<1> DEFINE Rows == \A w \in Workers : RowOfRun(w)
           Credits == \A e \in Executions : CreditFinal(e)
<1>1. Init => Rows /\ Credits
  BY DEF Init, RunInit, LedgerInit, RowOfRun, CreditFinal, Live
<1>2. TypeOK /\ AbsentUntouched /\ OneRunPerExecution /\ [Next]_vars
        /\ Rows /\ Credits => Rows' /\ Credits'
  BY RowOfRunStep, CreditFinalStep
<1> HIDE DEF Rows, Credits
<1>3. Spec => [](Rows /\ Credits)
  BY <1>1, <1>2, RunsApart, AbsentAlways, TypeCorrect, PTL DEF Spec
<1> QED
  BY <1>3 DEF Rows, Credits

\* Only a settled swap is credited, however runs overlap.
CreditSettled(e) == credits[e] > 0 => SettledSwaps(e) # {}

LEMMA CreditSettledStep ==
    ASSUME TypeOK, [Next]_vars, \A w \in Workers : RunKnows(w),
           NEW e \in Executions, CreditSettled(e)
    PROVE  CreditSettled(e)'
<1>1. mined \subseteq mined'
  BY MinedGrows
<1>2. SettledSwaps(e) # {} => SettledSwaps(e)' # {}
  BY <1>1 DEF SettledSwaps
<1>3. CASE credits'[e] = credits[e]
  BY <1>2, <1>3 DEF CreditSettled
<1>4. ASSUME NEW w \in Workers, Execute(w), credits'[e] # credits[e]
      PROVE  CreditSettled(e)'
  <2>1. /\ pc[w] = "credit"
        /\ credits' = [credits EXCEPT ![Ex(w)] = @ + 1]
    BY <1>4, KeeperCredits DEF Execute
  <2>2. Ex(w) = e
    BY <1>4, <2>1 DEF TypeOK, LedgerTypeOK
  <2>3. tx[w].ex = e /\ tx[w].kind = "swap" /\ [tx |-> tx[w], ok |-> TRUE] \in mined
    BY <2>1, <2>2 DEF RunKnows, OwnSwap, MinedOk
  <2>4. [tx |-> tx[w], ok |-> TRUE] \in SettledSwaps(e)
    BY <2>3 DEF SettledSwaps
  <2> QED
    BY <1>2, <2>4 DEF CreditSettled
<1> QED
  BY <1>3, <1>4, OthersKeepLedger DEF ledgerVars

\* The buy amount is credited only for a swap that settled, with any number of
\* workers, crashes and redeliveries.
THEOREM CreditedOnlySettled ==
    Spec => [](\A e \in Executions : CreditSettled(e))
<1> DEFINE Knowledge == \A w \in Workers : RunKnows(w)
           Backed == \A e \in Executions : CreditSettled(e)
<1>1. Init => Backed
  BY DEF Init, LedgerInit, CreditSettled
<1>2. TypeOK /\ [Next]_vars /\ Knowledge /\ Backed => Backed'
  BY CreditSettledStep
<1>3. Spec => []Knowledge
  BY KnowledgeAlways
<1> HIDE DEF Knowledge, Backed
<1>4. Spec => []Backed
  BY <1>1, <1>2, <1>3, TypeCorrect, PTL DEF Spec
<1> QED
  BY <1>4 DEF Backed

\* A settled swap is credited once at the most when the runs of an execution do
\* not overlap: a run that credited leaves the row BROADCASTING or SUCCESS, and
\* no redelivery starts from there.
THEOREM NoDoubleCredit ==
    ASSUME OneWorker \/ DeliversOnce
    PROVE  Spec => []CreditedOnce
<1> DEFINE Serial == (\A w \in Workers : RowOfRun(w))
                     /\ \A e \in Executions : CreditFinal(e)
           Backed == \A e \in Executions : CreditSettled(e)
<1>1. Serial /\ Backed => CreditedOnce
  BY DEF CreditFinal, CreditSettled, CreditedOnce
<1>2. Spec => []Serial
  BY SerialAlways
<1>3. Spec => []Backed
  BY CreditedOnlySettled
<1> HIDE DEF Serial, Backed
<1> QED
  BY <1>1, <1>2, <1>3, PTL

----------------------------------------------------------------------------
(* The hold of a user                                                      *)

\* No two runs trade for one user at once.
UsersApart ==
    \A v, w \in Workers : v # w /\ Live(v) /\ Live(w) => User(v) # User(w)

\* A hook that has read the row of its user still knows it, and the orders of
\* the user cover the hold of the run.
HookKnows(w) ==
    /\ pc[w] \in {"hold", "free"} => cur[w] = inOrders[User(w)]
    /\ pc[w] \in Holding => inOrders[User(w)] >= Amount[Ex(w)]

Balanced(u) == inOrders[u] >= 0 /\ avail[u] + inOrders[u] = Deposit[u]

\* A step of keeper.execute, while no other run trades for its user.
LEMMA HoldByKeeper ==
    ASSUME TypeOK, UsersApart, NEW w \in Workers, KeeperStep(w),
           \A v \in Workers : HookKnows(v),
           \A u \in Users : Balanced(u)
    PROVE  /\ \A v \in Workers : HookKnows(v)'
           /\ \A u \in Users : Balanced(u)'
<1> USE PlanAssumption DEF TypeOK, LedgerTypeOK
<1>a. /\ Ex(w) \in Executions /\ User(w) \in Users
      /\ Amount[Ex(w)] \in Nat /\ Amount[Ex(w)] > 0
      /\ \A v \in Workers : Ex(v) \in Executions /\ User(v) \in Users
      /\ \A v \in Workers : Ex(v)' = Ex(v) /\ User(v)' = User(v)
  BY KeeperFrame DEF RunTypeOK, Messages, Ex, User
<1>b. \A v \in Workers \ {w} : pc'[v] = pc[v] /\ cur'[v] = cur[v]
  BY KeeperFrame, KeeperLedger DEF SameRun
<1>c. \A v \in Workers \ {w} :
         pc[v] \in Holding \cup {"hold", "free"} => User(v) # User(w)
  <2>1. <<pc[w], pc'[w]>> \in Edges
    BY KeeperEdges
  <2>2. Live(w)
    BY <2>1 DEF Edges, Live
  <2>3. \A v \in Workers : pc[v] \in Holding \cup {"hold", "free"} => Live(v)
    BY DEF Holding, Live
  <2> QED
    BY <2>2, <2>3 DEF UsersApart
<1>d. \A u \in Users : avail[u] \in Int /\ inOrders[u] \in Int /\ Deposit[u] \in Nat
  BY DepositAssumption
<1>1. CASE UNCHANGED <<avail, inOrders>>
  <2>1. \A v \in Workers \ {w} : HookKnows(v)'
    BY <1>1, <1>a, <1>b DEF HookKnows
  <2>2. /\ pc'[w] \in {"hold", "free"} => cur'[w] = inOrders[User(w)]
        /\ pc'[w] \in Holding => pc[w] \in Holding
    BY <1>1, KeeperLedger, <1>a, <1>d DEF Holding
  <2>3. HookKnows(w)'
    BY <1>1, <1>a, <2>2 DEF HookKnows
  <2> QED
    BY <1>1, <2>1, <2>3 DEF Balanced
<1>2. ASSUME NEW orders \in Int, NEW free \in Int,
             inOrders' = [inOrders EXCEPT ![User(w)] = orders],
             avail' = [avail EXCEPT ![User(w)] = free],
             orders >= 0, free + orders = Deposit[User(w)],
             pc'[w] \notin {"hold", "free"},
             pc'[w] \in Holding => orders >= Amount[Ex(w)]
      PROVE  /\ \A v \in Workers : HookKnows(v)'
             /\ \A u \in Users : Balanced(u)'
  <2>1. /\ inOrders'[User(w)] = orders /\ avail'[User(w)] = free
        /\ \A u \in Users \ {User(w)} : inOrders'[u] = inOrders[u] /\ avail'[u] = avail[u]
    BY <1>2, <1>a
  <2>2. \A u \in Users : Balanced(u)'
    BY <1>2, <2>1 DEF Balanced
  <2>3. \A v \in Workers \ {w} : HookKnows(v)'
    BY <2>1, <1>a, <1>b, <1>c DEF HookKnows
  <2>4. HookKnows(w)'
    BY <1>2, <2>1, <1>a DEF HookKnows
  <2> QED
    BY <2>2, <2>3, <2>4
<1>3. CASE /\ pc[w] = "hold" /\ pc'[w] = "web3"
           /\ avail' = [avail EXCEPT ![User(w)] = @ - Amount[Ex(w)]]
           /\ inOrders' = [inOrders EXCEPT ![User(w)] = cur[w] + Amount[Ex(w)]]
  <2> DEFINE orders == inOrders[User(w)] + Amount[Ex(w)]
             free == avail[User(w)] - Amount[Ex(w)]
  <2>1. cur[w] = inOrders[User(w)]
    BY <1>3 DEF HookKnows
  <2>2. /\ inOrders' = [inOrders EXCEPT ![User(w)] = orders]
        /\ avail' = [avail EXCEPT ![User(w)] = free]
    BY <1>3, <2>1
  <2>3. /\ orders \in Int /\ free \in Int /\ orders >= 0
        /\ free + orders = Deposit[User(w)] /\ orders >= Amount[Ex(w)]
    BY <1>a, <1>d DEF Balanced
  <2> HIDE DEF orders, free
  <2> QED
    BY <1>2, <1>3, <2>2, <2>3
<1>4. CASE /\ pc[w] = "free" /\ pc'[w] = "write"
           /\ avail' = [avail EXCEPT ![User(w)] = @ + Amount[Ex(w)]]
           /\ inOrders' = [inOrders EXCEPT ![User(w)] = Lowered(Ex(w), cur[w])]
  <2> DEFINE orders == inOrders[User(w)] - Amount[Ex(w)]
             free == avail[User(w)] + Amount[Ex(w)]
  <2>1. cur[w] = inOrders[User(w)] /\ inOrders[User(w)] >= Amount[Ex(w)]
    BY <1>4 DEF HookKnows, Holding
  <2>2. /\ inOrders' = [inOrders EXCEPT ![User(w)] = orders]
        /\ avail' = [avail EXCEPT ![User(w)] = free]
    BY <1>4, <2>1 DEF Lowered
  <2>3. /\ orders \in Int /\ free \in Int /\ orders >= 0
        /\ free + orders = Deposit[User(w)]
    BY <1>a, <1>d, <2>1 DEF Balanced
  <2> HIDE DEF orders, free
  <2> QED
    BY <1>2, <1>4, <2>2, <2>3 DEF Holding
<1> QED
  BY <1>1, <1>3, <1>4, KeeperLedger

LEMMA HoldStep ==
    ASSUME TypeOK, UsersApart, [Next]_vars,
           \A v \in Workers : HookKnows(v),
           \A u \in Users : Balanced(u)
    PROVE  /\ \A v \in Workers : HookKnows(v)'
           /\ \A u \in Users : Balanced(u)'
<1>1. ASSUME NEW w \in Workers, Execute(w)
      PROVE  /\ \A v \in Workers : HookKnows(v)'
             /\ \A u \in Users : Balanced(u)'
  BY <1>1, HoldByKeeper DEF Execute
<1>2. CASE \A w \in Workers : ~Execute(w)
  <2>1. UNCHANGED <<avail, inOrders>>
    BY <1>2, OthersKeepLedger DEF ledgerVars
  <2>2. \A v \in Workers :
           \/ pc'[v] = pc[v] /\ job'[v] = job[v] /\ cur'[v] = cur[v]
           \/ pc'[v] \notin Holding \cup {"hold", "free"}
    <3> USE DEF TypeOK, RunTypeOK, Goto, Holding
    <3>1. CASE Enqueue \/ Chain \/ UNCHANGED vars
      BY <3>1 DEF Enqueue, CreateRow, Publish, PublishFails, Chain, vars, runVars
    <3>2. ASSUME NEW w \in Workers, Deliver(w) \/ TaskStep(w)
          PROVE  \A v \in Workers :
                   \/ pc'[v] = pc[v] /\ job'[v] = job[v] /\ cur'[v] = cur[v]
                   \/ pc'[v] \notin Holding \cup {"hold", "free"}
      BY <1>2, <3>2 DEF Deliver, Receive, TaskStep, Claim, WriteResult,
         ResultLost, SaveFailed, Retry, Ack, Forget
    <3>3. ASSUME NEW w \in Workers, Faulty(w)
          PROVE  \A v \in Workers :
                   \/ pc'[v] = pc[v] /\ job'[v] = job[v] /\ cur'[v] = cur[v]
                   \/ pc'[v] \notin Holding \cup {"hold", "free"}
      BY <3>3 DEF Faulty, Crash, Redeliver, Forget, runVars
    <3> QED
      BY <3>1, <3>2, <3>3 DEF Next
  <2>3. \A v \in Workers : HookKnows(v)'
    BY <2>1, <2>2 DEF HookKnows, User, Ex
  <2> QED
    BY <2>1, <2>3 DEF Balanced
<1> QED
  BY <1>1, <1>2

\* With one worker, or with a broker that delivers once and users with one
\* execution each, no two runs trade for one user at once.
LEMMA UsersApartAlways ==
    ASSUME OneWorker \/ (DeliversOnce /\ OneEach)
    PROVE  Spec => []UsersApart
<1>1. TypeOK /\ OneRunPerExecution => UsersApart
  <2> SUFFICES ASSUME TypeOK, OneRunPerExecution,
                      NEW v \in Workers, NEW w \in Workers,
                      v # w, Live(v), Live(w)
               PROVE  User(v) # User(w)
    BY DEF UsersApart
  <2>1. OneEach
    BY DEF OneWorker
  <2>2. Ex(v) # Ex(w) /\ Ex(v) \in Executions /\ Ex(w) \in Executions
    BY DEF OneRunPerExecution, TypeOK, RunTypeOK, Messages, Ex
  <2> QED
    BY <2>1, <2>2 DEF OneEach, User
<1>2. OneWorker \/ DeliversOnce
  OBVIOUS
<1> QED
  BY <1>1, <1>2, RunsApart, TypeCorrect, PTL

LEMMA HoldAlways ==
    ASSUME OneWorker \/ (DeliversOnce /\ OneEach)
    PROVE  Spec => []((\A v \in Workers : HookKnows(v))
                      /\ \A u \in Users : Balanced(u))
<1> DEFINE Hooks == \A v \in Workers : HookKnows(v)
           Balances == \A u \in Users : Balanced(u)
<1>1. Init => Hooks /\ Balances
  BY DepositAssumption DEF Init, RunInit, LedgerInit, HookKnows, Balanced, Holding
<1>2. TypeOK /\ UsersApart /\ [Next]_vars /\ Hooks /\ Balances => Hooks' /\ Balances'
  BY HoldStep
<1> HIDE DEF Hooks, Balances
<1>3. Spec => [](Hooks /\ Balances)
  BY <1>1, <1>2, UsersApartAlways, TypeCorrect, PTL DEF Spec
<1> QED
  BY <1>3 DEF Hooks, Balances

\* No units of the sell token appear or vanish while the hooks of a user do not
\* overlap, although each writes an amount computed from an earlier read: with
\* one worker whatever crashes and is delivered again, also when crashes leave
\* holds behind.
THEOREM NothingLost ==
    ASSUME OneWorker \/ (DeliversOnce /\ OneEach)
    PROVE  Spec => []Conservation
<1> DEFINE Ledger == (\A v \in Workers : HookKnows(v))
                     /\ \A u \in Users : Balanced(u)
<1>1. Ledger => Conservation
  BY DEF Balanced, Conservation
<1>2. Spec => []Ledger
  BY HoldAlways
<1> HIDE DEF Ledger
<1> QED
  BY <1>1, <1>2, PTL

\* Under the same conditions the orders of a user cover every run that trades
\* with the user's hold, so that no unlock is cut off at zero.
THEOREM HoldsCover ==
    ASSUME OneWorker \/ (DeliversOnce /\ OneEach)
    PROVE  Spec => []HoldCoversRuns
<1> DEFINE Ledger == (\A v \in Workers : HookKnows(v))
                     /\ \A u \in Users : Balanced(u)
<1>1. Ledger => HoldCoversRuns
  BY DEF HookKnows, HoldCoversRuns
<1>2. Spec => []Ledger
  BY HoldAlways
<1> HIDE DEF Ledger
<1> QED
  BY <1>1, <1>2, PTL

----------------------------------------------------------------------------
(* Success and credit                                                      *)

\* The result of a run that credited.
ResultCredited(w) ==
    pc[w] = "write" /\ result[w] = "success" => credits[Ex(w)] > 0

LEMMA CreditsGrow ==
    ASSUME TypeOK, [Next]_vars, NEW e \in Executions
    PROVE  credits[e] \in Nat /\ credits'[e] \in Nat /\ credits'[e] >= credits[e]
<1>1. credits \in [Executions -> Nat]
  BY DEF TypeOK, LedgerTypeOK
<1>2. ASSUME NEW w \in Workers, Execute(w)
      PROVE  credits' = credits \/ credits' = [credits EXCEPT ![Ex(w)] = @ + 1]
  BY <1>2, KeeperCredits DEF Execute
<1>3. CASE \A w \in Workers : ~Execute(w)
  BY <1>1, <1>3, OthersKeepLedger DEF ledgerVars
<1> QED
  BY <1>1, <1>2, <1>3

LEMMA ResultCreditedStep ==
    ASSUME "credit_fails" \notin Faults, TypeOK, [Next]_vars,
           NEW v \in Workers, RunKnows(v), ResultCredited(v)
    PROVE  ResultCredited(v)'
<1> USE DEF TypeOK, RunTypeOK, Goto
<1>a. Ex(v) \in Executions
  BY DEF Ex, Messages
<1>b. CASE SameRun(v)
  <2>1. Ex(v)' = Ex(v) /\ credits[Ex(v)] \in Nat /\ credits'[Ex(v)] \in Nat
        /\ credits'[Ex(v)] >= credits[Ex(v)]
    BY <1>a, <1>b, CreditsGrow DEF SameRun, Ex
  <2>2. (pc[v] = "write" /\ result[v] = "success")
           <=> (pc'[v] = "write" /\ result'[v] = "success")
    BY <1>b DEF SameRun
  <2>3. ResultCredited(v)' <=>
          (pc'[v] = "write" /\ result'[v] = "success" => credits'[Ex(v)] > 0)
    BY <2>1 DEF ResultCredited
  <2> QED
    BY <2>1, <2>2, <2>3 DEF ResultCredited
<1>1. ASSUME NEW w \in Workers, Execute(w)
      PROVE  ResultCredited(v)'
  <2>1. CASE w # v
    BY <1>1, <1>b, <2>1, KeeperFrame DEF Execute
  <2>2. CASE w = v
    <3> SUFFICES ASSUME pc'[v] = "write", result'[v] = "success"
                 PROVE  (credits[Ex(v)] > 0)'
      BY DEF ResultCredited
    <3>1. pc[v] = "credit"
      BY <1>1, <2>2, KeeperCredits DEF Execute, RunKnows
    <3>2. credits' = [credits EXCEPT ![Ex(v)] = @ + 1] /\ job' = job
      BY <1>1, <2>2, <3>1, KeeperCredits, KeeperFrame DEF Execute
    <3> QED
      BY <1>a, <3>2 DEF LedgerTypeOK, Ex
  <2> QED
    BY <2>1, <2>2
<1>2. CASE Enqueue \/ Chain \/ UNCHANGED vars
  BY <1>2, <1>b DEF Enqueue, CreateRow, Publish, PublishFails, Chain, vars,
     runVars, SameRun
<1>3. ASSUME NEW w \in Workers,
             Deliver(w) \/ Claim(w) \/ WriteResult(w) \/ ResultLost(w)
             \/ SaveFailed(w) \/ Retry(w)
      PROVE  ResultCredited(v)'
  <2>1. \/ SameRun(v)
        \/ pc'[v] # "write"
    BY <1>3 DEF Deliver, Receive, Claim, WriteResult, ResultLost, SaveFailed,
       Retry, SameRun
  <2> QED
    BY <1>b, <2>1 DEF ResultCredited
<1>4. ASSUME NEW w \in Workers, Ack(w) \/ Faulty(w)
      PROVE  ResultCredited(v)'
  <2>1. SameRun(v) \/ pc'[v] # "write"
    BY <1>4 DEF Ack, Faulty, Crash, Redeliver, Forget, runVars, SameRun
  <2> QED
    BY <1>b, <2>1 DEF ResultCredited
<1> QED
  BY <1>1, <1>2, <1>3, <1>4 DEF Next, TaskStep

LEMMA SuccessStep ==
    ASSUME TypeOK, [Next]_vars, \A w \in Workers : ResultCredited(w),
           SuccessIsCredited
    PROVE  SuccessIsCredited'
<1> SUFFICES ASSUME NEW e \in Executions, status'[e] = "success"
             PROVE  credits'[e] > 0
  BY DEF SuccessIsCredited
<1> USE DEF TypeOK, RowTypeOK, Goto
<1>1. credits[e] \in Nat /\ credits'[e] \in Nat /\ credits'[e] >= credits[e]
  BY CreditsGrow
<1>2. CASE status[e] = "success"
  BY <1>1, <1>2 DEF SuccessIsCredited
<1>3. CASE status[e] # "success"
  <2>1. PICK w \in Workers : WriteResult(w)
    BY <1>3 DEF Next, Enqueue, CreateRow, Publish, PublishFails, Deliver,
       Receive, TaskStep, Claim, Execute, ResultLost, SaveFailed, Retry, Ack,
       Faulty, Crash, Redeliver, Chain, vars, rowVars
  <2>2. Ex(w) = e /\ pc[w] = "write" /\ StatusOf(result[w]) = "success"
    BY <1>3, <2>1 DEF WriteResult
  <2>3. result[w] = "success"
    BY <2>2 DEF StatusOf
  <2> QED
    BY <1>1, <2>2, <2>3 DEF ResultCredited
<1> QED
  BY <1>2, <1>3

\* README.md: "credit buy".  As long as the balance manager does not fail, a
\* row shows SUCCESS only once its buy amount is credited, with any number of
\* workers, crashes and redeliveries.
THEOREM SuccessWasCredited ==
    ASSUME "credit_fails" \notin Faults
    PROVE  Spec => []SuccessIsCredited
<1> DEFINE Knowledge == \A w \in Workers : RunKnows(w)
           Told == \A w \in Workers : ResultCredited(w)
<1>1. Init => Told /\ SuccessIsCredited
  BY DEF Init, RunInit, ResultCredited, SuccessIsCredited
<1>2. TypeOK /\ [Next]_vars /\ Knowledge /\ Told => Told'
  BY ResultCreditedStep
<1>3. TypeOK /\ [Next]_vars /\ Told /\ SuccessIsCredited => SuccessIsCredited'
  BY SuccessStep
<1>4. Spec => []Knowledge
  BY KnowledgeAlways
<1> HIDE DEF Knowledge, Told
<1> QED
  BY <1>1, <1>2, <1>3, <1>4, TypeCorrect, PTL DEF Spec

----------------------------------------------------------------------------
(* The abstract swap                                                       *)

\* A swap on the network belongs to a row that was claimed.
SwapClaimed(e) == Swaps(e) # {} => status[e] \notin {"absent", "queued"}

\* The steps that write a row.
LEMMA RowWriters ==
    ASSUME [Next]_vars
    PROVE  \/ status' = status
           \/ \E e \in Executions : CreateRow(e)
           \/ \E w \in Workers : Claim(w) \/ SaveFailed(w) \/ WriteResult(w)
  BY DEF Next, Enqueue, Publish, PublishFails, Deliver, Receive, TaskStep,
     Execute, ResultLost, Retry, Ack, Faulty, Crash, Redeliver, Chain, vars,
     rowVars

LEMMA SwapClaimedStep ==
    ASSUME TypeOK, [Next]_vars, \A w \in Workers : RowOfRun(w),
           NEW e \in Executions, SwapClaimed(e), AbsentUntouched
    PROVE  SwapClaimed(e)'
<1> USE DEF TypeOK, RowTypeOK, Goto
<1>1. ASSUME NEW w \in Workers, Execute(w)
      PROVE  SwapClaimed(e)'
  <2>1. status' = status /\ KeeperStep(w)
    BY <1>1 DEF Execute, rowVars
  <2>2. CASE Swaps(e)' = Swaps(e)
    BY <2>1, <2>2 DEF SwapClaimed
  <2>3. CASE Swaps(e)' # Swaps(e)
    <3>1. PICK t \in Txs : /\ Broadcast(t) /\ t.ex = Ex(w)
                           /\ t.kind = "swap" => pc[w] = "send"
      BY <2>1, <2>3, KeeperSends DEF Swaps, chainVars
    <3>2. t.kind = "swap" /\ Ex(w) = e
      BY <2>3, <3>1 DEF Swaps, Broadcast
    <3>3. status[e] = "broadcasting"
      BY <3>1, <3>2 DEF RowOfRun, Live
    <3> QED
      BY <2>1, <3>3 DEF SwapClaimed
  <2> QED
    BY <2>2, <2>3
<1>2. CASE \A w \in Workers : ~Execute(w)
  <2>1. Swaps(e)' = Swaps(e)
    BY <1>2, OthersSendNothing DEF Swaps
  <2>2. CASE status' = status
    BY <2>1, <2>2 DEF SwapClaimed
  <2>3. ASSUME NEW d \in Executions, CreateRow(d)
        PROVE  SwapClaimed(e)'
    BY <2>1, <2>3 DEF SwapClaimed, CreateRow, AbsentUntouched
  <2>4. ASSUME NEW w \in Workers, Claim(w) \/ SaveFailed(w) \/ WriteResult(w)
        PROVE  SwapClaimed(e)'
    BY <2>1, <2>4 DEF SwapClaimed, Claim, SaveFailed, WriteResult, StatusOf
  <2> QED
    BY <2>2, <2>3, <2>4, RowWriters
<1> QED
  BY <1>1, <1>2

LEMMA SwapClaimedAlways ==
    ASSUME OneWorker \/ DeliversOnce
    PROVE  Spec => [](\A e \in Executions : SwapClaimed(e))
<1> DEFINE Rows == \A w \in Workers : RowOfRun(w)
           Credits == \A e \in Executions : CreditFinal(e)
           Claimed == \A e \in Executions : SwapClaimed(e)
<1>1. Init => Claimed
  BY DEF Init, ChainInit, SwapClaimed, Swaps
<1>2. TypeOK /\ AbsentUntouched /\ [Next]_vars /\ Rows /\ Claimed => Claimed'
  BY SwapClaimedStep
<1>3. Spec => [](Rows /\ Credits)
  BY SerialAlways
<1> HIDE DEF Rows, Credits, Claimed
<1>4. Spec => []Claimed
  BY <1>1, <1>2, <1>3, AbsentAlways, TypeCorrect, PTL DEF Spec
<1> QED
  BY <1>4 DEF Claimed

\* What the refinement needs of a reachable state.
Serial ==
    /\ TypeOK /\ ChainSound /\ FinalMatchesChain /\ AbsentUntouched
    /\ \A w \in Workers : RunKnows(w) /\ RowOfRun(w)
    /\ \A e \in Executions : CreditFinal(e) /\ SwapClaimed(e)

\* The refinement mapping.
HasSettled == {e \in Executions : SettledSwaps(e) # {}}
HasCredit == {e \in Executions : credits[e] > 0}

LEMMA AbstractInit == Init => Abstract!Init
  BY DEF Init, ChainInit, LedgerInit, Abstract!Init, SettledSwaps

\* A step of keeper.execute credits a settled swap of a BROADCASTING row, or
\* changes nothing the abstract swap shows.
LEMMA AbstractKeeper ==
    ASSUME Serial, NEW w \in Workers, Execute(w)
    PROVE  [Abstract!Next]_Abstract!vars
<1> USE DEF Serial, TypeOK, LedgerTypeOK, RunTypeOK
<1>1. /\ status' = status /\ KeeperStep(w) /\ mined' = mined
      /\ Ex(w) \in Executions
  BY KeeperSends DEF Execute, rowVars, chainVars, Broadcast, Ex, Messages
<1>2. HasSettled' = HasSettled
  BY <1>1 DEF HasSettled, SettledSwaps
<1>3. CASE credits' = credits
  <2>1. HasCredit' = HasCredit
    BY <1>3 DEF HasCredit
  <2> QED
    BY <1>1, <1>2, <2>1 DEF Abstract!vars, HasCredit, HasSettled
<1>4. CASE credits' # credits
  <2>1. pc[w] = "credit" /\ credits' = [credits EXCEPT ![Ex(w)] = @ + 1]
    BY <1>1, <1>4, KeeperCredits
  <2>2. credits[Ex(w)] = 0
    BY <1>1, <2>1 DEF CreditFinal, Live
  <2>3. status[Ex(w)] = "broadcasting"
    BY <2>1 DEF RowOfRun, Live
  <2>4. [tx |-> tx[w], ok |-> TRUE] \in SettledSwaps(Ex(w))
    BY <2>1 DEF RunKnows, OwnSwap, MinedOk, SettledSwaps
  <2>5. Ex(w) \in HasSettled \ HasCredit
    BY <1>1, <2>2, <2>4 DEF HasSettled, HasCredit
  <2>6. HasCredit' = HasCredit \cup {Ex(w)}
    BY <1>1, <2>1, <2>2 DEF HasCredit
  <2>7. Abstract!Credit(Ex(w))
    BY <1>1, <1>2, <2>3, <2>5, <2>6
       DEF Abstract!Credit, HasSettled, HasCredit
  <2> QED
    BY <1>1, <2>7 DEF Abstract!Next, Abstract!Credit
<1> QED
  BY <1>3, <1>4

\* A block settles the swap of a claimed row, or changes nothing.
LEMMA AbstractChain ==
    ASSUME Serial, Chain
    PROVE  [Abstract!Next]_Abstract!vars
<1> USE DEF Serial, TypeOK, ChainTypeOK, Txs
<1>1. status' = status /\ HasCredit' = HasCredit
  BY DEF Chain, rowVars, ledgerVars, HasCredit
<1>2. CASE HasSettled' = HasSettled
  BY <1>1, <1>2 DEF Abstract!vars, HasCredit, HasSettled
<1>3. CASE HasSettled' # HasSettled
  <2>1. PICK t \in pool, ok \in BOOLEAN : Mine(t, ok)
    BY <1>3 DEF Chain, ChainStep, Evict, HasSettled, SettledSwaps
  <2>2. mined' = mined \cup {[tx |-> t, ok |-> ok]} /\ t.ex \in Executions
    BY <2>1 DEF Mine
  <2>3. \A d \in Executions :
           SettledSwaps(d)' = IF ok /\ t.kind = "swap" /\ t.ex = d
                              THEN SettledSwaps(d) \cup {[tx |-> t, ok |-> ok]}
                              ELSE SettledSwaps(d)
    BY <2>2 DEF SettledSwaps
  <2>4. ok /\ t.kind = "swap"
    BY <1>3, <2>3 DEF HasSettled
  <2>5. HasSettled' = HasSettled \cup {t.ex}
    BY <2>2, <2>3, <2>4 DEF HasSettled
  <2>6. status[t.ex] \notin {"absent", "queued"}
    BY <2>2, <2>4 DEF SwapClaimed, Swaps, ChainSound
  <2>7. status[t.ex] # "success"
    BY <1>3, <2>2, <2>5 DEF FinalMatchesChain, HasSettled
  <2>8. Abstract!Settle(t.ex)
    BY <1>1, <2>5, <2>6, <2>7 DEF Abstract!Settle, HasSettled, HasCredit
  <2> QED
    BY <2>2, <2>8 DEF Abstract!Next
<1> QED
  BY <1>2, <1>3

\* The steps that write a row move its phase as the abstract swap allows.
LEMMA AbstractRows ==
    ASSUME Serial, HasSettled' = HasSettled, HasCredit' = HasCredit,
           \/ \E e \in Executions : CreateRow(e)
           \/ \E w \in Workers : Claim(w) \/ SaveFailed(w) \/ WriteResult(w)
    PROVE  Abstract!Next
<1> USE DEF Serial, TypeOK, RowTypeOK, Goto, Abstract!Moves, HasSettled, HasCredit
<1>a. \A w \in Workers : Ex(w) \in Executions
  BY DEF RunTypeOK, Ex, Messages
<1>1. ASSUME NEW e \in Executions, CreateRow(e)
      PROVE  Abstract!Next
  <2>1. status[e] = "absent"
    BY <1>1 DEF CreateRow, AbsentUntouched
  <2>2. Abstract!Submit(e)
    BY <1>1, <2>1 DEF CreateRow, Abstract!Submit
  <2> QED
    BY <2>2 DEF Abstract!Next
<1>2. ASSUME NEW w \in Workers, Claim(w)
      PROVE  Abstract!Next
  <2>1. status[Ex(w)] \in {"queued", "failed"}
    BY <1>2 DEF Claim, RowOfRun, Runnable
  <2>2. Abstract!Start(Ex(w))
    BY <1>2, <2>1 DEF Claim, Abstract!Start
  <2> QED
    BY <1>a, <2>2 DEF Abstract!Next
<1>3. ASSUME NEW w \in Workers, SaveFailed(w)
      PROVE  Abstract!Next
  <2>1. status[Ex(w)] = "broadcasting"
    BY <1>3 DEF SaveFailed, RowOfRun, Live
  <2>2. Abstract!Fail(Ex(w))
    BY <1>3, <2>1 DEF SaveFailed, Abstract!Fail
  <2> QED
    BY <1>a, <2>2 DEF Abstract!Next
<1>4. ASSUME NEW w \in Workers, WriteResult(w)
      PROVE  Abstract!Next
  <2>1. /\ status[Ex(w)] = "broadcasting" /\ pc[w] = "write"
        /\ status' = [status EXCEPT ![Ex(w)] = StatusOf(result[w])]
    BY <1>4 DEF WriteResult, RowOfRun, Live
  <2>2. CASE result[w] = "success"
    <3>1. [tx |-> tx[w], ok |-> TRUE] \in SettledSwaps(Ex(w))
      BY <2>1, <2>2 DEF RunKnows, OwnSwap, MinedOk, SettledSwaps
    <3>2. Abstract!Succeed(Ex(w))
      BY <1>a, <2>1, <2>2, <3>1 DEF StatusOf, Abstract!Succeed
    <3> QED
      BY <1>a, <3>2 DEF Abstract!Next
  <2>3. CASE result[w] = "tx_reverted"
    <3>1. Abstract!Revert(Ex(w))
      BY <2>1, <2>3 DEF StatusOf, Abstract!Revert
    <3> QED
      BY <1>a, <3>1 DEF Abstract!Next
  <2>4. CASE result[w] \notin {"success", "tx_reverted"}
    <3>1. Abstract!Fail(Ex(w))
      BY <2>1, <2>4 DEF StatusOf, Abstract!Fail
    <3> QED
      BY <1>a, <3>1 DEF Abstract!Next
  <2> QED
    BY <2>2, <2>3, <2>4
<1> QED
  BY <1>1, <1>2, <1>3, <1>4

LEMMA AbstractStep == Serial /\ [Next]_vars => [Abstract!Next]_Abstract!vars
<1> SUFFICES ASSUME Serial, [Next]_vars PROVE [Abstract!Next]_Abstract!vars
  OBVIOUS
<1>1. ASSUME NEW w \in Workers, Execute(w)
      PROVE  [Abstract!Next]_Abstract!vars
  BY <1>1, AbstractKeeper
<1>2. CASE Chain
  BY <1>2, AbstractChain
<1>3. ASSUME \A w \in Workers : ~Execute(w), ~Chain
      PROVE  [Abstract!Next]_Abstract!vars
  <2>1. credits' = credits /\ mined' = mined
    <3>1. credits' = credits
      BY <1>3, OthersKeepLedger DEF Serial, ledgerVars
    <3>2. mined' = mined
      BY <1>3 DEF Next, Enqueue, CreateRow, Publish, PublishFails, Deliver,
         Receive, TaskStep, Claim, WriteResult, ResultLost, SaveFailed, Retry,
         Ack, Faulty, Crash, Redeliver, vars, chainVars
    <3> QED
      BY <3>1, <3>2
  <2>2. HasSettled' = HasSettled /\ HasCredit' = HasCredit
    BY <2>1 DEF HasSettled, HasCredit, SettledSwaps
  <2>3. CASE status' = status
    BY <2>2, <2>3 DEF Abstract!vars, HasSettled, HasCredit
  <2> QED
    BY <2>2, <2>3, RowWriters, AbstractRows
<1> QED
  BY <1>1, <1>2, <1>3

\* Rows, broker, workers, chain and ledger together behave as the abstract swap
\* when runs do not overlap: with one worker that crashes and is given messages
\* again, or with several while every message is delivered once.
THEOREM SwapImplemented ==
    ASSUME OneWorker \/ DeliversOnce
    PROVE  Spec => ImplementsCustodialSwap
<1> DEFINE Knowledge == \A w \in Workers : RunKnows(w)
           Rows == \A w \in Workers : RowOfRun(w)
           Credits == \A e \in Executions : CreditFinal(e)
           Claimed == \A e \in Executions : SwapClaimed(e)
<1>1. TypeOK /\ ChainSound /\ FinalMatchesChain /\ AbsentUntouched
        /\ Knowledge /\ Rows /\ Credits /\ Claimed => Serial
  BY DEF Serial
<1>2. Spec => []Knowledge
  BY KnowledgeAlways
<1>3. Spec => [](Rows /\ Credits)
  BY SerialAlways
<1>4. Spec => []Claimed
  BY SwapClaimedAlways
<1> HIDE DEF Knowledge, Rows, Credits, Claimed
<1>5. Spec => []Serial
  BY <1>1, <1>2, <1>3, <1>4, SoundAlways, FinalStatusIsTrue, AbsentAlways,
     TypeCorrect, PTL
<1>6. Spec => [][Abstract!Next]_Abstract!vars
  BY <1>5, AbstractStep, PTL DEF Spec
<1> QED
  BY <1>6, AbstractInit, PTL DEF Spec, ImplementsCustodialSwap, Abstract!Spec
=============================================================================
