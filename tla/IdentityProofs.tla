---------------------------- MODULE IdentityProofs --------------------------
(***************************************************************************)
(* Proofs about the components that say who may act: KycService (who passes *)
(* the gates), WalletOrders (the nonces of orders) and                     *)
(* SecretsStore (the key the keeper signs with), for all users, processes, *)
(* traders, keys, threads and bounds.                                      *)
(***************************************************************************)
EXTENDS KycService, WalletOrders, SecretsStore, TLAPS

USE KycAssumption

----------------------------------------------------------------------------
(* KycService                                                              *)

(* Only the word "pass" approves, and who was vouched for stays so.        *)

LEMMA OnlyPassApproves ==
    ASSUME NEW w, ZkMeStatus(w) = "approved"
    PROVE  w = "pass"
  BY DEF ZkMeStatus

LEMMA StatusesOfZkMe == ASSUME NEW w PROVE ZkMeStatus(w) \in Statuses
  BY DEF ZkMeStatus, Statuses

LEMMA VouchedStays ==
    ASSUME KycTypeOK, KycNext \/ UNCHANGED kycVars, NEW u \in KycUsers
    PROVE  /\ ZkMePassed(u) => ZkMePassed(u)'
           /\ Vouched(u) => Vouched(u)'
<1>1. messages \subseteq messages' /\ verifiedSessions \subseteq verifiedSessions'
  BY DEF KycNext, kycVars, ZkMeDecides, PrivadoVerifies, StartVerification,
         Refresh, Ask, RefreshKycTask, ZkMeWebhook, Webhook, Apply, Restart
<1>2. ZkMePassed(u) => ZkMePassed(u)'
  <2>1. CASE UNCHANGED verdicts
    BY <2>1 DEF ZkMePassed
  <2>2. CASE \E v \in KycUsers, w \in Words : ZkMeDecides(v, w)
    <3>1. PICK v \in KycUsers, w \in Words : ZkMeDecides(v, w)
      BY <2>2
    <3>2. verdicts' = [verdicts EXCEPT ![v] = Append(@, w)]
      BY <3>1 DEF ZkMeDecides
    <3>3. verdicts[u] \in Seq(Words)
      BY DEF KycTypeOK
    <3>4. \A i \in DOMAIN verdicts[u] :
             i \in DOMAIN verdicts'[u] /\ verdicts'[u][i] = verdicts[u][i]
      BY <3>2, <3>3 DEF KycTypeOK
    <3> QED
      BY <3>4 DEF ZkMePassed
  <2>3. UNCHANGED verdicts \/ \E v \in KycUsers, w \in Words : ZkMeDecides(v, w)
    BY DEF KycNext, kycVars, PrivadoVerifies, StartVerification, Refresh, Ask,
           RefreshKycTask, ZkMeWebhook, Webhook, Apply, Restart
  <2> QED
    BY <2>1, <2>2, <2>3
<1> QED
  BY <1>1, <1>2 DEF Vouched, Claims

\* What a provider answers is a status, and an approval has a source; without
\* a session only zkMe can approve.
LEMMA AnswersAreBacked ==
    ASSUME KycTypeOK, NEW u \in KycUsers, NEW pr \in Providers,
           NEW session \in Sessions, NEW s \in StatusAnswers(pr, u, session)
    PROVE  /\ s \in Statuses
           /\ s = "approved" => Vouched(u)
           /\ (s = "approved" /\ session = NoSession) => ZkMePassed(u)
<1>1. CASE pr = "zkme"
  <2>1. s \in ZkMeAnswers(u)
    BY <1>1 DEF StatusAnswers
  <2>2. CASE s = "none"
    BY <1>1, <2>2 DEF Statuses
  <2>3. CASE s # "none"
    <3>1. PICK i \in {Len(verdicts[u])} \ {0} : s = ZkMeStatus(verdicts[u][i])
      BY <2>1, <2>3 DEF ZkMeAnswers
    <3>2. i \in DOMAIN verdicts[u]
      BY <3>1 DEF KycTypeOK
    <3> QED
      BY <1>1, <3>1, <3>2, StatusesOfZkMe, OnlyPassApproves
         DEF Vouched, ZkMePassed
  <2> QED
    BY <2>2, <2>3
<1>2. CASE pr = "zkpass"
  BY <1>2 DEF StatusAnswers, ZkPassAnswers, Statuses
<1>3. CASE pr = "privado"
  <2>1. s \in PrivadoAnswers(session)
    BY <1>3 DEF StatusAnswers
  <2>2. s \in {"none", "approved", "pending"}
    BY <2>1 DEF PrivadoAnswers
  <2>3. CASE session = NoSession
    <3>1. session \notin verifiedSessions
      BY <2>3 DEF KycTypeOK
    <3>2. s = "none"
      BY <2>1, <2>3, <3>1 DEF PrivadoAnswers
    <3> QED
      BY <3>2 DEF Statuses
  <2>4. CASE session # NoSession /\ session \in verifiedSessions
    BY <2>2, <2>4 DEF Statuses, Vouched
  <2>5. CASE session # NoSession /\ session \notin verifiedSessions
    <3>1. s = "pending"
      BY <2>1, <2>5 DEF PrivadoAnswers
    <3> QED
      BY <3>1 DEF Statuses
  <2> QED
    BY <2>3, <2>4, <2>5
<1> QED
  BY <1>1, <1>2, <1>3 DEF Providers

----------------------------------------------------------------------------
(* The inductive invariant: an approval on its way has a source as well, and *)
(* one that the task brings to the row is zkMe's.                           *)

PendingHasASource ==
    \A x \in pending : x.status = "approved" =>
       /\ Vouched(x.user)
       /\ x.by = Task => ZkMePassed(x.user)

RowIsBacked == \A u \in KycUsers : row[u] = "approved" => ZkMePassed(u)

KycInv == KycTypeOK /\ ApprovalsHaveASource /\ PendingHasASource /\ RowIsBacked

LEMMA KycInitInv == KycInit => KycInv
<1> SUFFICES ASSUME KycInit PROVE KycInv
  OBVIOUS
<1>1. KycTypeOK
  <2>1. NoRecord \in Statuses
    BY DEF NoRecord, Statuses
  <2>2. <<>> \in Seq(Words)
    OBVIOUS
  <2>3. /\ verdicts \in [KycUsers -> Seq(Words)]
        /\ rowAsOf \in [KycUsers -> Nat]
    BY <2>2 DEF KycInit
  <2>4. /\ store \in [WebProcesses -> [KycUsers -> Statuses]]
        /\ row \in [KycUsers -> Statuses]
    BY <2>1 DEF KycInit
  <2> QED
    BY <2>3, <2>4 DEF KycInit, KycTypeOK
<1> QED
  BY <1>1 DEF KycInit, KycInv, ApprovalsHaveASource, PendingHasASource,
              RowIsBacked, NoRecord

\* A write that gets ready keeps the invariant, if its approval has a source.
LEMMA WriteKeepsInv ==
    ASSUME KycInv, NEW by \in WebProcesses \cup {Task}, NEW u \in KycUsers,
           NEW status \in Statuses, AboutToWrite(by, u, status), Served,
           status = "approved" => Vouched(u) /\ (by = Task => ZkMePassed(u)),
           UNCHANGED <<verdicts, verifiedSessions, messages, store, row,
                       restarts, rowAsOf>>,
           overlapped' \subseteq overlapped \cup {u}
    PROVE  KycInv'
<1> USE DEF KycInv
<1> DEFINE new == [by |-> by, user |-> u, status |-> status,
                   asked |-> Len(verdicts[u]), call |-> calls]
<1>1. pending' = pending \cup {new}
  BY DEF AboutToWrite
<1>2. new \in Pending
  <2>1. Len(verdicts[u]) \in Nat /\ calls \in Nat
    BY DEF KycTypeOK
  <2> QED
    BY <2>1 DEF Pending
<1>3. new.by = by /\ new.user = u /\ new.status = status
  OBVIOUS
<1> HIDE DEF new
<1>4. KycTypeOK'
  <2>1. calls' \in Nat
    BY DEF Served, KycTypeOK
  <2> QED
    BY <1>1, <1>2, <2>1 DEF KycTypeOK
<1>5. \A v \in KycUsers : ZkMePassed(v)' = ZkMePassed(v) /\ Vouched(v)' = Vouched(v)
  BY DEF ZkMePassed, Vouched, Claims
<1>6. ApprovalsHaveASource' /\ RowIsBacked'
  BY <1>5 DEF ApprovalsHaveASource, RowIsBacked
<1>7. PendingHasASource'
  <2>1. \A x \in pending : x.user \in KycUsers
    BY DEF KycTypeOK, Pending
  <2> QED
    BY <1>1, <1>3, <1>5, <2>1 DEF PendingHasASource
<1> QED
  BY <1>4, <1>6, <1>7

LEMMA AskKeepsInv ==
    ASSUME KycInv, NEW by \in WebProcesses \cup {Task}, NEW u \in KycUsers,
           NEW pr \in Providers, NEW session \in Sessions,
           by = Task => session = NoSession,
           Ask(by, u, pr, session)
    PROVE  KycInv'
<1>1. PICK s \in StatusAnswers(pr, u, session) : AboutToWrite(by, u, s)
  BY DEF Ask
<1>2. /\ s \in Statuses
      /\ s = "approved" => Vouched(u)
      /\ (s = "approved" /\ session = NoSession) => ZkMePassed(u)
  BY AnswersAreBacked DEF KycInv
<1>3. /\ Served
      /\ UNCHANGED <<verdicts, verifiedSessions, messages, store, row, restarts,
                     rowAsOf>>
      /\ overlapped' \subseteq overlapped \cup {u}
  BY DEF Ask
<1> QED
  BY <1>1, <1>2, <1>3, WriteKeepsInv

LEMMA KycStepInv == KycInv /\ [KycNext]_kycVars => KycInv'
<1> SUFFICES ASSUME KycInv, [KycNext]_kycVars PROVE KycInv'
  OBVIOUS
<1> USE DEF KycInv
<1>1. CASE UNCHANGED kycVars
  <2>1. KycTypeOK'
    BY <1>1 DEF kycVars, KycTypeOK
  <2>2. /\ \A u \in KycUsers : Vouched(u)' = Vouched(u)
        /\ \A u \in KycUsers : ZkMePassed(u)' = ZkMePassed(u)
    BY <1>1 DEF kycVars, Vouched, Claims, ZkMePassed
  <2>3. UNCHANGED <<store, row, pending>>
    BY <1>1 DEF kycVars
  <2>4. \A x \in pending : x.user \in KycUsers
    BY DEF KycTypeOK, Pending
  <2> QED
    BY <2>1, <2>2, <2>3, <2>4 DEF ApprovalsHaveASource, PendingHasASource,
                                  RowIsBacked
<1> SUFFICES ASSUME KycNext PROVE KycInv'
  BY <1>1
<1>2. \A u \in KycUsers : /\ ZkMePassed(u) => ZkMePassed(u)'
                          /\ Vouched(u) => Vouched(u)'
  BY VouchedStays
<1>3. \A x \in pending : x \in Pending /\ x.user \in KycUsers
  BY DEF KycTypeOK, Pending
<1>4. ASSUME NEW u \in KycUsers, NEW w \in Words, ZkMeDecides(u, w)
      PROVE  KycInv'
  <2>1. KycTypeOK'
    BY <1>4 DEF ZkMeDecides, KycTypeOK
  <2> QED
    BY <1>2, <1>3, <1>4, <2>1 DEF ZkMeDecides, ApprovalsHaveASource,
                                  PendingHasASource, RowIsBacked
<1>5. ASSUME NEW s \in SessionIds, PrivadoVerifies(s)
      PROVE  KycInv'
  <2>1. KycTypeOK'
    BY <1>5 DEF PrivadoVerifies, KycTypeOK
  <2> QED
    BY <1>2, <1>3, <1>5, <2>1 DEF PrivadoVerifies, ApprovalsHaveASource,
                                  PendingHasASource, RowIsBacked
<1>6. ASSUME NEW p \in WebProcesses, NEW u \in KycUsers, StartVerification(p, u)
      PROVE  KycInv'
  <2>1. "pending" \in Statuses /\ "pending" # "approved"
    BY DEF Statuses
  <2>2. /\ AboutToWrite(p, u, "pending") /\ Served
        /\ UNCHANGED <<verdicts, verifiedSessions, messages, store, row, restarts,
                       rowAsOf>>
        /\ overlapped' \subseteq overlapped \cup {u}
    BY <1>6 DEF StartVerification
  <2>3. PICK by \in WebProcesses \cup {Task} : by = p
    OBVIOUS
  <2>4. PICK status \in Statuses : status = "pending"
    BY <2>1
  <2>5. AboutToWrite(by, u, status)
    BY <2>2, <2>3, <2>4
  <2>6. status # "approved"
    BY <2>1, <2>4
  <2> QED
    BY <2>2, <2>5, <2>6, WriteKeepsInv
<1>7. ASSUME NEW p \in WebProcesses, NEW u \in KycUsers, NEW pr \in Providers,
             NEW session \in Sessions, Refresh(p, u, pr, session)
      PROVE  KycInv'
  <2>1. p # Task
    OBVIOUS
  <2> QED
    BY <1>7, <2>1, AskKeepsInv DEF Refresh
<1>8. ASSUME NEW u \in KycUsers, NEW pr \in Providers, RefreshKycTask(u, pr)
      PROVE  KycInv'
  BY <1>8, AskKeepsInv DEF RefreshKycTask, Sessions
<1>9. ASSUME NEW p \in WebProcesses, NEW u \in KycUsers, ZkMeWebhook(p, u)
      PROVE  KycInv'
  <2>1. "zkme" \in Providers /\ NoSession \in Sessions
    BY DEF Providers, Sessions
  <2> QED
    BY <1>9, <2>1, AskKeepsInv DEF ZkMeWebhook
<1>10. ASSUME NEW p \in WebProcesses, NEW m \in Messages, Webhook(p, m)
       PROVE  KycInv'
  <2>1. m.user \in KycUsers /\ m.provider \in {"zkpass", "privado"}
    BY DEF Messages, Providers
  <2>2. /\ UNCHANGED <<verdicts, verifiedSessions, row, pending, restarts,
                       rowAsOf, overlapped>>
        /\ messages' = messages \cup {m}
        /\ store' = [store EXCEPT ![p][m.user] = MessageStatus(m)]
    BY <1>10 DEF Webhook
  <2>3. MessageStatus(m) \in Statuses
    BY DEF MessageStatus, VerifyProof, Statuses
  <2>4. KycTypeOK'
    <3>1. store' \in [WebProcesses -> [KycUsers -> Statuses]]
      BY <2>1, <2>2, <2>3 DEF KycTypeOK
    <3>2. calls' \in Nat
      BY <1>10 DEF Webhook, Served, KycTypeOK
    <3> QED
      BY <2>2, <3>1, <3>2 DEF KycTypeOK
  <2>5. MessageStatus(m) = "approved" => Vouched(m.user)'
    <3>1. MessageStatus(m) = "approved" => Claims(m)
      BY <2>1 DEF MessageStatus, Claims
    <3> QED
      BY <2>2, <3>1 DEF Vouched
  <2>6. ApprovalsHaveASource'
    BY <1>2, <2>1, <2>2, <2>5 DEF ApprovalsHaveASource, KycTypeOK
  <2> QED
    BY <1>2, <1>3, <2>2, <2>4, <2>6 DEF PendingHasASource, RowIsBacked
<1>11. ASSUME NEW x \in pending, Apply(x)
       PROVE  KycInv'
  <2>1. /\ x.user \in KycUsers
        /\ x.by \in WebProcesses \cup {Task}
        /\ x.status \in Statuses
        /\ x.asked \in Nat
    BY DEF KycTypeOK, Pending
  <2>2. UNCHANGED <<verdicts, verifiedSessions, messages>> /\ pending' \subseteq pending
    BY <1>11 DEF Apply
  <2>3. PendingHasASource'
    BY <1>2, <1>3, <2>2 DEF PendingHasASource
  <2>4. CASE x.by = Task
    <3>1. /\ row' = [row EXCEPT ![x.user] = x.status]
          /\ rowAsOf' = [rowAsOf EXCEPT ![x.user] = x.asked]
          /\ UNCHANGED <<store, calls, restarts, overlapped>>
      BY <1>11, <2>4 DEF Apply, IsForRow
    <3>2. KycTypeOK'
      BY <2>1, <2>2, <3>1 DEF KycTypeOK
    <3>3. RowIsBacked'
      BY <1>2, <2>1, <2>4, <3>1 DEF RowIsBacked, PendingHasASource, KycTypeOK
    <3>4. ApprovalsHaveASource'
      BY <1>2, <3>1 DEF ApprovalsHaveASource
    <3> QED
      BY <2>3, <3>2, <3>3, <3>4
  <2>5. CASE x.by # Task
    <3>1. /\ store' = [store EXCEPT ![x.by][x.user] = x.status]
          /\ UNCHANGED <<row, rowAsOf, calls, restarts, overlapped>>
      BY <1>11, <2>5 DEF Apply, IsForRow
    <3>2. x.by \in WebProcesses
      BY <2>1, <2>5
    <3>3. KycTypeOK'
      BY <2>1, <2>2, <3>1, <3>2 DEF KycTypeOK
    <3>4. RowIsBacked'
      BY <1>2, <3>1 DEF RowIsBacked
    <3>5. x.status = "approved" => Vouched(x.user)
      BY DEF PendingHasASource
    <3>6. ApprovalsHaveASource'
      BY <1>2, <2>1, <3>1, <3>2, <3>5 DEF ApprovalsHaveASource, KycTypeOK
    <3> QED
      BY <2>3, <3>3, <3>4, <3>6
  <2> QED
    BY <2>4, <2>5
<1>12. ASSUME NEW p \in WebProcesses, Restart(p)
       PROVE  KycInv'
  <2>1. NoRecord \in Statuses /\ NoRecord # "approved"
    BY DEF NoRecord, Statuses
  <2>2. /\ store' = [store EXCEPT ![p] = [u \in KycUsers |-> NoRecord]]
        /\ pending' \subseteq pending
        /\ restarts' = restarts + 1
        /\ UNCHANGED <<verdicts, verifiedSessions, messages, row, calls, rowAsOf,
                       overlapped>>
    BY <1>12 DEF Restart
  <2>3. KycTypeOK'
    BY <2>1, <2>2 DEF KycTypeOK
  <2>4. ApprovalsHaveASource'
    BY <1>2, <2>1, <2>2 DEF ApprovalsHaveASource, KycTypeOK
  <2> QED
    BY <1>2, <1>3, <2>2, <2>3, <2>4 DEF PendingHasASource, RowIsBacked
<1> QED
  BY <1>4, <1>5, <1>6, <1>7, <1>8, <1>9, <1>10, <1>11, <1>12 DEF KycNext

LEMMA KycInductive == KycSpec => []KycInv
  BY KycInitInv, KycStepInv, PTL DEF KycSpec

\* Every reachable state of the KYC service is well typed.
THEOREM KycTypeCorrect == KycSpec => []KycTypeOK
<1>1. KycInv => KycTypeOK
  BY DEF KycInv
<1> QED
  BY <1>1, KycInductive, PTL

\* However late, repeated or reordered the answers, the starts and the messages
\* are, a record says APPROVED only if zkMe passed its user, a session was
\* verified or somebody posted a claim about the user.
THEOREM ApprovalsSourced == KycSpec => []ApprovalsHaveASource
<1>1. KycInv => ApprovalsHaveASource
  BY DEF KycInv
<1> QED
  BY <1>1, KycInductive, PTL

\* Nobody passes the gate of a large swap whom zkMe did not pass, whatever is
\* posted to the webhook and whichever sessions clients name.
THEOREM GatesHold == KycSpec => []GatesNeedZkMe
<1>1. KycInv => GatesNeedZkMe
  BY DEF KycInv, RowIsBacked, GatesNeedZkMe, CheckSwapKyc, RequiredForSwap,
         UserKycVerified
<1> QED
  BY <1>1, KycInductive, PTL

----------------------------------------------------------------------------
(* The order of the row's answers.  A task that asked later knows at least *)
(* as many of zkMe's decisions; two tasks for a user under way at once mark *)
(* the user.                                                               *)

TaskFor(x, u) == x \in pending /\ x.by = Task /\ x.user = u

RowInOrder ==
    /\ \A u \in KycUsers : rowAsOf[u] <= Len(verdicts[u])
    /\ \A u \in KycUsers \ overlapped, x, y \in pending :
          (TaskFor(x, u) /\ TaskFor(y, u)) => x = y
    /\ \A u \in KycUsers \ overlapped, x \in pending :
          TaskFor(x, u) => rowAsOf[u] <= x.asked
    /\ \A x \in pending : x.asked <= Len(verdicts[x.user])

LEMMA WriteKeepsOrder ==
    ASSUME KycInv, RowInOrder, NEW by \in WebProcesses \cup {Task},
           NEW u \in KycUsers, \E s \in Statuses : AboutToWrite(by, u, s),
           UNCHANGED <<verdicts, rowAsOf>>,
           overlapped \subseteq overlapped',
           \A x \in pending : (by = Task /\ x.by = Task /\ x.user = u) => u \in overlapped'
    PROVE  RowInOrder'
<1>1. PICK s \in Statuses : AboutToWrite(by, u, s)
  OBVIOUS
<1> DEFINE new == [by |-> by, user |-> u, status |-> s,
                   asked |-> Len(verdicts[u]), call |-> calls]
<1>3. new.by = by /\ new.user = u /\ new.asked = Len(verdicts[u])
  OBVIOUS
<1>6. /\ pending' = pending \cup {new}
      /\ \A v \in KycUsers : Len(verdicts[v]) \in Nat /\ rowAsOf[v] \in Nat
  BY <1>1 DEF KycInv, KycTypeOK, AboutToWrite
<1> HIDE DEF new
<1>7. \A v \in KycUsers : rowAsOf'[v] <= Len(verdicts'[v])
  BY DEF RowInOrder
<1>8. \A x \in pending' : x.asked <= Len(verdicts'[x.user])
  BY <1>3, <1>6 DEF RowInOrder
<1>9. ASSUME NEW v \in KycUsers \ overlapped', NEW x \in pending', NEW y \in pending',
             x.by = Task, x.user = v, y.by = Task, y.user = v
      PROVE  x = y
  BY <1>3, <1>6, <1>9 DEF RowInOrder, TaskFor
<1>10. ASSUME NEW v \in KycUsers \ overlapped', NEW x \in pending',
              x.by = Task, x.user = v
       PROVE  rowAsOf'[v] <= x.asked
  <2>1. CASE x \in pending
    BY <1>10, <2>1 DEF RowInOrder, TaskFor
  <2>2. CASE x = new
    BY <1>3, <1>10, <2>2 DEF RowInOrder
  <2> QED
    BY <1>6, <2>1, <2>2
<1> QED
  BY <1>7, <1>8, <1>9, <1>10 DEF RowInOrder, TaskFor

LEMMA KycStepOrder ==
    ASSUME KycInv, RowInOrder, [KycNext]_kycVars
    PROVE  RowInOrder'
<1>1. CASE UNCHANGED kycVars
  BY <1>1 DEF kycVars, RowInOrder, TaskFor
<1>2. ASSUME NEW by \in WebProcesses \cup {Task}, NEW u \in KycUsers,
             NEW pr \in Providers, NEW session \in Sessions, Ask(by, u, pr, session)
      PROVE  RowInOrder'
  <2>1. \E s \in Statuses : AboutToWrite(by, u, s)
    BY <1>2, AnswersAreBacked DEF Ask, KycInv
  <2>2. /\ UNCHANGED <<verdicts, rowAsOf>>
        /\ overlapped \subseteq overlapped'
        /\ \A x \in pending :
              (by = Task /\ x.by = Task /\ x.user = u) => u \in overlapped'
    BY <1>2 DEF Ask
  <2> QED
    BY <2>1, <2>2, WriteKeepsOrder
<1>8. ASSUME NEW p \in WebProcesses, NEW u \in KycUsers, StartVerification(p, u)
      PROVE  RowInOrder'
  <2>1. AboutToWrite(p, u, "pending") /\ "pending" \in Statuses
    BY <1>8 DEF StartVerification, Statuses
  <2>2. UNCHANGED <<verdicts, rowAsOf, overlapped>> /\ p # Task
    BY <1>8 DEF StartVerification
  <2> QED
    BY <2>1, <2>2, WriteKeepsOrder
<1>3. ASSUME NEW x \in pending, Apply(x)
      PROVE  RowInOrder'
  <2>1. /\ pending' = pending \ {x}
        /\ UNCHANGED <<verdicts, overlapped>>
    BY <1>3 DEF Apply
  <2>2. x.user \in KycUsers /\ x.asked \in Nat
    BY DEF KycInv, KycTypeOK, Pending
  <2>3. CASE x.by # Task
    <3>1. UNCHANGED rowAsOf
      BY <1>3, <2>3 DEF Apply, IsForRow
    <3> QED
      BY <2>1, <3>1 DEF RowInOrder, TaskFor
  <2>4. CASE x.by = Task
    <3>1. rowAsOf' = [rowAsOf EXCEPT ![x.user] = x.asked]
      BY <1>3, <2>4 DEF Apply, IsForRow
    <3>2. \A u \in KycUsers :
             rowAsOf'[u] = IF u = x.user THEN x.asked ELSE rowAsOf[u]
      BY <3>1 DEF KycInv, KycTypeOK
    <3>3. ASSUME NEW u \in KycUsers \ overlapped, NEW y \in pending',
                 y.by = Task, y.user = u
          PROVE  rowAsOf'[u] <= y.asked
      BY <2>1, <2>4, <3>2, <3>3 DEF RowInOrder, TaskFor
    <3> QED
      BY <2>1, <3>2, <3>3 DEF RowInOrder, TaskFor
  <2> QED
    BY <2>3, <2>4
<1>4. ASSUME NEW u \in KycUsers, NEW w \in Words, ZkMeDecides(u, w)
      PROVE  RowInOrder'
  <2>1. /\ verdicts' = [verdicts EXCEPT ![u] = Append(@, w)]
        /\ UNCHANGED <<pending, rowAsOf, overlapped>>
    BY <1>4 DEF ZkMeDecides
  <2>2. \A v \in KycUsers : /\ Len(verdicts'[v]) \in Nat /\ Len(verdicts[v]) \in Nat
                            /\ Len(verdicts[v]) <= Len(verdicts'[v])
                            /\ rowAsOf[v] \in Nat
    BY <2>1 DEF KycInv, KycTypeOK
  <2>3. \A x \in pending : x.user \in KycUsers /\ x.asked \in Nat
    BY DEF KycInv, KycTypeOK, Pending
  <2> QED
    BY <2>1, <2>2, <2>3 DEF RowInOrder, TaskFor
<1>5. ASSUME /\ pending' \subseteq pending
             /\ UNCHANGED <<verdicts, rowAsOf, overlapped>>
      PROVE  RowInOrder'
  BY <1>5 DEF RowInOrder, TaskFor
<1>6. CASE \/ \E s \in SessionIds : PrivadoVerifies(s)
           \/ \E p \in WebProcesses, m \in Messages : Webhook(p, m)
           \/ \E p \in WebProcesses : Restart(p)
  BY <1>5, <1>6 DEF PrivadoVerifies, Webhook, Restart
<1>7. KycNext =>
        \/ \E by \in WebProcesses \cup {Task}, u \in KycUsers, pr \in Providers,
              session \in Sessions : Ask(by, u, pr, session)
        \/ \E x \in pending : Apply(x)
        \/ \E u \in KycUsers, w \in Words : ZkMeDecides(u, w)
        \/ \E s \in SessionIds : PrivadoVerifies(s)
        \/ \E p \in WebProcesses, u \in KycUsers : StartVerification(p, u)
        \/ \E p \in WebProcesses, m \in Messages : Webhook(p, m)
        \/ \E p \in WebProcesses : Restart(p)
  BY DEF KycNext, Refresh, RefreshKycTask, ZkMeWebhook, Providers, Sessions
<1> QED
  BY <1>1, <1>2, <1>3, <1>4, <1>6, <1>7, <1>8

RegressesOnlyByOverlap ==
    \A u \in KycUsers : rowAsOf'[u] < rowAsOf[u] => u \in overlapped

LEMMA KycStepRow ==
    ASSUME KycInv, RowInOrder, [KycNext]_kycVars
    PROVE  RegressesOnlyByOverlap
<1>1. CASE UNCHANGED rowAsOf
  BY <1>1 DEF RegressesOnlyByOverlap, KycInv, KycTypeOK
<1>2. ASSUME NEW x \in pending, Apply(x), x.by = Task
      PROVE  RegressesOnlyByOverlap
  <2>1. rowAsOf' = [rowAsOf EXCEPT ![x.user] = x.asked]
    BY <1>2 DEF Apply, IsForRow
  <2>2. \A u \in KycUsers :
           rowAsOf'[u] = IF u = x.user THEN x.asked ELSE rowAsOf[u]
    BY <2>1 DEF KycInv, KycTypeOK
  <2>3. x.user \in KycUsers /\ x.asked \in Nat
    BY DEF KycInv, KycTypeOK, Pending
  <2>4. \A u \in KycUsers : rowAsOf[u] \in Nat
    BY DEF KycInv, KycTypeOK
  <2>5. x.user \notin overlapped => rowAsOf[x.user] <= x.asked
    BY <1>2, <2>3 DEF RowInOrder, TaskFor
  <2> QED
    BY <2>2, <2>3, <2>4, <2>5 DEF RegressesOnlyByOverlap
<1>3. UNCHANGED rowAsOf \/ \E x \in pending : Apply(x) /\ x.by = Task
  BY DEF KycNext, kycVars, ZkMeDecides, PrivadoVerifies, StartVerification, Refresh, Ask,
         RefreshKycTask, ZkMeWebhook, Webhook, Apply, IsForRow, Restart
<1> QED
  BY <1>1, <1>2, <1>3

\* The row goes back to an older answer of zkMe only for a user for whom two
\* refresh tasks were under way at once.
THEOREM RowRegresses == KycSpec => RowsRegressOnlyByOverlap
<1>1. KycInit => RowInOrder
  BY DEF KycInit, RowInOrder, TaskFor
<1>2. KycInv /\ RowInOrder /\ [KycNext]_kycVars => RowInOrder'
  BY KycStepOrder
<1>3. KycInv /\ RowInOrder /\ [KycNext]_kycVars => [RegressesOnlyByOverlap]_kycVars
  BY KycStepRow
<1>4. KycSpec => [][RegressesOnlyByOverlap]_kycVars
  BY <1>1, <1>2, <1>3, KycInductive, PTL DEF KycSpec
<1> QED
  BY <1>4 DEF RowsRegressOnlyByOverlap, RegressesOnlyByOverlap

----------------------------------------------------------------------------
USE WalletAssumption, SecretsAssumption

(* WalletOrders                                                            *)

LEMMA ElementOf ==
    ASSUME NEW T, NEW s \in Seq(T), NEW i \in DOMAIN s
    PROVE  s[i] \in T
  OBVIOUS

LEMMA Appending ==
    ASSUME NEW T, NEW s \in Seq(T), NEW e \in T
    PROVE  /\ DOMAIN Append(s, e) = DOMAIN s \cup {Len(s) + 1}
           /\ \A i \in DOMAIN s : Append(s, e)[i] = s[i]
           /\ Append(s, e)[Len(s) + 1] = e
           /\ Len(s) + 1 \notin DOMAIN s
  OBVIOUS

LEMMA BuiltTyped ==
    ASSUME WalletTypeOK, NEW i \in DOMAIN built
    PROVE  /\ built[i] \in [at : WalletProcesses, data : TypedData]
           /\ built[i].at \in WalletProcesses /\ built[i].data \in TypedData
<1>1. built \in Seq([at : WalletProcesses, data : TypedData])
  BY DEF WalletTypeOK
<1>2. built[i] \in [at : WalletProcesses, data : TypedData]
  BY <1>1, ElementOf
<1> QED
  BY <1>2

LEMMA OrdersTyped ==
    ASSUME WalletTypeOK, NEW p \in WalletProcesses, NEW i \in DOMAIN orders[p]
    PROVE  orders[p][i] \in TypedData /\ orders[p][i].nonce \in Nat
<1>1. orders[p] \in Seq(TypedData)
  BY DEF WalletTypeOK
<1>2. orders[p][i] \in TypedData
  BY <1>1, ElementOf
<1> QED
  BY <1>2 DEF TypedData

LEMMA SubmittableTyped ==
    ASSUME WalletTypeOK, NEW data \in Submittable
    PROVE  data \in TypedData
<1>1. CASE data \in [trader : Traders, nonce : OwnNonces, trade : Trades]
  BY <1>1 DEF TypedData
<1>2. CASE data \in {built[i].data : i \in DOMAIN built}
  <2>1. PICK i \in DOMAIN built : data = built[i].data
    BY <1>2
  <2> QED
    BY <2>1, BuiltTyped
<1> QED
  BY <1>1, <1>2 DEF Submittable

----------------------------------------------------------------------------
LEMMA WalletInitType == WalletInit => WalletTypeOK
<1> SUFFICES ASSUME WalletInit PROVE WalletTypeOK
  OBVIOUS
<1>1. built \in Seq([at : WalletProcesses, data : TypedData])
  BY DEF WalletInit
<1>2. orders \in [WalletProcesses -> Seq(TypedData)]
  BY DEF WalletInit
<1> QED
  BY <1>1, <1>2 DEF WalletInit, WalletTypeOK

LEMMA WalletStepType == WalletTypeOK /\ [WalletNext]_walletVars => WalletTypeOK'
<1> SUFFICES ASSUME WalletTypeOK, [WalletNext]_walletVars PROVE WalletTypeOK'
  OBVIOUS
<1>1. CASE UNCHANGED walletVars
  BY <1>1 DEF walletVars, WalletTypeOK
<1>2. ASSUME NEW m \in Modes, NEW a \in BOOLEAN, CreateSession(m, a)
      PROVE  WalletTypeOK'
  BY <1>2 DEF CreateSession, WalletTypeOK
<1>3. ASSUME NEW p \in WalletProcesses, NEW t \in Traders, NEW c \in Trades,
             BuildOrder(p, t, c)
      PROVE  WalletTypeOK'
  <2> DEFINE data == [trader |-> t, nonce |-> nextNonce[p][t], trade |-> c]
  <2>1. data \in TypedData
    BY DEF WalletTypeOK, TypedData
  <2>2. [at |-> p, data |-> data] \in [at : WalletProcesses, data : TypedData]
    BY <2>1
  <2>3. /\ built' = Append(built, [at |-> p, data |-> data])
        /\ disorderly' \subseteq disorderly \cup {t}
        /\ UNCHANGED <<nextNonce, sessions, signers, orders>>
    BY <1>3 DEF BuildOrder
  <2> HIDE DEF data
  <2>4. built' \in Seq([at : WalletProcesses, data : TypedData])
    BY <2>2, <2>3 DEF WalletTypeOK
  <2> QED
    BY <2>3, <2>4 DEF WalletTypeOK
<1>4. ASSUME NEW t \in Traders, WalletSigns(t)
      PROVE  WalletTypeOK'
  BY <1>4 DEF WalletSigns, WalletTypeOK
<1>5. ASSUME NEW p \in WalletProcesses, NEW data \in Submittable,
             NEW signer \in Traders, SubmitSignedOrder(p, data, signer)
      PROVE  WalletTypeOK'
  <2>1. data \in TypedData
    BY SubmittableTyped
  <2>2. data.trader \in Traders /\ data.nonce \in Nat
    BY <2>1 DEF TypedData
  <2>3. /\ orders' = [orders EXCEPT ![p] = Append(@, data)]
        /\ nextNonce' = [nextNonce EXCEPT ![p][data.trader] = NonceAfter(data)]
        /\ disorderly' \subseteq disorderly \cup {data.trader}
        /\ UNCHANGED <<sessions, built, signers>>
    BY <1>5 DEF SubmitSignedOrder
  <2>4. orders' \in [WalletProcesses -> Seq(TypedData)]
    BY <2>1, <2>3 DEF WalletTypeOK
  <2>5. nextNonce' \in [WalletProcesses -> [Traders -> Nat]]
    BY <2>2, <2>3 DEF WalletTypeOK, NonceAfter
  <2> QED
    BY <2>2, <2>3, <2>4, <2>5 DEF WalletTypeOK
<1> QED
  BY <1>1, <1>2, <1>3, <1>4, <1>5 DEF WalletNext

LEMMA WalletTyped == WalletSpec => []WalletTypeOK
  BY WalletInitType, WalletStepType, PTL DEF WalletSpec

----------------------------------------------------------------------------
(* What the steps do to the orders and to the typed data handed out.       *)

LEMMA Submitting ==
    ASSUME WalletTypeOK, NEW p \in WalletProcesses, NEW data \in Submittable,
           NEW signer \in Traders, SubmitSignedOrder(p, data, signer)
    PROVE  \A q \in WalletProcesses :
              /\ \A i \in DOMAIN orders'[q] :
                    \/ i \in DOMAIN orders[q] /\ orders'[q][i] = orders[q][i]
                    \/ q = p /\ i = Len(orders[p]) + 1 /\ orders'[q][i] = data
              /\ q = p => Len(orders[p]) + 1 \in DOMAIN orders'[p]
                          /\ orders'[p][Len(orders[p]) + 1] = data
              /\ \A i \in DOMAIN orders[q] :
                    i \in DOMAIN orders'[q] /\ orders'[q][i] = orders[q][i]
<1>1. orders' = [orders EXCEPT ![p] = Append(@, data)]
  BY DEF SubmitSignedOrder
<1>2. \A q \in WalletProcesses :
         /\ orders[q] \in Seq(TypedData)
         /\ orders'[q] = IF q = p THEN Append(orders[p], data) ELSE orders[q]
  BY <1>1 DEF WalletTypeOK
<1>3. data \in TypedData
  BY SubmittableTyped
<1>4. /\ DOMAIN orders'[p] = DOMAIN orders[p] \cup {Len(orders[p]) + 1}
      /\ \A i \in DOMAIN orders[p] : orders'[p][i] = orders[p][i]
      /\ orders'[p][Len(orders[p]) + 1] = data
      /\ Len(orders[p]) + 1 \notin DOMAIN orders[p]
  <2>1. orders[p] \in Seq(TypedData) /\ orders'[p] = Append(orders[p], data)
    BY <1>2
  <2> QED
    BY <1>3, <2>1, Appending
<1> QED
  BY <1>2, <1>4

LEMMA Building ==
    ASSUME WalletTypeOK, NEW p \in WalletProcesses, NEW t \in Traders,
           NEW c \in Trades, BuildOrder(p, t, c), NEW u \in Traders
    PROVE  BuiltFor(u)' = IF u = t
                          THEN BuiltFor(u) \cup
                               {[at |-> p, data |-> [trader |-> t,
                                 nonce |-> nextNonce[p][t], trade |-> c]]}
                          ELSE BuiltFor(u)
<1> DEFINE new == [at |-> p, data |-> [trader |-> t, nonce |-> nextNonce[p][t],
                                       trade |-> c]]
<1>1. built' = Append(built, new) /\ new.data.trader = t
  BY DEF BuildOrder
<1>a. new \in [at : WalletProcesses, data : TypedData]
  <2>1. nextNonce[p][t] \in Nat
    BY DEF WalletTypeOK
  <2> QED
    BY <2>1 DEF TypedData
<1> HIDE DEF new
<1>2. /\ DOMAIN built' = DOMAIN built \cup {Len(built) + 1}
      /\ \A i \in DOMAIN built : built'[i] = built[i]
      /\ built'[Len(built) + 1] = new
  <2>1. built \in Seq([at : WalletProcesses, data : TypedData])
    BY DEF WalletTypeOK
  <2> QED
    BY <1>1, <1>a, <2>1, Appending
<1>3. BuiltFor(u)' = {built'[i] : i \in {j \in DOMAIN built' : built'[j].data.trader = u}}
  BY DEF BuiltFor
<1>4. BuiltFor(u)' \subseteq BuiltFor(u) \cup (IF u = t THEN {new} ELSE {})
  BY <1>1, <1>2, <1>3 DEF BuiltFor
<1>5. BuiltFor(u) \subseteq BuiltFor(u)'
  BY <1>2, <1>3 DEF BuiltFor
<1>6. u = t => new \in BuiltFor(u)'
  BY <1>1, <1>2, <1>3
<1> QED
  BY <1>4, <1>5, <1>6 DEF new

----------------------------------------------------------------------------
(* The nonces of a trader in good order: one process serves the trader, its *)
(* open orders came from there with nonces below the next one, and at most  *)
(* one order handed out is not submitted yet and has the next nonce.        *)

Waiting(b) == ~Stored(b.at, b.data)

Orderly(t) ==
    /\ \A b, c \in BuiltFor(t) : b.at = c.at
    /\ \A p \in WalletProcesses : \A i \in DOMAIN orders[p] :
          orders[p][i].trader = t =>
             /\ [at |-> p, data |-> orders[p][i]] \in BuiltFor(t)
             /\ orders[p][i].nonce < nextNonce[p][t]
    /\ \A p \in WalletProcesses : \A i, j \in DOMAIN orders[p] :
          (orders[p][i].trader = t /\ orders[p][j].trader = t
             /\ orders[p][i].nonce = orders[p][j].nonce) => i = j
    /\ \A b \in BuiltFor(t) : Waiting(b) => b.data.nonce = nextNonce[b.at][t]
    /\ \A b, c \in BuiltFor(t) : (Waiting(b) /\ Waiting(c)) => b = c

NonceInv == \A t \in Traders \ disorderly : Orderly(t)

LEMMA BuiltHaveType ==
    ASSUME WalletTypeOK, NEW t \in Traders, NEW b \in BuiltFor(t)
    PROVE  b.at \in WalletProcesses /\ b.data.trader = t
<1>1. PICK i \in DOMAIN built : b = built[i] /\ built[i].data.trader = t
  BY DEF BuiltFor
<1> QED
  BY <1>1, BuiltTyped

LEMMA BuildKeepsOrder ==
    ASSUME WalletTypeOK, NonceInv, NEW p \in WalletProcesses, NEW u \in Traders,
           NEW c \in Trades, BuildOrder(p, u, c)
    PROVE  NonceInv'
<1> DEFINE new == [at |-> p, data |-> [trader |-> u, nonce |-> nextNonce[p][u],
                                       trade |-> c]]
<1>1. /\ UNCHANGED <<orders, nextNonce>>
      /\ disorderly \subseteq disorderly'
      /\ u \notin disorderly' =>
            \A b \in BuiltFor(u) : b.at = p /\ Stored(p, b.data)
  BY DEF BuildOrder
<1>2. \A t \in Traders :
         BuiltFor(t)' = IF t = u THEN BuiltFor(t) \cup {new} ELSE BuiltFor(t)
  BY Building
<1>3. new.at = p /\ new.data.nonce = nextNonce[p][u]
  OBVIOUS
<1> HIDE DEF new
<1>4. \A b : Waiting(b)' = Waiting(b)
  BY <1>1 DEF Waiting, Stored
<1>5. ASSUME NEW t \in Traders \ disorderly'
      PROVE  Orderly(t)'
  <2>1. Orderly(t)
    BY <1>1 DEF NonceInv
  <2>2. CASE t # u
    <3>1. BuiltFor(t)' = BuiltFor(t)
      BY <1>2, <2>2
    <3> QED
      BY <1>1, <1>4, <2>1, <3>1 DEF Orderly
  <2>3. CASE t = u
    <3>1. BuiltFor(t)' = BuiltFor(t) \cup {new}
      BY <1>2, <2>3
    <3>2. \A b \in BuiltFor(t) : b.at = p /\ ~Waiting(b)
      BY <1>1, <2>3 DEF Waiting
    <3> QED
      BY <1>1, <1>3, <1>4, <2>1, <2>3, <3>1, <3>2 DEF Orderly
  <2> QED
    BY <2>2, <2>3
<1> QED
  BY <1>5 DEF NonceInv

LEMMA SubmitKeepsOrder ==
    ASSUME WalletTypeOK, NonceInv, NEW p \in WalletProcesses,
           NEW data \in Submittable, NEW signer \in Traders,
           SubmitSignedOrder(p, data, signer)
    PROVE  NonceInv'
<1> DEFINE u == data.trader
           this == [at |-> p, data |-> data]
<1>1. data \in TypedData /\ u \in Traders /\ data.nonce \in Nat
  BY SubmittableTyped DEF TypedData
<1>2. /\ UNCHANGED built
      /\ disorderly \subseteq disorderly'
      /\ u \notin disorderly' =>
            /\ ~Stored(p, data)
            /\ this \in BuiltFor(u)
            /\ \A b \in BuiltFor(u) : b.at = p
      /\ nextNonce' = [nextNonce EXCEPT ![p][u] = data.nonce + 1]
  BY DEF SubmitSignedOrder, NonceAfter
<1>3. \A q \in WalletProcesses, t \in Traders :
         nextNonce'[q][t] = IF q = p /\ t = u THEN data.nonce + 1
                            ELSE nextNonce[q][t]
  BY <1>1, <1>2 DEF WalletTypeOK
<1>4. \A t \in Traders : BuiltFor(t)' = BuiltFor(t)
  BY <1>2 DEF BuiltFor
<1>5. \A q \in WalletProcesses : \A d :
         Stored(q, d)' <=> Stored(q, d) \/ (q = p /\ d = data)
  BY Submitting DEF Stored
<1>6. ASSUME NEW t \in Traders \ disorderly'
      PROVE  Orderly(t)'
  <2>1. Orderly(t)
    BY <1>2 DEF NonceInv
  <2>2. \A b \in BuiltFor(t) : b.at \in WalletProcesses /\ b.data.trader = t
    BY BuiltHaveType
  <2>3. \A q \in WalletProcesses : nextNonce[q][t] \in Nat
    BY DEF WalletTypeOK
  <2>4. CASE t # u
    <3>1. \A b \in BuiltFor(t) : Waiting(b)' = Waiting(b)
      BY <1>5, <2>2, <2>4 DEF Waiting
    <3>2. \A q \in WalletProcesses : \A i \in DOMAIN orders'[q] :
             orders'[q][i].trader = t =>
                i \in DOMAIN orders[q] /\ orders'[q][i] = orders[q][i]
      BY <2>4, Submitting
    <3>3. \A q \in WalletProcesses : nextNonce'[q][t] = nextNonce[q][t]
      BY <1>3, <2>4
    <3>4. \A b \in BuiltFor(t) : b.at \in WalletProcesses
                                 /\ nextNonce'[b.at][t] = nextNonce[b.at][t]
      BY <2>2, <3>3
    <3>5. \A q \in WalletProcesses : \A i \in DOMAIN orders'[q] :
             orders'[q][i].trader = t =>
                /\ [at |-> q, data |-> orders'[q][i]] \in BuiltFor(t)
                /\ orders'[q][i].nonce < nextNonce'[q][t]
      BY <2>1, <3>2, <3>3 DEF Orderly
    <3>6. \A q \in WalletProcesses : \A i, j \in DOMAIN orders'[q] :
             (orders'[q][i].trader = t /\ orders'[q][j].trader = t
                /\ orders'[q][i].nonce = orders'[q][j].nonce) => i = j
      BY <2>1, <3>2 DEF Orderly
    <3>7. /\ \A b, c \in BuiltFor(t) : b.at = c.at
          /\ \A b \in BuiltFor(t) : Waiting(b)' => b.data.nonce = nextNonce'[b.at][t]
          /\ \A b, c \in BuiltFor(t) : (Waiting(b)' /\ Waiting(c)') => b = c
      BY <2>1, <3>1, <3>4 DEF Orderly
    <3> QED
      BY <1>4, <3>5, <3>6, <3>7 DEF Orderly
  <2>5. CASE t = u
    <3>1. /\ ~Stored(p, data) /\ this \in BuiltFor(t)
          /\ \A b \in BuiltFor(t) : b.at = p
      BY <1>2, <2>5
    <3>2. Waiting(this)
      BY <3>1 DEF Waiting
    <3>3. data.nonce = nextNonce[p][t]
      BY <2>1, <3>1, <3>2 DEF Orderly
    <3>4. \A b \in BuiltFor(t) : ~Waiting(b)'
      BY <1>5, <2>1, <2>2, <3>1, <3>2 DEF Orderly, Waiting
    <3>5. \A q \in WalletProcesses : \A i \in DOMAIN orders'[q] :
             orders'[q][i].trader = t =>
                \/ /\ i \in DOMAIN orders[q] /\ orders'[q][i] = orders[q][i]
                   /\ q = p /\ orders[q][i].nonce < nextNonce[p][t]
                   /\ [at |-> q, data |-> orders[q][i]] \in BuiltFor(t)
                \/ q = p /\ i = Len(orders[p]) + 1 /\ orders'[q][i] = data
      <4>1. \A q \in WalletProcesses : \A d : [at |-> q, data |-> d] \in BuiltFor(t) => q = p
        BY <3>1
      <4> QED
        BY <2>1, <4>1, Submitting DEF Orderly
    <3>6. \A q \in WalletProcesses : \A i \in DOMAIN orders'[q] :
             orders'[q][i].trader = t =>
                /\ [at |-> q, data |-> orders'[q][i]] \in BuiltFor(t)
                /\ orders'[q][i].nonce < nextNonce'[q][t]
      <4>1. \A q \in WalletProcesses : \A i \in DOMAIN orders[q] :
               orders[q][i].nonce \in Nat
        BY OrdersTyped
      <4>2. nextNonce'[p][t] = nextNonce[p][t] + 1
        BY <1>3, <2>5, <3>3
      <4> SUFFICES ASSUME NEW q \in WalletProcesses, NEW i \in DOMAIN orders'[q],
                          orders'[q][i].trader = t
                   PROVE  /\ [at |-> q, data |-> orders'[q][i]] \in BuiltFor(t)
                          /\ orders'[q][i].nonce < nextNonce'[q][t]
        OBVIOUS
      <4>3. CASE /\ i \in DOMAIN orders[q] /\ orders'[q][i] = orders[q][i]
                 /\ q = p /\ orders[q][i].nonce < nextNonce[p][t]
                 /\ [at |-> q, data |-> orders[q][i]] \in BuiltFor(t)
        <5>1. orders[q][i].nonce \in Nat /\ nextNonce[p][t] \in Nat
          BY <2>3, <4>1, <4>3
        <5> QED
          BY <4>2, <4>3, <5>1
      <4>4. CASE q = p /\ i = Len(orders[p]) + 1 /\ orders'[q][i] = data
        BY <1>1, <3>1, <3>3, <4>2, <4>4
      <4> QED
        BY <3>5, <4>3, <4>4
    <3>7. \A q \in WalletProcesses : \A i, j \in DOMAIN orders'[q] :
             (orders'[q][i].trader = t /\ orders'[q][j].trader = t
                /\ orders'[q][i].nonce = orders'[q][j].nonce) => i = j
      <4>1. \A q \in WalletProcesses : \A i \in DOMAIN orders[q] :
               orders[q][i].nonce \in Nat
        BY OrdersTyped
      <4> SUFFICES ASSUME NEW q \in WalletProcesses,
                          NEW i \in DOMAIN orders'[q], NEW j \in DOMAIN orders'[q],
                          orders'[q][i].trader = t, orders'[q][j].trader = t,
                          orders'[q][i].nonce = orders'[q][j].nonce
                   PROVE  i = j
        OBVIOUS
      <4> DEFINE Old(k) == /\ k \in DOMAIN orders[q] /\ orders'[q][k] = orders[q][k]
                           /\ orders[q][k].nonce < data.nonce
                 New(k) == /\ k = Len(orders[p]) + 1 /\ orders'[q][k] = data
      <4>2. /\ Old(i) \/ New(i)
            /\ Old(j) \/ New(j)
        BY <3>3, <3>5
      <4>3. CASE Old(i) /\ Old(j)
        BY <2>1, <4>3 DEF Orderly
      <4>4. CASE New(i) /\ New(j)
        BY <4>4
      <4>5. CASE Old(i) /\ New(j)
        BY <1>1, <4>1, <4>5
      <4>6. CASE New(i) /\ Old(j)
        BY <1>1, <4>1, <4>6
      <4> QED
        BY <4>2, <4>3, <4>4, <4>5, <4>6
    <3>8. \A b, c \in BuiltFor(t) : b.at = c.at
      BY <3>1
    <3> QED
      BY <1>4, <3>4, <3>6, <3>7, <3>8 DEF Orderly
  <2> QED
    BY <2>4, <2>5
<1> QED
  BY <1>6 DEF NonceInv

LEMMA StepNonce ==
    ASSUME WalletTypeOK, NonceInv, [WalletNext]_walletVars
    PROVE  NonceInv'
<1>1. CASE UNCHANGED <<nextNonce, built, orders, disorderly>>
  <2>1. ASSUME NEW t \in Traders PROVE BuiltFor(t)' = BuiltFor(t)
    BY <1>1 DEF BuiltFor
  <2>2. ASSUME NEW b PROVE Waiting(b)' = Waiting(b)
    BY <1>1 DEF Waiting, Stored
  <2>3. ASSUME NEW t \in Traders \ disorderly PROVE Orderly(t)'
    <3>1. Orderly(t)
      BY DEF NonceInv
    <3> QED
      BY <1>1, <2>1, <2>2, <3>1 DEF Orderly
  <2> QED
    BY <1>1, <2>3 DEF NonceInv
<1>2. \/ UNCHANGED <<nextNonce, built, orders, disorderly>>
      \/ \E p \in WalletProcesses, t \in Traders, c \in Trades : BuildOrder(p, t, c)
      \/ \E p \in WalletProcesses, data \in Submittable, signer \in Traders :
            SubmitSignedOrder(p, data, signer)
  BY DEF WalletNext, walletVars, CreateSession, WalletSigns
<1> QED
  BY <1>1, <1>2, BuildKeepsOrder, SubmitKeepsOrder

LEMMA NonceInvImplies ==
    ASSUME WalletTypeOK, NonceInv
    PROVE  OrderlyTradersReuseNoNonce
<1> SUFFICES ASSUME NEW t \in Traders \ disorderly,
                    NEW p \in WalletProcesses, NEW q \in WalletProcesses,
                    NEW i \in DOMAIN orders[p], NEW j \in DOMAIN orders[q],
                    orders[p][i].trader = t, orders[q][j].trader = t,
                    orders[p][i].nonce = orders[q][j].nonce
             PROVE  <<p, i>> = <<q, j>>
  BY DEF OrderlyTradersReuseNoNonce
<1>1. Orderly(t)
  BY DEF NonceInv
<1>2. /\ [at |-> p, data |-> orders[p][i]] \in BuiltFor(t)
      /\ [at |-> q, data |-> orders[q][j]] \in BuiltFor(t)
  BY <1>1 DEF Orderly
<1>3. p = q
  <2>1. \A b, c \in BuiltFor(t) : b.at = c.at
    BY <1>1 DEF Orderly
  <2> QED
    BY <1>2, <2>1
<1>4. i = j
  BY <1>1, <1>3 DEF Orderly
<1> QED
  BY <1>3, <1>4

\* A trader who waits for each order to be submitted before building the next,
\* in one process, never has two open orders under one nonce.
THEOREM NoNonceReused == WalletSpec => []OrderlyTradersReuseNoNonce
<1>1. WalletInit => NonceInv
  BY DEF WalletInit, NonceInv, Orderly, BuiltFor
<1>2. WalletTypeOK /\ NonceInv /\ [WalletNext]_walletVars => NonceInv'
  BY StepNonce
<1>3. WalletTypeOK /\ NonceInv => OrderlyTradersReuseNoNonce
  BY NonceInvImplies
<1> QED
  BY <1>1, <1>2, <1>3, WalletTyped, PTL DEF WalletSpec

----------------------------------------------------------------------------
(* SecretsStore                                                            *)

LEMMA ElseTyped ==
    ASSUME NEW a \in MaybeKey, NEW b \in MaybeKey
    PROVE  Else(a, b) \in MaybeKey /\ SetDefault(a, b) \in MaybeKey
  BY DEF Else, SetDefault

LEMMA ReadTyped ==
    ASSUME SecretsTypeOK, NEW s \in Sources, NEW key \in Read(s)
    PROVE  key \in MaybeKey
  BY DEF SecretsTypeOK, Read, MaybeKey

LEMMA StepTyped ==
    ASSUME SecretsTypeOK, NEW t \in Threads, NEW step \in Steps,
           NEW key \in MaybeKey, Step(t, step, key)
    PROVE  /\ asking' \in [Threads -> [step : Steps, key : MaybeKey]]
           /\ asking'[t] = [step |-> step, key |-> key]
           /\ \A u \in Threads \ {t} : asking'[u] = asking[u]
           /\ UNCHANGED <<source, loading, rotations, loads, processes>>
<1>1. /\ asking' = [asking EXCEPT ![t] = [step |-> step, key |-> key]]
      /\ UNCHANGED <<source, loading, rotations, loads, processes>>
  BY DEF Step
<1>2. asking \in [Threads -> [step : Steps, key : MaybeKey]]
  BY DEF SecretsTypeOK
<1> QED
  BY <1>1, <1>2

LEMMA NoneTyped ==
    /\ NoKey \in MaybeKey
    /\ NotLoading \in [layer : Layers, key : MaybeKey]
    /\ NotAsking \in [step : Steps, key : MaybeKey]
  BY DEF NotLoading, NotAsking, Layers, Steps, MaybeKey

LEMMA SecretsInitType == SecretsInit => SecretsTypeOK
<1> SUFFICES ASSUME SecretsInit PROVE SecretsTypeOK
  OBVIOUS
<1>1. /\ source \in [Sources -> MaybeKey]
      /\ asking \in [Threads -> [step : Steps, key : MaybeKey]]
  BY NoneTyped DEF SecretsInit
<1>2. {environ, cache, configured} \subseteq MaybeKey
  BY NoneTyped DEF SecretsInit
<1>3. raced \in BOOLEAN
  BY DEF SecretsInit
<1>4. {rotations, loads, processes} \subseteq Nat
  BY DEF SecretsInit
<1>5. loading \in [layer : Layers, key : MaybeKey]
  BY NoneTyped DEF SecretsInit
<1> QED
  BY <1>1, <1>2, <1>3, <1>4, <1>5 DEF SecretsTypeOK

LEMMA LoadStepType ==
    ASSUME SecretsTypeOK,
           LoadDotenv \/ LoadVault \/ LoadAws \/ LoadKms \/ LoadCaches
    PROVE  SecretsTypeOK'
<1>1. /\ source \in [Sources -> MaybeKey] /\ environ \in MaybeKey
      /\ cache \in MaybeKey /\ loading.key \in MaybeKey
  BY DEF SecretsTypeOK
<1>2. CASE LoadDotenv
  <2>1. PICK key \in MaybeKey : /\ Loaded("vault", key)
                                /\ environ' = SetDefault(environ, key)
    BY <1>1, <1>2 DEF LoadDotenv, Sources, MaybeKey
  <2>2. environ' \in MaybeKey
    BY <1>1, <2>1, ElseTyped
  <2> QED
    BY <1>2, <2>1, <2>2 DEF LoadDotenv, SecretsTypeOK, Loaded, Layers
<1>3. ASSUME NEW layer \in {"vault", "kms"}, NEW next \in {"aws", "cache"},
             LoadInjected(layer, next)
      PROVE  SecretsTypeOK'
  <2>1. PICK key \in Read(layer) : /\ Loaded(next, Else(key, loading.key))
                                   /\ environ' = SetDefault(environ, key)
    BY <1>3 DEF LoadInjected
  <2>2. key \in MaybeKey
    BY ReadTyped DEF Sources
  <2>3. environ' \in MaybeKey /\ Else(key, loading.key) \in MaybeKey
    BY <1>1, <2>1, <2>2, ElseTyped
  <2> QED
    BY <1>3, <2>1, <2>3 DEF LoadInjected, SecretsTypeOK, Loaded, Layers
<1>4. CASE LoadAws
  <2>1. PICK key \in Read("aws") : Loaded("kms", Else(key, loading.key))
    BY <1>4 DEF LoadAws
  <2>2. Else(key, loading.key) \in MaybeKey
    BY <1>1, ReadTyped, ElseTyped DEF Sources
  <2> QED
    BY <1>4, <2>1, <2>2 DEF LoadAws, SecretsTypeOK, Loaded, Layers
<1>5. CASE LoadCaches
  <2>1. cache' \in MaybeKey
    BY <1>1, <1>5, ElseTyped DEF LoadCaches
  <2>2. loading' \in [layer : Layers, key : MaybeKey]
    BY <1>5, NoneTyped DEF LoadCaches
  <2> QED
    BY <1>5, <2>1, <2>2 DEF LoadCaches, SecretsTypeOK
<1> QED
  BY <1>2, <1>3, <1>4, <1>5 DEF LoadVault, LoadKms

LEMMA AskStepType ==
    ASSUME SecretsTypeOK, NEW t \in Threads,
           \/ AskKey(t) \/ FetchKey(t) \/ CacheKey(t) \/ ResolveKey(t)
           \/ CheckEnviron(t) \/ SetEnviron(t) \/ ReturnConfig(t)
    PROVE  SecretsTypeOK'
<1>1. /\ source \in [Sources -> MaybeKey] /\ environ \in MaybeKey
      /\ cache \in MaybeKey /\ configured \in MaybeKey
      /\ asking[t].key \in MaybeKey
  BY DEF SecretsTypeOK
<1>2. NoKey \in MaybeKey
  BY DEF MaybeKey
<1>3. ASSUME NEW step \in Steps, NEW key \in MaybeKey, Step(t, step, key),
             {environ', cache', configured'} \subseteq MaybeKey, raced' \in BOOLEAN
      PROVE  SecretsTypeOK'
  <2>1. /\ asking' \in [Threads -> [step : Steps, key : MaybeKey]]
        /\ UNCHANGED <<source, loading, rotations, loads, processes>>
    BY <1>3, StepTyped
  <2>2. /\ source' \in [Sources -> MaybeKey]
        /\ loading' \in [layer : Layers, key : MaybeKey]
    BY <2>1 DEF SecretsTypeOK
  <2>3. {rotations', loads', processes'} \subseteq Nat
    BY <2>1 DEF SecretsTypeOK
  <2> QED
    BY <1>3, <2>1, <2>2, <2>3 DEF SecretsTypeOK
<1>4. raced \in BOOLEAN /\ Busy(t) \in BOOLEAN
  BY DEF SecretsTypeOK, Busy
<1>5. CASE AskKey(t)
  <2>1. CASE environ # NoKey
    BY <1>1, <1>5, <2>1 DEF AskKey, SecretsTypeOK
  <2>2. CASE environ = NoKey
    <3>1. /\ Step(t, IF cache # NoKey THEN "resolved" ELSE "vault", cache)
          /\ raced' = (raced \/ Busy(t))
          /\ UNCHANGED <<environ, cache, configured>>
      BY <1>5, <2>2 DEF AskKey
    <3>2. (IF cache # NoKey THEN "resolved" ELSE "vault") \in Steps
      BY DEF Steps
    <3>3. raced' \in BOOLEAN
      BY <1>4, <3>1
    <3> HIDE DEF Steps, Step
    <3> QED
      BY <1>1, <1>3, <3>1, <3>2, <3>3
  <2> QED
    BY <2>1, <2>2
<1>6. CASE FetchKey(t)
  <2>1. CASE environ # NoKey
    BY <1>1, <1>3, <1>4, <1>6, <2>1 DEF FetchKey, Steps
  <2>2. CASE environ = NoKey
    <3>1. PICK key \in Read("vault") :
             Step(t, IF key # NoKey THEN "fetched" ELSE "resolved", key)
      BY <1>6, <2>2 DEF FetchKey
    <3>2. key \in MaybeKey
      BY ReadTyped DEF Sources
    <3> QED
      BY <1>1, <1>3, <1>4, <1>6, <3>1, <3>2 DEF FetchKey, Steps
  <2> QED
    BY <2>1, <2>2
<1>7. CASE CacheKey(t)
  BY <1>1, <1>3, <1>4, <1>7 DEF CacheKey, Steps
<1>8. CASE ResolveKey(t)
  <2>1. Else(asking[t].key, source["file"]) \in MaybeKey
    BY <1>1, ElseTyped DEF Sources
  <2> QED
    BY <1>1, <1>3, <1>4, <1>8, <2>1 DEF ResolveKey, Steps
<1>9. CASE CheckEnviron(t)
  BY <1>1, <1>3, <1>4, <1>9 DEF CheckEnviron, Steps
<1>10. CASE SetEnviron(t)
  BY <1>1, <1>3, <1>4, <1>10 DEF SetEnviron, Steps
<1>11. CASE ReturnConfig(t)
  BY <1>1, <1>2, <1>3, <1>4, <1>11 DEF ReturnConfig, Steps
<1> QED
  BY <1>5, <1>6, <1>7, <1>8, <1>9, <1>10, <1>11

LEMMA SecretsStepType == SecretsTypeOK /\ [SecretsNext]_secretsVars => SecretsTypeOK'
<1> SUFFICES ASSUME SecretsTypeOK, [SecretsNext]_secretsVars PROVE SecretsTypeOK'
  OBVIOUS
<1>1. CASE UNCHANGED secretsVars
  BY <1>1 DEF secretsVars, SecretsTypeOK
<1>2. ASSUME NEW s \in Sources, NEW key \in MaybeKey, Rotate(s, key)
      PROVE  SecretsTypeOK'
  BY <1>2 DEF Rotate, SecretsTypeOK
<1>3. ASSUME NEW key \in MaybeKey, NEW wrapped \in MaybeKey,
             StartProcess(key, wrapped)
      PROVE  SecretsTypeOK'
  <2>1. source' \in [Sources -> MaybeKey]
    BY <1>3 DEF StartProcess, SecretsTypeOK
  <2>2. /\ asking' \in [Threads -> [step : Steps, key : MaybeKey]]
        /\ loading' \in [layer : Layers, key : MaybeKey]
        /\ {environ', cache', configured'} \subseteq MaybeKey
    BY <1>3, NoneTyped DEF StartProcess
  <2>3. raced' \in BOOLEAN
    BY <1>3 DEF StartProcess
  <2>4. {rotations, loads, processes} \subseteq Nat
    BY DEF SecretsTypeOK
  <2>5. rotations' = rotations /\ loads' = loads /\ processes' = processes + 1
    BY <1>3 DEF StartProcess
  <2>6. {rotations', loads', processes'} \subseteq Nat
    BY <2>4, <2>5
  <2> QED
    BY <2>1, <2>2, <2>3, <2>6 DEF SecretsTypeOK
<1> QED
  BY <1>1, <1>2, <1>3, LoadStepType, AskStepType DEF SecretsNext

\* Every key in the process is one of the keys, and every thread is at a step
\* of load_keeper_config.
THEOREM SecretsTyped == SecretsSpec => []SecretsTypeOK
  BY SecretsInitType, SecretsStepType, PTL DEF SecretsSpec

----------------------------------------------------------------------------
(* Unless something raced: a load and a thread, or two threads, never are at *)
(* work together; a thread about to set the variable finds it unset; and the *)
(* key the keeper was given is the one in the environment.                   *)

OneKeyInv ==
    ~raced =>
       /\ \A t \in Threads : asking[t] # NotAsking => ~Busy(t)
       /\ \A t \in Threads : asking[t].step = "set" => environ = NoKey
       /\ configured # NoKey => environ = configured

\* What a step may do to the key.
KeyStays == (configured # NoKey /\ configured' # configured) =>
               (raced \/ processes' # processes)

LEMMA RotateKeepsKey ==
    ASSUME OneKeyInv, NEW s \in Sources, NEW key \in MaybeKey, Rotate(s, key)
    PROVE  OneKeyInv' /\ KeyStays
<1>1. UNCHANGED <<environ, loading, asking, configured, raced>>
  BY DEF Rotate
<1> QED
  BY <1>1 DEF OneKeyInv, KeyStays, Busy

LEMMA StartKeepsKey ==
    ASSUME SecretsTypeOK, NEW key \in MaybeKey, NEW wrapped \in MaybeKey,
           StartProcess(key, wrapped)
    PROVE  OneKeyInv' /\ KeyStays
<1>1. /\ configured' = NoKey /\ processes' = processes + 1 /\ processes \in Nat
      /\ asking' = [t \in Threads |-> NotAsking]
  BY DEF StartProcess, SecretsTypeOK
<1> QED
  BY <1>1 DEF OneKeyInv, KeyStays, NotAsking

LEMMA LoadKeepsKey ==
    ASSUME SecretsTypeOK, OneKeyInv,
           LoadDotenv \/ LoadVault \/ LoadAws \/ LoadKms \/ LoadCaches
    PROVE  OneKeyInv' /\ KeyStays
<1>1. /\ UNCHANGED <<asking, configured>>
      /\ environ # NoKey => environ' = environ
      /\ ~raced' => ~raced /\ \A t \in Threads : asking[t] = NotAsking
  <2>1. CASE LoadDotenv
    BY <2>1 DEF LoadDotenv, SetDefault, Else
  <2>2. ASSUME NEW layer \in {"vault", "kms"}, NEW next, LoadInjected(layer, next)
        PROVE  /\ UNCHANGED <<asking, configured>>
               /\ environ # NoKey => environ' = environ
               /\ ~raced' => ~raced /\ \A t \in Threads : asking[t] = NotAsking
    <3>1. loading # NotLoading
      BY <2>2 DEF LoadInjected, NotLoading
    <3>2. environ # NoKey => environ' = environ
      BY <2>2 DEF LoadInjected, SetDefault, Else
    <3> QED
      BY <2>2, <3>1, <3>2 DEF LoadInjected, OneKeyInv, Busy
  <2>3. CASE LoadAws \/ LoadCaches
    <3>1. loading # NotLoading
      BY <2>3 DEF LoadAws, LoadCaches, NotLoading
    <3>2. UNCHANGED <<asking, configured, environ, raced>>
      BY <2>3 DEF LoadAws, LoadCaches
    <3> QED
      BY <3>1, <3>2 DEF OneKeyInv, Busy
  <2> QED
    BY <2>1, <2>2, <2>3 DEF LoadVault, LoadKms
<1>2. \A t \in Threads : asking[t] = NotAsking => asking[t].step # "set"
  BY DEF NotAsking
<1> QED
  BY <1>1, <1>2 DEF OneKeyInv, KeyStays

\* The thread that asks keeps what holds of it alone; the others are idle, or
\* something raced.
LEMMA AskKeepsKey ==
    ASSUME SecretsTypeOK, OneKeyInv, NEW t \in Threads,
           \/ AskKey(t) \/ FetchKey(t) \/ CacheKey(t) \/ ResolveKey(t)
           \/ CheckEnviron(t) \/ SetEnviron(t) \/ ReturnConfig(t)
    PROVE  OneKeyInv' /\ KeyStays
<1>1. CASE raced
  <2>1. raced'
    BY <1>1 DEF AskKey, FetchKey, CacheKey, ResolveKey, CheckEnviron,
                SetEnviron, ReturnConfig
  <2> QED
    BY <1>1, <2>1 DEF OneKeyInv, KeyStays
<1>2. CASE ~raced /\ environ # NoKey /\ AskKey(t)
  <2>1. configured' = environ
        /\ UNCHANGED <<environ, loading, asking, raced>>
    BY <1>2 DEF AskKey
  <2> QED
    BY <1>2, <2>1 DEF OneKeyInv, KeyStays, Busy
<1>3. ASSUME ~raced, raced' \/ ~Busy(t),
             NEW step \in Steps, NEW key \in MaybeKey, Step(t, step, key),
             step = "set" => environ' = NoKey,
             configured' = configured \/ configured' = environ,
             \/ environ' = environ
             \/ configured = NoKey /\ configured' = NoKey
      PROVE  OneKeyInv' /\ KeyStays
  <2>1. /\ asking'[t] = [step |-> step, key |-> key] /\ loading' = loading
        /\ \A u \in Threads \ {t} : asking'[u] = asking[u]
    BY <1>3, StepTyped
  <2>2. KeyStays
    BY <1>3 DEF OneKeyInv, KeyStays
  <2>3. ASSUME ~raced' PROVE OneKeyInv'
    <3>1. loading = NotLoading /\ \A u \in Threads \ {t} : asking[u] = NotAsking
      BY <1>3, <2>3 DEF Busy
    <3>2. \A u \in Threads : asking'[u] # NotAsking => ~Busy(u)'
      BY <2>1, <3>1 DEF Busy
    <3>3. \A u \in Threads : asking'[u].step = "set" => environ' = NoKey
      BY <1>3, <2>1, <3>1 DEF NotAsking
    <3>4. configured' # NoKey => environ' = configured'
      BY <1>3 DEF OneKeyInv
    <3> QED
      BY <3>2, <3>3, <3>4 DEF OneKeyInv
  <2>4. CASE raced'
    BY <2>2, <2>4 DEF OneKeyInv
  <2> QED
    BY <2>2, <2>3, <2>4
<1>4. /\ asking[t].key \in MaybeKey /\ cache \in MaybeKey /\ environ \in MaybeKey
      /\ source["file"] \in MaybeKey
  BY DEF SecretsTypeOK, Sources
<1>5. CASE ~raced /\ environ = NoKey /\ AskKey(t)
  <2>1. /\ Step(t, IF cache # NoKey THEN "resolved" ELSE "vault", cache)
        /\ raced' = (raced \/ Busy(t))
        /\ UNCHANGED <<environ, configured>>
    BY <1>5 DEF AskKey
  <2>2. raced' \/ ~Busy(t)
    BY <2>1
  <2>3. CASE cache # NoKey
    BY <1>3, <1>4, <1>5, <2>1, <2>2, <2>3 DEF Steps
  <2>4. CASE cache = NoKey
    BY <1>3, <1>4, <1>5, <2>1, <2>2, <2>4 DEF Steps
  <2> QED
    BY <2>3, <2>4
<1>6. ASSUME ~raced, asking[t].step # "none" PROVE ~Busy(t)
  BY <1>6 DEF OneKeyInv, NotAsking
<1>7. CASE ~raced /\ FetchKey(t)
  <2>1. PICK step \in {"fetched", "resolved"}, key \in MaybeKey : Step(t, step, key)
    <3>1. CASE environ # NoKey
      BY <1>4, <1>7, <3>1 DEF FetchKey
    <3>2. CASE environ = NoKey
      <4>1. PICK key \in Read("vault") :
               Step(t, IF key # NoKey THEN "fetched" ELSE "resolved", key)
        BY <1>7, <3>2 DEF FetchKey
      <4>2. key \in MaybeKey
        BY ReadTyped DEF Sources
      <4>3. CASE key # NoKey
        BY <4>1, <4>2, <4>3
      <4>4. CASE key = NoKey
        BY <4>1, <4>2, <4>4
      <4> QED
        BY <4>3, <4>4
    <3> QED
      BY <3>1, <3>2
  <2>2. ~Busy(t) /\ UNCHANGED <<environ, configured>>
    BY <1>6, <1>7 DEF FetchKey
  <2> QED
    BY <1>3, <1>7, <2>1, <2>2 DEF Steps
<1>8. CASE ~raced /\ CacheKey(t)
  <2>1. ~Busy(t) /\ UNCHANGED <<environ, configured>>
        /\ Step(t, "resolved", asking[t].key)
    BY <1>6, <1>8 DEF CacheKey
  <2> QED
    BY <1>3, <1>4, <1>8, <2>1 DEF Steps
<1>9. CASE ~raced /\ ResolveKey(t)
  <2> DEFINE key == Else(asking[t].key, source["file"])
  <2>1. ~Busy(t) /\ UNCHANGED <<environ, configured>>
        /\ Step(t, IF key # NoKey THEN "check" ELSE "none", key)
    BY <1>6, <1>9 DEF ResolveKey
  <2>2. key \in MaybeKey
    BY <1>4, ElseTyped
  <2> HIDE DEF key
  <2>3. CASE key # NoKey
    BY <1>3, <1>9, <2>1, <2>2, <2>3 DEF Steps
  <2>4. CASE key = NoKey
    BY <1>3, <1>9, <2>1, <2>2, <2>4 DEF Steps
  <2> QED
    BY <2>3, <2>4
<1>10. CASE ~raced /\ CheckEnviron(t)
  <2>1. ~Busy(t) /\ UNCHANGED <<environ, configured>>
        /\ Step(t, IF environ = NoKey THEN "set" ELSE "return", asking[t].key)
    BY <1>6, <1>10 DEF CheckEnviron
  <2>2. CASE environ = NoKey
    BY <1>3, <1>4, <1>10, <2>1, <2>2 DEF Steps
  <2>3. CASE environ # NoKey
    BY <1>3, <1>4, <1>10, <2>1, <2>3 DEF Steps
  <2> QED
    BY <2>2, <2>3
<1>11. CASE ~raced /\ SetEnviron(t)
  <2>1. ~Busy(t) /\ configured' = configured /\ Step(t, "return", asking[t].key)
    BY <1>6, <1>11 DEF SetEnviron
  <2>2. configured = NoKey
    BY <1>11 DEF OneKeyInv, SetEnviron
  <2> QED
    BY <1>3, <1>4, <1>11, <2>1, <2>2 DEF Steps
<1>12. CASE ~raced /\ ReturnConfig(t)
  <2>1. ~Busy(t) /\ environ' = environ /\ configured' = environ
        /\ Step(t, "none", NoKey)
    BY <1>6, <1>12 DEF ReturnConfig
  <2> QED
    BY <1>3, <1>12, <2>1, NoneTyped DEF Steps
<1> QED
  BY <1>1, <1>2, <1>5, <1>7, <1>8, <1>9, <1>10, <1>11, <1>12

LEMMA KeyStep ==
    ASSUME SecretsTypeOK, OneKeyInv, [SecretsNext]_secretsVars
    PROVE  OneKeyInv' /\ KeyStays
<1>1. CASE UNCHANGED secretsVars
  BY <1>1 DEF secretsVars, OneKeyInv, KeyStays, Busy
<1> QED
  BY <1>1, RotateKeepsKey, StartKeepsKey, LoadKeepsKey, AskKeepsKey DEF SecretsNext

\* A process signs with one key for its life, whatever the sources and the
\* loads do, unless threads looked for the key at once.
THEOREM OneKey == SecretsSpec => OneKeyPerProcess
<1>1. SecretsInit => OneKeyInv
  BY DEF SecretsInit, OneKeyInv, NotAsking
<1>2. SecretsTypeOK /\ OneKeyInv /\ [SecretsNext]_secretsVars => OneKeyInv' /\ KeyStays
  BY KeyStep
<1>3. [][KeyStays]_secretsVars => OneKeyPerProcess
  BY PTL DEF OneKeyPerProcess, KeyStays
<1> QED
  BY <1>1, <1>2, <1>3, SecretsTyped, PTL DEF SecretsSpec
=============================================================================
