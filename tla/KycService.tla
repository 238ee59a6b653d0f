----------------------------- MODULE KycService ----------------------------
(***************************************************************************)
(* ZK-KYC: KYCService with its three providers behind the REST views, the  *)
(* task that copies a result into the UserKYC row, and the gates that read *)
(* the row.  Every web process has a service with a store of its own; the  *)
(* task builds a new service, with an empty store, each time.  Threads of a *)
(* process share its records, so that other calls come between a provider's *)
(* answer, or the test of a record, and the write that follows it.  The    *)
(* webhook takes what anybody posts, for any user; the session a client    *)
(* names need not be the client's.  Privado's verifier is configured.  Of a *)
(* record only the status is kept: what the gates read.                    *)
(***************************************************************************)
EXTENDS Integers, FiniteSets, Sequences

CONSTANTS
    KycUsers, WebProcesses,
    SessionIds,     \* sessions a client may name
    NoSession,      \* no session named
    Words,          \* words zkMe answers with
    SwapValues,     \* USD values of a plan, Unknown among them
    Unknown,        \* a plan without a USD value
    Threshold,      \* require_for_custodial_swap_above_usd
    MaxOutside,     \* bound on zkMe's decisions and the sessions verified
    MaxCalls,       \* bound on the calls of views, webhooks and tasks
    MaxRestarts     \* bound on restarts of a web process

VARIABLES
    verdicts,       \* user |-> what zkMe decided, latest last
    verifiedSessions, \* sessions Privado's verifier calls verified (external)
    messages,       \* what was posted to the webhook for zkPass and Privado
    store,          \* process |-> user |-> status (InMemoryStore)
    row,            \* user |-> status of the UserKYC row
    pending,        \* statuses that a thread or a task is about to write
    calls, restarts,
    rowAsOf,        \* user |-> number of zkMe's decisions its row has seen
    overlapped      \* users for whom two refresh tasks once ran at a time

kycVars == <<verdicts, verifiedSessions, messages, store, row, pending, calls,
             restarts, rowAsOf, overlapped>>

Providers == {"zkme", "zkpass", "privado"}
Statuses == {"none", "pending", "in_progress", "approved", "rejected"}
Task == "task"
Sessions == SessionIds \cup {NoSession}
\* Of a message: its user, and whether it says verified or carries a proof.
Messages == [provider : Providers \ {"zkme"}, user : KycUsers,
             verified : BOOLEAN, proof : BOOLEAN]
Pending == [by : WebProcesses \cup {Task}, user : KycUsers, status : Statuses,
            asked : Nat, call : Nat]

ASSUME KycAssumption ==
    /\ Task \notin WebProcesses
    /\ NoSession \notin SessionIds
    /\ Threshold \in Nat
    /\ Unknown \notin Nat
    /\ SwapValues \subseteq Nat \cup {Unknown}
    /\ MaxOutside \in Nat /\ MaxCalls \in Nat /\ MaxRestarts \in Nat

\* No record, and a new one, read alike.
NoRecord == "none"

ZkMeStatus(word) ==
    CASE word = "pass" -> "approved"
      [] word = "processing" -> "in_progress"
      [] word = "fail" -> "rejected"
      [] OTHER -> "pending"

\* What the providers' get_status may return: zkMe's latest word, or none
\* when the call fails or zkMe does not know the user; the other two only know
\* a session, and never ask whose it is.
ZkMeAnswers(u) ==
    {"none"} \cup {ZkMeStatus(verdicts[u][i]) : i \in {Len(verdicts[u])} \ {0}}

ZkPassAnswers(session) == {IF session = NoSession THEN "none" ELSE "pending"}

\* A call that fails reads as pending.
PrivadoAnswers(session) ==
    CASE session = NoSession -> {"none"}
      [] session \in verifiedSessions -> {"approved", "pending"}
      [] OTHER -> {"pending"}

StatusAnswers(provider, u, session) ==
    CASE provider = "zkme" -> ZkMeAnswers(u)
      [] provider = "zkpass" -> ZkPassAnswers(session)
      [] provider = "privado" -> PrivadoAnswers(session)

\* Mutant: what Privado's message says is not looked at.
AnyMessageApproves(m) == "approved"

\* zkPass takes any message that names a user for a proof.
VerifyProof(m) == "approved"

\* handle_webhook of the providers that judge the message itself.
MessageStatus(m) ==
    CASE m.provider = "zkpass" -> VerifyProof(m)
      [] OTHER -> IF m.verified \/ m.proof THEN "approved" ELSE "rejected"

----------------------------------------------------------------------------
KycInit ==
    /\ verdicts = [u \in KycUsers |-> <<>>]
    /\ verifiedSessions = {}
    /\ messages = {}
    /\ store = [p \in WebProcesses |-> [u \in KycUsers |-> NoRecord]]
    /\ row = [u \in KycUsers |-> NoRecord]
    /\ pending = {}
    /\ calls = 0 /\ restarts = 0
    /\ rowAsOf = [u \in KycUsers |-> 0]
    /\ overlapped = {}

\* zkMe decides about a user (external).
ZkMeDecides(u, word) ==
    /\ Len(verdicts[u]) + Cardinality(verifiedSessions) < MaxOutside
    /\ verdicts' = [verdicts EXCEPT ![u] = Append(@, word)]
    /\ UNCHANGED <<verifiedSessions, messages, store, row, pending, calls,
                   restarts, rowAsOf, overlapped>>

\* Somebody proves something in a session of Privado's verifier (external).
PrivadoVerifies(session) ==
    /\ \A u \in KycUsers :
          Len(verdicts[u]) + Cardinality(verifiedSessions) < MaxOutside
    /\ verifiedSessions' = verifiedSessions \cup {session}
    /\ UNCHANGED <<verdicts, messages, store, row, pending, calls, restarts,
                   rowAsOf, overlapped>>

Served == calls < MaxCalls /\ calls' = calls + 1

AboutToWrite(by, u, status) ==
    pending' = pending \cup {[by |-> by, user |-> u, status |-> status,
                              asked |-> Len(verdicts[u]), call |-> calls]}

MayStart(status) == status \in {"none", "rejected"}

\* start_verification up to the test of the record; the session is the
\* provider's and stored nowhere.  The write follows, whatever the record has
\* become.
StartVerification(p, u) ==
    /\ MayStart(store[p][u])
    /\ AboutToWrite(p, u, "pending")
    /\ Served
    /\ UNCHANGED <<verdicts, verifiedSessions, messages, store, row, restarts,
                   rowAsOf, overlapped>>

\* refresh_from_provider up to the provider's answer, for a web process or
\* for the task, which passes no session.
Ask(by, u, provider, session) ==
    /\ Served
    /\ \E s \in StatusAnswers(provider, u, session) : AboutToWrite(by, u, s)
    /\ overlapped' = IF by = Task /\ \E x \in pending : x.by = Task /\ x.user = u
                     THEN overlapped \cup {u} ELSE overlapped
    /\ UNCHANGED <<verdicts, verifiedSessions, messages, store, row, restarts,
                   rowAsOf>>

Refresh(p, u, provider, session) == Ask(p, u, provider, session)

\* Mutant: the task is given a session as well.
TaskWithSession(u, provider) == \E s \in Sessions : Ask(Task, u, provider, s)

RefreshKycTask(u, provider) == Ask(Task, u, provider, NoSession)

\* zkMe's webhook names the user and is otherwise not read.
ZkMeWebhook(p, u) == Ask(p, u, "zkme", NoSession)

\* Anybody posts anything about anybody, once or repeatedly.
Webhook(p, m) ==
    /\ Served
    /\ messages' = messages \cup {m}
    /\ store' = [store EXCEPT ![p][m.user] = MessageStatus(m)]
    /\ UNCHANGED <<verdicts, verifiedSessions, row, pending, restarts, rowAsOf,
                   overlapped>>

\* Mutant: the web processes write the row too.
EveryAnswer(x) == TRUE

IsForRow(x) == x.by = Task

\* The status goes into the record of the process that asked, or, through
\* the task's own empty store, into the row.
Apply(x) ==
    /\ pending' = pending \ {x}
    /\ IF IsForRow(x)
       THEN /\ row' = [row EXCEPT ![x.user] = x.status]
            /\ rowAsOf' = [rowAsOf EXCEPT ![x.user] = x.asked]
            /\ UNCHANGED store
       ELSE /\ store' = [store EXCEPT ![x.by][x.user] = x.status]
            /\ UNCHANGED <<row, rowAsOf>>
    /\ UNCHANGED <<verdicts, verifiedSessions, messages, calls, restarts,
                   overlapped>>

Restart(p) ==
    /\ restarts < MaxRestarts
    /\ store' = [store EXCEPT ![p] = [u \in KycUsers |-> NoRecord]]
    /\ pending' = {x \in pending : x.by # p}
    /\ restarts' = restarts + 1
    /\ UNCHANGED <<verdicts, verifiedSessions, messages, row, calls, rowAsOf,
                   overlapped>>

KycNext ==
    \/ \E u \in KycUsers, w \in Words : ZkMeDecides(u, w)
    \/ \E s \in SessionIds : PrivadoVerifies(s)
    \/ \E p \in WebProcesses, u \in KycUsers : StartVerification(p, u)
    \/ \E p \in WebProcesses, u \in KycUsers, pr \in Providers, s \in Sessions :
          Refresh(p, u, pr, s)
    \/ \E u \in KycUsers, pr \in Providers : RefreshKycTask(u, pr)
    \/ \E p \in WebProcesses, u \in KycUsers : ZkMeWebhook(p, u)
    \/ \E p \in WebProcesses, m \in Messages : Webhook(p, m)
    \/ \E x \in pending : Apply(x)
    \/ \E p \in WebProcesses : Restart(p)

KycSpec == KycInit /\ [][KycNext]_kycVars

----------------------------------------------------------------------------
(* The gates.  No view of the repository calls them yet. *)

UserKycVerified(u) == row[u] = "approved"

RequiredForSwap(usd) == usd # Unknown /\ Threshold > 0 /\ usd >= Threshold

CheckSwapKyc(u, usd) == RequiredForSwap(usd) => UserKycVerified(u)

----------------------------------------------------------------------------
KycTypeOK ==
    /\ verdicts \in [KycUsers -> Seq(Words)]
    /\ verifiedSessions \subseteq SessionIds
    /\ messages \subseteq Messages
    /\ store \in [WebProcesses -> [KycUsers -> Statuses]]
    /\ row \in [KycUsers -> Statuses]
    /\ pending \subseteq Pending
    /\ calls \in Nat /\ restarts \in Nat
    /\ rowAsOf \in [KycUsers -> Nat]
    /\ overlapped \subseteq KycUsers

ZkMePassed(u) == \E i \in DOMAIN verdicts[u] : verdicts[u][i] = "pass"

Claims(m) == m.provider = "zkpass" \/ m.verified \/ m.proof

Vouched(u) ==
    \/ ZkMePassed(u)
    \/ verifiedSessions # {}
    \/ \E m \in messages : m.user = u /\ Claims(m)

\* All that an approved record of a web process shows, whatever was started,
\* refreshed, delivered twice or written late: zkMe passed the user, or some
\* session was verified, or somebody posted a claim about the user.  Neither
\* the session a client names nor a message is tied to the user
\* (KYCRefreshView, KYCWebhookView).
ApprovalsHaveASource ==
    \A p \in WebProcesses, u \in KycUsers :
       store[p][u] = "approved" => Vouched(u)

\* The gates let a user make a swap at or above the threshold only after zkMe
\* itself passed the user: what anybody posts to the webhook, and sessions of
\* others, reach the stores of the web processes and never the row, as the task
\* that fills it has no session and a store of its own (refresh_kyc_task).
GatesNeedZkMe ==
    \A u \in KycUsers, usd \in SwapValues :
       (CheckSwapKyc(u, usd) /\ usd # Unknown /\ Threshold > 0
          /\ usd >= Threshold) => ZkMePassed(u)

\* The row goes back to an older answer of zkMe only for a user for whom two
\* refresh tasks overlapped: the tasks are not ordered and the row carries no
\* date that apply_result would compare.
RowsRegressOnlyByOverlap ==
    [][\A u \in KycUsers :
          rowAsOf'[u] < rowAsOf[u] => u \in overlapped]_kycVars
=============================================================================
