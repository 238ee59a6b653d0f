----------------------------- MODULE RpcRouter -----------------------------
(***************************************************************************)
(* The RPC router for one chain: the circuit breaker of each provider      *)
(* (opencex_rpc/models.py, ProviderHealth), the process-wide registry that *)
(* ranks them (opencex_rpc/health.py), and get_web3, failover and the      *)
(* instrumented requests of opencex_rpc/router.py, called by several       *)
(* threads.  Nothing is locked: one action reads or writes one attribute,  *)
(* as the interpreter may switch threads between any two of them.          *)
(*                                                                         *)
(* Time is the age of opened_at, counted up to the recovery timeout.  The  *)
(* latency score only orders the candidates: any order is allowed here.    *)
(***************************************************************************)
EXTENDS Integers, FiniteSets

CONSTANTS
    Providers,     \* the endpoints configured for the chain
    Threads,       \* request threads of one process
    MaxErrors,     \* ProviderConfig.max_errors
    Recovery,      \* ProviderConfig.recovery_timeout, in ticks
    MaxFailures,   \* bound on failed requests and manual failovers
    None

ASSUME RouterAssumption ==
    /\ Providers # {}
    /\ None \notin Providers \cup Nat
    /\ MaxErrors \in Nat \ {0}
    /\ Recovery \in Nat
    /\ MaxFailures \in Nat

VARIABLES
    state,      \* ProviderHealth.state
    errors,     \* ProviderHealth.consecutive_errors
    age,        \* time since opened_at, or None
    client,     \* the provider behind _clients[chain_id], or None
    current,    \* _current_provider[chain_id], or None
    w3,         \* per thread: the client it got last, or None
    failures,   \* history: failed requests and manual failovers per provider
    pc,         \* per thread: the next attribute access
    caller,     \* per thread: what the running health update returns to
    prov,       \* per thread: the provider it is about
    todo,       \* per thread: providers still to check, or still to try
    ranked,     \* per thread: the available ones so far
    read        \* per thread: consecutive_errors as += read it

healthVars == <<state, errors, age>>
bindVars == <<client, current>>
callVars == <<w3, caller, prov, todo, ranked, read>>
threadVars == <<pc, callVars>>
vars == <<healthVars, bindVars, failures, threadVars>>

States == {"closed", "open", "half_open"}
Callers == {"get", "rank", "try", "again", "use", "failover"}

\* Every variable keeps its type.
TypeOK ==
    /\ state \in [Providers -> States]
    /\ errors \in [Providers -> Nat]
    /\ age \in [Providers -> 0..Recovery \cup {None}]
    /\ client \in Providers \cup {None}
    /\ current \in Providers \cup {None}
    /\ failures \in [Providers -> Nat]
    /\ pc \in [Threads -> {"idle", "checked", "rank", "try", "bind", "bound",
                           "h1", "h2", "h3", "h4", "h5", "s1", "s2", "s3",
                           "s4", "e1", "e2", "e3", "e4", "e5"}]
    /\ w3 \in [Threads -> Providers \cup {None}]
    /\ caller \in [Threads -> Callers]
    /\ prov \in [Threads -> Providers]
    /\ todo \in [Threads -> SUBSET Providers]
    /\ ranked \in [Threads -> SUBSET Providers]
    /\ read \in [Threads -> Nat]

Init ==
    /\ state = [p \in Providers |-> "closed"]
    /\ errors = [p \in Providers |-> 0]
    /\ age = [p \in Providers |-> None]
    /\ client = None
    /\ current = None
    /\ failures = [p \in Providers |-> 0]
    /\ pc = [t \in Threads |-> "idle"]
    /\ w3 = [t \in Threads |-> None]
    /\ caller = [t \in Threads |-> "use"]
    /\ prov = [t \in Threads |-> CHOOSE p \in Providers : TRUE]
    /\ todo = [t \in Threads |-> {}]
    /\ ranked = [t \in Threads |-> {}]
    /\ read = [t \in Threads |-> 0]

Goto(t, from, to) == pc[t] = from /\ pc' = [pc EXCEPT ![t] = to]

\* A step that reads or writes health only.
Step(t, from, to) ==
    Goto(t, from, to) /\ UNCHANGED <<bindVars, failures, callVars>>

\* The health record of the provider the thread is about.
P(t) == prov[t]

Calls(t, who, p) ==
    /\ caller' = [caller EXCEPT ![t] = who]
    /\ prov' = [prov EXCEPT ![t] = p]

----------------------------------------------------------------------------
(* Entry points *)

\* get_web3 with a client: is_available(current) decides.
GetBound(t) ==
    /\ client # None /\ current # None
    /\ Goto(t, "idle", "h1")
    /\ Calls(t, "get", current)
    /\ UNCHANGED <<healthVars, bindVars, failures, todo, ranked, read, w3>>

\* get_web3 without one builds it.
GetUnbound(t) ==
    /\ client = None \/ current = None
    /\ Goto(t, "idle", "rank")
    /\ todo' = [todo EXCEPT ![t] = Providers]
    /\ ranked' = [ranked EXCEPT ![t] = {}]
    /\ UNCHANGED <<healthVars, bindVars, failures, caller, prov, read, w3>>

Fails(p) ==
    /\ failures[p] < MaxFailures
    /\ failures' = [failures EXCEPT ![p] = @ + 1]

\* failover(): the bound provider is charged with an error it did not make.
Failover(t) ==
    /\ current # None
    /\ Goto(t, "idle", "e1")
    /\ Calls(t, "failover", current)
    /\ Fails(current)
    /\ UNCHANGED <<healthVars, bindVars, todo, ranked, read, w3>>

\* A request through the client the thread holds, which another thread may
\* have replaced since; make_request reports how it ended.
Use(t) ==
    /\ w3[t] # None
    /\ Calls(t, "use", w3[t])
    /\ \/ Goto(t, "idle", "s1") /\ UNCHANGED failures
       \/ Goto(t, "idle", "e1") /\ Fails(w3[t])
    /\ UNCHANGED <<healthVars, bindVars, todo, ranked, read, w3>>

----------------------------------------------------------------------------
(* maybe_half_open, one attribute at a time *)

CheckState(t) ==
    /\ Step(t, "h1", IF state[P(t)] = "open" THEN "h2" ELSE "checked")
    /\ UNCHANGED healthVars

CheckOpenedAt(t) ==
    /\ Step(t, "h2", IF age[P(t)] = None THEN "checked" ELSE "h3")
    /\ UNCHANGED healthVars

CheckTime(t) ==
    /\ age[P(t)] # None
    /\ Step(t, "h3", IF age[P(t)] >= Recovery THEN "h4" ELSE "checked")
    /\ UNCHANGED healthVars

\* opened_at became None since it was looked at: time.time() - None raises a
\* TypeError and ends the call.
CheckTimeRaises(t) ==
    /\ age[P(t)] = None
    /\ Step(t, "h3", "idle")
    /\ UNCHANGED healthVars

SetHalfOpen(t) ==
    /\ Step(t, "h4", "h5")
    /\ state' = [state EXCEPT ![P(t)] = "half_open"]
    /\ UNCHANGED <<errors, age>>

\* Mutant: the errors that opened the circuit are kept.
ClearErrorsForgotten(t) ==
    /\ Step(t, "h5", "checked")
    /\ UNCHANGED healthVars

ClearErrors(t) ==
    /\ Step(t, "h5", "checked")
    /\ errors' = [errors EXCEPT ![P(t)] = 0]
    /\ UNCHANGED <<state, age>>

----------------------------------------------------------------------------
(* get_web3 and _build_client *)

\* is_available is true: the cached client is returned.
ReturnClient(t) ==
    /\ caller[t] = "get"
    /\ state[P(t)] # "open"
    /\ Goto(t, "checked", "idle")
    /\ w3' = [w3 EXCEPT ![t] = client]
    /\ UNCHANGED <<healthVars, bindVars, failures, caller, prov, todo, ranked, read>>

\* It is false: rank_providers starts.
Rebuild(t) ==
    /\ caller[t] = "get"
    /\ state[P(t)] = "open"
    /\ Goto(t, "checked", "rank")
    /\ todo' = [todo EXCEPT ![t] = Providers]
    /\ ranked' = [ranked EXCEPT ![t] = {}]
    /\ UNCHANGED <<healthVars, bindVars, failures, caller, prov, read, w3>>

RankNext(t) ==
    /\ Goto(t, "rank", "h1")
    /\ \E p \in todo[t] :
        /\ Calls(t, "rank", p)
        /\ todo' = [todo EXCEPT ![t] = @ \ {p}]
    /\ UNCHANGED <<healthVars, bindVars, failures, ranked, read, w3>>

\* OPEN circuits are skipped.
RankOne(t) ==
    /\ caller[t] = "rank"
    /\ Goto(t, "checked", "rank")
    /\ ranked' = [ranked EXCEPT ![t] =
                    IF state[P(t)] = "open" THEN @ ELSE @ \cup {P(t)}]
    /\ UNCHANGED <<healthVars, bindVars, failures, caller, prov, todo, read, w3>>

\* The candidates; all the providers when every circuit is OPEN.
RankDone(t) ==
    /\ todo[t] = {}
    /\ Goto(t, "rank", "try")
    /\ todo' = [todo EXCEPT ![t] = IF ranked[t] = {} THEN Providers ELSE ranked[t]]
    /\ UNCHANGED <<healthVars, bindVars, failures, caller, prov, ranked, read, w3>>

\* block_number answers, and make_request records the success.
TryAnswers(t) ==
    /\ Goto(t, "try", "s1")
    /\ \E p \in todo[t] : Calls(t, "try", p)
    /\ UNCHANGED <<healthVars, bindVars, failures, todo, ranked, read, w3>>

\* block_number fails: make_request records the error, and the except clause
\* of _build_client records it again.
TryFails(t) ==
    /\ Goto(t, "try", "e1")
    /\ \E p \in todo[t] :
        /\ Calls(t, "again", p)
        /\ Fails(p)
        /\ todo' = [todo EXCEPT ![t] = @ \ {p}]
    /\ UNCHANGED <<healthVars, bindVars, ranked, read, w3>>

\* Every candidate failed: RuntimeError.
AllFailed(t) ==
    /\ todo[t] = {}
    /\ Step(t, "try", "idle")
    /\ UNCHANGED healthVars

BindClient(t) ==
    /\ Goto(t, "bind", "bound")
    /\ client' = P(t)
    /\ UNCHANGED <<healthVars, current, failures, callVars>>

BindProvider(t) ==
    /\ Goto(t, "bound", "idle")
    /\ current' = P(t)
    /\ w3' = [w3 EXCEPT ![t] = P(t)]
    /\ todo' = [todo EXCEPT ![t] = {}]
    /\ UNCHANGED <<healthVars, client, failures, caller, prov, ranked, read>>

----------------------------------------------------------------------------
(* record_success and record_error, one attribute at a time *)

AfterSuccess(t) == IF caller[t] = "try" THEN "bind" ELSE "idle"

ResetErrors(t) ==
    /\ Step(t, "s1", "s2")
    /\ errors' = [errors EXCEPT ![P(t)] = 0]
    /\ UNCHANGED <<state, age>>

TestHalfOpen(t) ==
    /\ Step(t, "s2", IF state[P(t)] = "half_open" THEN "s3" ELSE AfterSuccess(t))
    /\ UNCHANGED healthVars

\* Mutant: a success leaves a half-open circuit as it is.
SetClosedForgotten(t) ==
    /\ Step(t, "s3", "s4")
    /\ UNCHANGED healthVars

SetClosed(t) ==
    /\ Step(t, "s3", "s4")
    /\ state' = [state EXCEPT ![P(t)] = "closed"]
    /\ UNCHANGED <<errors, age>>

ClearOpenedAt(t) ==
    /\ Step(t, "s4", AfterSuccess(t))
    /\ age' = [age EXCEPT ![P(t)] = None]
    /\ UNCHANGED <<state, errors>>

\* Where a recorded error leads: a failed try records it once more.
AfterError(t) ==
    CASE caller[t] = "again" -> "e1"
      [] caller[t] = "try" -> "try"
      [] caller[t] = "failover" -> "rank"
      [] OTHER -> "idle"

\* The caller's continuation, with the state a fresh rank_providers needs.
ErrorRecorded(t, from) ==
    /\ Goto(t, from, AfterError(t))
    /\ caller' = [caller EXCEPT ![t] = IF @ = "again" THEN "try" ELSE @]
    /\ IF caller[t] = "failover"
       THEN /\ todo' = [todo EXCEPT ![t] = Providers]
            /\ ranked' = [ranked EXCEPT ![t] = {}]
       ELSE UNCHANGED <<todo, ranked>>
    /\ read' = [read EXCEPT ![t] = 0]
    /\ UNCHANGED <<bindVars, failures, prov, w3>>

ReadErrors(t) ==
    /\ Goto(t, "e1", "e2")
    /\ read' = [read EXCEPT ![t] = errors[P(t)]]
    /\ UNCHANGED <<healthVars, bindVars, failures, caller, prov, todo, ranked, w3>>

\* Mutant: the counter runs the wrong way.
WriteErrorsDown(t) ==
    /\ Step(t, "e2", "e3")
    /\ errors' = [errors EXCEPT ![P(t)] = read[t] - 1]
    /\ UNCHANGED <<state, age>>

WriteErrors(t) ==
    /\ Step(t, "e2", "e3")
    /\ errors' = [errors EXCEPT ![P(t)] = read[t] + 1]
    /\ UNCHANGED <<state, age>>

\* Mutant: one error fewer opens the circuit.
OneErrorFewer(t) ==
    /\ errors[P(t)] >= MaxErrors - 1
    /\ Step(t, "e3", "e4")
    /\ UNCHANGED healthVars

TooManyErrors(t) ==
    /\ errors[P(t)] >= MaxErrors
    /\ Step(t, "e3", "e4")
    /\ UNCHANGED healthVars

FewErrors(t) ==
    /\ errors[P(t)] < MaxErrors
    /\ ErrorRecorded(t, "e3")
    /\ UNCHANGED healthVars

SetOpen(t) ==
    /\ Step(t, "e4", "e5")
    /\ state' = [state EXCEPT ![P(t)] = "open"]
    /\ UNCHANGED <<errors, age>>

SetOpenedAt(t) ==
    /\ ErrorRecorded(t, "e5")
    /\ age' = [age EXCEPT ![P(t)] = 0]
    /\ UNCHANGED <<state, errors>>

Tick ==
    /\ \E p \in Providers : age[p] \in 0..Recovery - 1
    /\ age' = [p \in Providers |->
                 IF age[p] \in 0..Recovery - 1 THEN age[p] + 1 ELSE age[p]]
    /\ UNCHANGED <<state, errors, bindVars, failures, threadVars>>

Get(t) == GetBound(t) \/ GetUnbound(t)

\* The code between two entry points.
Running(t) ==
    \/ CheckState(t) \/ CheckOpenedAt(t) \/ CheckTime(t) \/ CheckTimeRaises(t)
    \/ SetHalfOpen(t) \/ ClearErrors(t)
    \/ ReturnClient(t) \/ Rebuild(t) \/ RankNext(t) \/ RankOne(t) \/ RankDone(t)
    \/ TryAnswers(t) \/ TryFails(t) \/ AllFailed(t)
    \/ BindClient(t) \/ BindProvider(t)
    \/ ResetErrors(t) \/ TestHalfOpen(t) \/ SetClosed(t) \/ ClearOpenedAt(t)
    \/ ReadErrors(t) \/ WriteErrors(t) \/ TooManyErrors(t) \/ FewErrors(t)
    \/ SetOpen(t) \/ SetOpenedAt(t)

Next ==
    \/ \E t \in Threads : Get(t) \/ Failover(t) \/ Use(t) \/ Running(t)
    \/ Tick

Spec == Init /\ [][Next]_vars

\* A call that has begun goes on, callers keep asking for a client and using
\* it, and time passes.
FairSpec ==
    /\ Spec
    /\ \A t \in Threads :
          WF_vars(Running(t)) /\ SF_vars(Get(t)) /\ SF_vars(Use(t))
    /\ WF_vars(Tick)

----------------------------------------------------------------------------
(* Properties *)

\* No thread is inside a health update.
Quiet == \A t \in Threads : pc[t] \in {"idle", "rank", "try"}

\* The breaker's attributes agree once an update is over: a circuit that is
\* not OPEN has fewer errors than open it, and one that is OPEN knows since
\* when, without which it would never be tried again.
BreakerConsistent ==
    Quiet => \A p \in Providers :
        /\ state[p] = "open" => age[p] # None
        /\ state[p] # "open" => errors[p] < MaxErrors
        /\ state[p] = "closed" => age[p] = None

\* However the updates of the threads interleave, a circuit opens only for a
\* provider that really failed.  Each failure counts twice at the most, and
\* does so when block_number fails: make_request and _build_client record it.
OpensOnlyAfterFailures ==
    \A p \in Providers : state[p] = "open" => 2 * failures[p] >= MaxErrors

\* Once requests stop failing, get_web3 settles on a provider whose circuit is
\* CLOSED, also when every circuit was OPEN.
Recovers == <>[](current # None /\ client = current /\ state[current] = "closed")

\* opencex_rpc/health.py: "Thread-safe enough".  An OPEN circuit no update is
\* running for has an opened_at; otherwise it stays OPEN for ever.
OpenHasTime ==
    Quiet => \A p \in Providers : state[p] = "open" => age[p] # None
=============================================================================
