------------------------------- MODULE SwapApi -----------------------------
(***************************************************************************)
(* The REST views over 0x, one request after another of one web process:   *)
(* validation, the address quoted as taker, the tokens, the call to 0x and *)
(* the answer; and the execution the asynchronous view queues.  The taker  *)
(* of a custodial quote is an address of the environment, the keeper's or a *)
(* safe's; the account that signs later is that of the keeper's private    *)
(* key, and nothing compares the two.  Requests share                      *)
(* nothing but the queue, so that concurrent ones add no behaviour here.   *)
(* A client may send a request again: nothing recognises it.  Addresses    *)
(* stand for the tokens they name; prices, gas and sources are left out.   *)
(***************************************************************************)
EXTENDS Integers, Sequences

CONSTANTS
    Chains,         \* chain ids a client may name
    SupportedChains,    \* chains served
    KeeperAddressChains, SafeChains,    \* chains whose KEEPER_ADDRESS, or
                                        \* SAFE_ADDR, is set
    Tokens,         \* words for a token, symbols and addresses
    Listed,         \* <<chain, word>> that resolve_token finds
    ErrorCodes,     \* HTTP codes 0x may answer with
    MaxRequests     \* bound on requests

VARIABLES
    request,        \* the request being served, or NoRequest
    stage,          \* what the view does next
    asked,          \* what 0x was asked for this request
    quote,          \* what it answered, for the row
    answer,         \* HTTP status of the last answer
    rows,           \* SwapExecution rows, in order of creation
    requests

apiVars == <<request, stage, asked, quote, answer, rows, requests>>

Views == {"preview", "quote", "prepare", "execute", "execute_async"}
Stages == {"idle", "check", "ask", "wait", "create", "publish"}
KeeperAddress == "keeper_address"
Safe == "safe"
User == "user"
Requests == [view : Views, chain : Chains, sell : Tokens, buy : Tokens,
             valid : BOOLEAN, loggedIn : BOOLEAN]
Terms == [chain : Chains, sell : Tokens, buy : Tokens, taker : {KeeperAddress, Safe, User}]
\* An answer that is not JSON becomes a quote without a transaction.
Quotes == [terms : Terms, transaction : BOOLEAN]
Rows == [request : Requests, quote : Quotes, published : BOOLEAN]

ASSUME ApiAssumption ==
    /\ SupportedChains \subseteq Chains
    /\ KeeperAddressChains \subseteq Chains /\ SafeChains \subseteq Chains
    /\ Listed \subseteq Chains \X Tokens
    /\ ErrorCodes \subseteq 400..599
    /\ MaxRequests \in Nat

NoRequest == [view |-> "none"]
NoTerms == [taker |-> "none"]
NoQuote == [terms |-> NoTerms, transaction |-> FALSE]

Custodial == {"execute", "execute_async"}

\* The serializers: a positive integer amount, a supported chain; the one of
\* prepare only wants its fields, whatever the amount and the chain.
Validates(r) == r.valid /\ (r.chain \in SupportedChains \/ r.view = "prepare")

Resolves(r) == <<r.chain, r.sell>> \in Listed /\ <<r.chain, r.buy>> \in Listed

HasKeeper(chain) == chain \in KeeperAddressChains \cup SafeChains

\* The status with which a view refuses a request before 0x is asked, or 0.
Accepted == 0

PublicRefusal(r) == IF Validates(r) /\ Resolves(r) THEN Accepted ELSE 400

\* One execute view resolves the tokens before it looks for the keeper.
ExecuteRefusal(r) ==
    CASE ~r.loggedIn -> 401
      [] ~Validates(r) \/ ~Resolves(r) -> 400
      [] ~HasKeeper(r.chain) -> 503
      [] OTHER -> Accepted

\* The other looks for the keeper before it resolves the tokens.
AsyncRefusal(r) ==
    CASE ~r.loggedIn -> 401
      [] ~Validates(r) -> 400
      [] ~HasKeeper(r.chain) -> 503
      [] ~Resolves(r) -> 400
      [] OTHER -> Accepted

PrepareRefusal(r) ==
    CASE ~r.loggedIn -> 401
      [] ~Validates(r) -> 400
      [] OTHER -> Accepted

Refusal(r) ==
    CASE r.view = "execute" -> ExecuteRefusal(r)
      [] r.view = "execute_async" -> AsyncRefusal(r)
      [] r.view = "prepare" -> PrepareRefusal(r)
      [] OTHER -> PublicRefusal(r)

\* _error_response hands an error of 0x on; the other two views say 400.
ErrorStatus(view, code) ==
    IF view \in {"execute_async", "prepare"} \/ code = 0 THEN 400 ELSE code

\* A custodial swap is quoted for the configured address, the keeper's first,
\* whose own key need not be the one that signs; preview may name no taker.
TakerOf(view, chain) ==
    CASE view \notin Custodial -> User
      [] chain \in KeeperAddressChains -> KeeperAddress
      [] OTHER -> Safe

----------------------------------------------------------------------------
ApiInit ==
    /\ request = NoRequest /\ stage = "idle"
    /\ asked = NoTerms /\ quote = NoQuote
    /\ answer = 0 /\ rows = <<>> /\ requests = 0

Respond(status) ==
    /\ stage' = "idle" /\ request' = NoRequest
    /\ asked' = NoTerms /\ quote' = NoQuote
    /\ answer' = status

Receive(r) ==
    /\ stage = "idle" /\ requests < MaxRequests
    /\ request' = r /\ stage' = "check"
    /\ requests' = requests + 1
    /\ UNCHANGED <<asked, quote, answer, rows>>

Check ==
    /\ stage = "check"
    /\ IF Refusal(request) # Accepted THEN Respond(Refusal(request))
       ELSE stage' = "ask" /\ UNCHANGED <<request, asked, quote, answer>>
    /\ UNCHANGED <<rows, requests>>

AskZeroX ==
    /\ stage = "ask"
    /\ asked' = [chain |-> request.chain, sell |-> request.sell,
                 buy |-> request.buy, taker |-> TakerOf(request.view, request.chain)]
    /\ stage' = "wait"
    /\ UNCHANGED <<request, quote, answer, rows, requests>>

\* 0x answers, with a JSON object or with something else.
ZeroXAnswers(json) ==
    LET q == [terms |-> asked, transaction |-> json]
    IN  /\ stage = "wait"
        /\ IF request.view = "execute_async"
           THEN /\ quote' = q /\ stage' = "create"
                /\ UNCHANGED <<request, asked, answer>>
           ELSE Respond(IF request.view = "execute" THEN 202 ELSE 200)
        /\ UNCHANGED <<rows, requests>>

\* Mutant: session.get without a timeout.
OnlyErrors(code) ==
    /\ stage = "wait" /\ code # 0
    /\ Respond(ErrorStatus(request.view, code))
    /\ UNCHANGED <<rows, requests>>

\* 0x answers with an error, or does not answer within the timeout (code 0).
ZeroXFails(code) ==
    /\ stage = "wait"
    /\ Respond(ErrorStatus(request.view, code))
    /\ UNCHANGED <<rows, requests>>

\* enqueue_swap; whatever fails in it leaves the view, whose try has ended.
CreateRow(ok) ==
    /\ stage = "create"
    /\ IF ok THEN /\ rows' = Append(rows, [request |-> request, quote |-> quote,
                                           published |-> FALSE])
                  /\ stage' = "publish"
                  /\ UNCHANGED <<request, asked, quote, answer>>
       ELSE Respond(500) /\ UNCHANGED rows
    /\ UNCHANGED requests

\* If the broker refuses the message, the row stays.
Publish(ok) ==
    /\ stage = "publish"
    /\ rows' = [rows EXCEPT ![Len(rows)].published = ok]
    /\ Respond(IF ok THEN 202 ELSE 500)
    /\ UNCHANGED requests

Serve == Check \/ AskZeroX \/ \E ok \in BOOLEAN : CreateRow(ok) \/ Publish(ok)

ApiNext ==
    \/ \E r \in Requests : Receive(r)
    \/ Serve
    \/ \E json \in BOOLEAN : ZeroXAnswers(json)
    \/ \E code \in ErrorCodes \cup {0} : ZeroXFails(code)

\* A worker that has a request goes on with it (the database and the broker
\* answer or fail); 0x need not answer, but the client's timeout ends its call.
ApiFairness == WF_apiVars(Serve) /\ WF_apiVars(ZeroXFails(0))

ApiSpec == ApiInit /\ [][ApiNext]_apiVars /\ ApiFairness

----------------------------------------------------------------------------
ApiTypeOK ==
    /\ request \in Requests \cup {NoRequest}
    /\ stage \in Stages
    /\ asked \in Terms \cup {NoTerms}
    /\ quote \in Quotes \cup {NoQuote}
    /\ answer \in {0, 200, 202} \cup 400..599
    /\ rows \in Seq(Rows)
    /\ requests \in Nat

\* Every request is answered, whether or not 0x is: each call has a timeout and
\* each error of it a status.
EveryRequestAnswered == (stage # "idle") ~> (stage = "idle")
=============================================================================
