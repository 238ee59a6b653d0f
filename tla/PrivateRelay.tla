----------------------------- MODULE PrivateRelay --------------------------
(***************************************************************************)
(* submit_private_raw_tx: a signed transaction is offered to one private   *)
(* endpoint with eth_sendPrivateTransaction and, unless that gives a       *)
(* result, with eth_sendRawTransaction.  The endpoint's answer may be lost *)
(* after it took the transaction.  A hash stands for the transaction it is *)
(* of; the result need not be the hash of the one submitted.               *)
(***************************************************************************)
EXTENDS Integers, Sequences

CONSTANTS RawTxs, NoHash, MaxSubmissions  \* MaxSubmissions bounds the calls

VARIABLES
    relay,          \* the submission: transaction, next method, result
    outcomes,       \* what its calls to the endpoint met, in order
    submissions

relayVars == <<relay, outcomes, submissions>>

Methods == {"private", "raw", "done"}

\* What a call to the endpoint meets (external): an answer with a result, or
\* NoHash, if the answer has none, is lost, is no JSON or does not come in time.
\* Whether the endpoint took the transaction shows in neither.
Outcomes == RawTxs \cup {NoHash}

ASSUME RelayAssumption == NoHash \notin RawTxs /\ MaxSubmissions \in Nat

RelayInit ==
    /\ relay = [tx |-> NoHash, method |-> "done", result |-> NoHash]
    /\ outcomes = <<>> /\ submissions = 0

\* Without an endpoint, or with MEV_PROTECT off, nothing is sent.
SubmitPrivate(tx, configured) ==
    /\ relay.method = "done" /\ submissions < MaxSubmissions
    /\ relay' = [tx |-> tx, result |-> NoHash,
                 method |-> IF configured THEN "private" ELSE "done"]
    /\ outcomes' = <<>>
    /\ submissions' = submissions + 1

\* Mutant: a method that fails ends the loop.
FirstMethodOnly(method, result) == "done"

MethodAfter(method, result) ==
    IF result = NoHash /\ method = "private" THEN "raw" ELSE "done"

\* Either method; an exception is logged and the next method tried, and
\* whatever result an answer has is returned.
TryMethod(outcome) ==
    /\ relay.method # "done"
    /\ relay' = [relay EXCEPT !.result = outcome,
                              !.method = MethodAfter(@, outcome)]
    /\ outcomes' = Append(outcomes, outcome)
    /\ UNCHANGED submissions

RelayNext ==
    \/ \E tx \in RawTxs, configured \in BOOLEAN : SubmitPrivate(tx, configured)
    \/ \E outcome \in Outcomes : TryMethod(outcome)

RelaySpec == RelayInit /\ [][RelayNext]_relayVars

----------------------------------------------------------------------------
RelayTypeOK ==
    /\ relay \in [tx : RawTxs \cup {NoHash}, method : Methods,
                  result : RawTxs \cup {NoHash}]
    /\ outcomes \in Seq(Outcomes)
    /\ submissions \in Nat

Given(result) == \E i \in DOMAIN outcomes : outcomes[i] = result

\* What is returned is a result the endpoint gave in this submission, and if
\* nothing is, both methods were tried and neither gave one: a caller who then
\* broadcasts the transaction elsewhere may repeat the submission and does not
\* drop one that was answered (the loop of submit_private_raw_tx).
ResultsWereGiven ==
    relay.method = "done" =>
       /\ relay.result # NoHash => Given(relay.result)
       /\ (relay.result = NoHash /\ Len(outcomes) > 0) =>
             Len(outcomes) = 2 /\ \A tx \in RawTxs : ~Given(tx)
=============================================================================
