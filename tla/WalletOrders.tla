---------------------------- MODULE WalletOrders ---------------------------
(***************************************************************************)
(* The hybrid wallet: sessions, typed data for orders, and signed orders.  *)
(* Each web process has a service of its own, with its sessions, orders    *)
(* and a next nonce per trader (one chain is modelled: the nonces of two   *)
(* chains share nothing).  Building reads the next nonce and reserves      *)
(* nothing; submitting checks who signed, never the nonce or the expiry.   *)
(* The types and the domain of the typed data come from the request, and a *)
(* field of the message that the types leave out is not hashed: the        *)
(* signature shows that the trader's wallet signed something, not that it  *)
(* signed the order's terms.                                               *)
(***************************************************************************)
EXTENDS Integers, FiniteSetsExt, Sequences

CONSTANTS
    Traders, WalletProcesses, Trades,   \* Trades: tokens, amounts and expiry
    OwnNonces,      \* nonces of orders that a wallet composes by itself
    MaxSessions, MaxBuilt, MaxSubmitted     \* bounds on the calls

VARIABLES
    nextNonce,      \* process |-> trader |-> nonce (_nonces)
    sessions,       \* modes of the sessions stored, in any process
    built,          \* typed data handed out, latest last
    signers,        \* wallets that have signed something (external)
    orders,         \* process |-> orders stored as open, in this order
    disorderly      \* traders who built or submitted out of turn

walletVars == <<nextNonce, sessions, built, signers, orders, disorderly>>

Modes == {"custodial", "non_custodial", "hybrid"}
TypedData == [trader : Traders, nonce : Nat, trade : Trades]

ASSUME WalletAssumption ==
    /\ OwnNonces \subseteq Nat
    /\ MaxSessions \in Nat /\ MaxBuilt \in Nat /\ MaxSubmitted \in Nat

WalletInit ==
    /\ nextNonce = [p \in WalletProcesses |-> [t \in Traders |-> 0]]
    /\ sessions = {}
    /\ built = <<>>
    /\ signers = {}
    /\ orders = [p \in WalletProcesses |-> <<>>]
    /\ disorderly = {}

CreateSession(mode, address) ==
    /\ Cardinality(sessions) < MaxSessions
    /\ mode \in {"non_custodial", "hybrid"} => address
    /\ sessions' = sessions \cup {mode}
    /\ UNCHANGED <<nextNonce, built, signers, orders, disorderly>>

Stored(p, data) == \E i \in DOMAIN orders[p] : orders[p][i] = data

BuiltFor(t) == {built[i] : i \in {j \in DOMAIN built : built[j].data.trader = t}}

BuildOrder(p, t, trade) ==
    LET data == [trader |-> t, nonce |-> nextNonce[p][t], trade |-> trade]
    IN  /\ Len(built) < MaxBuilt
        /\ built' = Append(built, [at |-> p, data |-> data])
        /\ disorderly' =
              IF \A b \in BuiltFor(t) : b.at = p /\ Stored(p, b.data)
              THEN disorderly ELSE disorderly \cup {t}
        /\ UNCHANGED <<nextNonce, sessions, signers, orders>>

\* A wallet signs typed data of some application (external).
WalletSigns(t) ==
    /\ signers' = signers \cup {t}
    /\ UNCHANGED <<nextNonce, sessions, built, orders, disorderly>>

\* What a request may submit: what the service handed out, or an order
\* composed elsewhere.
Submittable == {built[i].data : i \in DOMAIN built} \cup
               [trader : Traders, nonce : OwnNonces, trade : Trades]

RecoversTrader(data, signer) == signer = data.trader

\* Mutant: the nonce that was submitted is handed out again.
SameNonce(data) == data.nonce

NonceAfter(data) == data.nonce + 1

Submitted == MapThenSumSet(LAMBDA p : Len(orders[p]), WalletProcesses)

SubmitSignedOrder(p, data, signer) ==
    LET t == data.trader
    IN  /\ Submitted < MaxSubmitted
        /\ signer \in signers
        /\ RecoversTrader(data, signer)
        /\ orders' = [orders EXCEPT ![p] = Append(@, data)]
        /\ nextNonce' = [nextNonce EXCEPT ![p][t] = NonceAfter(data)]
        /\ disorderly' =
              IF /\ ~Stored(p, data)
                 /\ [at |-> p, data |-> data] \in BuiltFor(t)
                 /\ \A b \in BuiltFor(t) : b.at = p
              THEN disorderly ELSE disorderly \cup {t}
        /\ UNCHANGED <<sessions, built, signers>>

WalletNext ==
    \/ \E m \in Modes, a \in BOOLEAN : CreateSession(m, a)
    \/ \E p \in WalletProcesses, t \in Traders, c \in Trades : BuildOrder(p, t, c)
    \/ \E t \in Traders : WalletSigns(t)
    \/ \E p \in WalletProcesses, data \in Submittable, signer \in Traders :
          SubmitSignedOrder(p, data, signer)

WalletSpec == WalletInit /\ [][WalletNext]_walletVars

----------------------------------------------------------------------------
WalletTypeOK ==
    /\ nextNonce \in [WalletProcesses -> [Traders -> Nat]]
    /\ sessions \subseteq Modes
    /\ built \in Seq([at : WalletProcesses, data : TypedData])
    /\ signers \subseteq Traders
    /\ orders \in [WalletProcesses -> Seq(TypedData)]
    /\ disorderly \subseteq Traders

\* Two open orders of a trader share a nonce, so that one cancellation on the
\* chain would end both, only if the trader built before the last order was
\* submitted, submitted one twice or one composed elsewhere, or was served by
\* two processes: the nonce is read and not reserved, and set from whatever is
\* submitted.
OrderlyTradersReuseNoNonce ==
    \A t \in Traders \ disorderly, p, q \in WalletProcesses :
       \A i \in DOMAIN orders[p], j \in DOMAIN orders[q] :
          (orders[p][i].trader = t /\ orders[q][j].trader = t
             /\ orders[p][i].nonce = orders[q][j].nonce)
          => <<p, i>> = <<q, j>>
=============================================================================
