---------------------------- MODULE Settlement -----------------------------
(***************************************************************************)
(* Non-custodial settlement: the contracts OpenCEXSettlement (version "1") *)
(* and OpenCEXSettlementV2 (version "2", with a protocol fee), and the     *)
(* service opencex_settlement, which checks a signed order and builds the  *)
(* transaction that fills it.                                              *)
(*                                                                         *)
(* An order stands for its fields, so that two orders of one maker may     *)
(* share a nonce; a signature is who signed what under which EIP-712       *)
(* domain.  One contract is deployed, on the chain Home; its address is in *)
(* the domains of all chains, since the service takes SETTLEMENT_CONTRACT  *)
(* for every chain that has no setting of its own.  A call that reverts    *)
(* changes nothing and is no action.                                       *)
(***************************************************************************)
EXTENDS Integers, FiniteSets

CONSTANTS
    Accounts, ZeroAddress, Tokens, Orders, Nonces,
    Maker, SellToken, BuyToken, SellAmount, BuyAmount, Nonce, Expiry,
    Owner,          \* the account that deployed the V2 contract
    Deployments,    \* versions of the contract that may be deployed
    Chains, Home,   \* chains an order may name; the one of the contract
    PlanChains,     \* chains for which the service finds a contract
    FeeChoices,     \* fees the owner may ask for, in basis points
    InitialBalance, InitialApprovals,
    MaxTime,        \* bound on the clock
    MaxSignatures,  \* bound on the signatures given
    MaxChanges      \* bound on approvals, transfers and fee changes

VARIABLES
    version,        \* of the deployed contract
    feeBps, feeRecipient,
    filled,         \* order |-> amount, 0 if not filled
    cancelled,      \* pairs of a maker and a nonce
    bal,            \* token |-> account |-> balance
    approved,       \* pairs of an account and a token it lets the contract move
    now,            \* block.timestamp, and the service's clock
    signed,         \* signatures given so far
    plans,          \* signatures the service built a transaction for
    changes,        \* approvals, transfers and fee changes so far
    sold, fees,     \* order |-> what its maker gave, and the part that was fee
    taker           \* order |-> who filled it last

contract == <<version, feeBps, feeRecipient, filled, cancelled>>
tokens == <<bal, approved>>
history == <<sold, fees, taker>>
vars == <<contract, tokens, now, signed, plans, changes, history>>

MAX_FEE_BPS == 100
Versions == {"1", "2"}
Domains == [version : Versions, chain : Chains]
Signatures == [by : Accounts, of : Orders, domain : Domains]

ASSUME OrderAssumption ==
    /\ ZeroAddress \notin Accounts
    /\ Owner \in Accounts
    /\ Maker \in [Orders -> Accounts]
    /\ SellToken \in [Orders -> Tokens]
    /\ BuyToken \in [Orders -> Tokens]
    /\ SellAmount \in [Orders -> Nat]
    /\ BuyAmount \in [Orders -> Nat]
    /\ Nonce \in [Orders -> Nonces]
    /\ Expiry \in [Orders -> Nat]

ASSUME DeploymentAssumption ==
    /\ Deployments \subseteq Versions
    /\ Home \in Chains /\ PlanChains \subseteq Chains
    /\ FeeChoices \subseteq Nat
    /\ InitialBalance \in [Tokens -> [Accounts -> Nat]]
    /\ InitialApprovals \subseteq Accounts \X Tokens
    /\ MaxTime \in Nat /\ MaxSignatures \in Nat /\ MaxChanges \in Nat

----------------------------------------------------------------------------
(* The ERC-20 tokens (external). *)

\* Mutant: a token that checks the allowance only.
CoversByAllowance(b, t, from, n) == n > 0 => <<from, t>> \in approved

Covers(b, t, from, n) ==
    /\ n <= b[t][from]
    /\ n > 0 => <<from, t>> \in approved

Moved(b, t, from, to, n) ==
    LET paid == [b[t] EXCEPT ![from] = @ - n]
    IN  [b EXCEPT ![t] = [paid EXCEPT ![to] = @ + n]]

----------------------------------------------------------------------------
(* Signatures: what _recover and Account.recover_typed_data find. *)

RecoversMaker(sig, domain) == sig.domain = domain /\ sig.by = Maker[sig.of]

\* DOMAIN_SEPARATOR, fixed by the constructor.
ContractDomain == [version |-> version, chain |-> Home]

\* The service knows one version; the chain is the one the request names.
ServiceDomain(chain) == [version |-> "1", chain |-> chain]

\* Mutant: the deadline itself still counts.
ExpiredAfterDeadline(o) == now > Expiry[o]

Expired(o) == now >= Expiry[o]
Cancelled(o) == <<Maker[o], Nonce[o]>> \in cancelled

\* Mutant: the mark of an earlier fill is ignored.
FilledIgnored(o) == filled[o] >= 0

Unfilled(o) == filled[o] = 0

\* Mutant: any share of the sell amount.
FeeUnbounded(f) == f <= 10000

FeeAllowed(f) == f <= MAX_FEE_BPS

\* The V1 contract takes no fee.
Fee(o) == IF version = "1" THEN 0 ELSE (SellAmount[o] * feeBps) \div 10000

\* Mutant: the fee is taken on top of the sell amount.
ToTakerInFull(o) == SellAmount[o]

ToTaker(o) == SellAmount[o] - Fee(o)

----------------------------------------------------------------------------
(* The constructor refuses a fee above the bound and accepts any recipient. *)
Init ==
    /\ version \in Deployments
    /\ feeBps \in {f \in FeeChoices : FeeAllowed(f)}
    /\ feeRecipient \in Accounts \cup {ZeroAddress}
    /\ version = "1" => feeBps = 0 /\ feeRecipient = ZeroAddress
    /\ filled = [o \in Orders |-> 0]
    /\ cancelled = {}
    /\ bal = InitialBalance
    /\ approved = InitialApprovals
    /\ now = 0
    /\ signed = {}
    /\ plans = {}
    /\ changes = 0
    /\ sold = [o \in Orders |-> 0]
    /\ fees = [o \in Orders |-> 0]
    /\ taker = [o \in Orders |-> ZeroAddress]

Tick ==
    /\ now < MaxTime
    /\ now' = now + 1
    /\ UNCHANGED <<contract, tokens, signed, plans, changes, history>>

\* Any account may sign any order, under any domain.
Sign(sig) ==
    /\ sig \notin signed
    /\ Cardinality(signed) < MaxSignatures
    /\ signed' = signed \cup {sig}
    /\ UNCHANGED <<contract, tokens, now, plans, changes, history>>

\* SettlementService.build_plan: expiry and signature, both before the
\* transaction is encoded; it goes to the contract's address on the chain of the
\* order, whether or not that is Home.  Without an address the plan has no
\* transaction, and is left out.
BuildPlan(sig) ==
    /\ sig \in signed \ plans
    /\ ~Expired(sig.of)
    /\ \E chain \in PlanChains : RecoversMaker(sig, ServiceDomain(chain))
    /\ plans' = plans \cup {sig}
    /\ UNCHANGED <<contract, tokens, now, signed, changes, history>>

----------------------------------------------------------------------------
(* Anyone may call the contract, with or without a plan of the service. *)

FillOrder(t, sig) ==
    LET o == sig.of
        paid == Moved(bal, BuyToken[o], t, Maker[o], BuyAmount[o])
        sent == Moved(paid, SellToken[o], Maker[o], t, ToTaker(o))
    IN  /\ ~Expired(o)
        /\ ~Cancelled(o)
        /\ Unfilled(o)
        /\ RecoversMaker(sig, ContractDomain)
        /\ filled' = [filled EXCEPT ![o] = SellAmount[o]]
        /\ Covers(bal, BuyToken[o], t, BuyAmount[o])
        /\ Covers(paid, SellToken[o], Maker[o], ToTaker(o))
        /\ IF Fee(o) = 0
           THEN bal' = sent
           ELSE /\ Covers(sent, SellToken[o], Maker[o], Fee(o))
                /\ feeRecipient # ZeroAddress   \* ERC-20s refuse it
                /\ bal' = Moved(sent, SellToken[o], Maker[o], feeRecipient, Fee(o))
        /\ sold' = [sold EXCEPT ![o] = @ + ToTaker(o) + Fee(o)]
        /\ fees' = [fees EXCEPT ![o] = @ + Fee(o)]
        /\ taker' = [taker EXCEPT ![o] = t]
        /\ UNCHANGED <<version, feeBps, feeRecipient, cancelled, approved, now,
                       signed, plans, changes>>

CancelOrder(sender, nonce) ==
    /\ <<sender, nonce>> \notin cancelled
    /\ cancelled' = cancelled \cup {<<sender, nonce>>}
    /\ UNCHANGED <<version, feeBps, feeRecipient, filled, tokens, now, signed,
                   plans, changes, history>>

SetFeeConfig(sender, recipient, f) ==
    /\ version = "2"
    /\ sender = Owner
    /\ FeeAllowed(f) /\ recipient # ZeroAddress
    /\ changes < MaxChanges
    /\ feeRecipient' = recipient
    /\ feeBps' = f
    /\ changes' = changes + 1
    /\ UNCHANGED <<version, filled, cancelled, tokens, now, signed, plans, history>>

----------------------------------------------------------------------------
(* The accounts and the tokens, on their own (external). *)

Approve(a, t) ==
    /\ changes < MaxChanges
    /\ approved' = IF <<a, t>> \in approved THEN approved \ {<<a, t>>}
                                            ELSE approved \cup {<<a, t>>}
    /\ changes' = changes + 1
    /\ UNCHANGED <<contract, bal, now, signed, plans, history>>

Transfer(t, from, to, n) ==
    /\ changes < MaxChanges
    /\ from # to /\ n > 0 /\ n <= bal[t][from]
    /\ bal' = Moved(bal, t, from, to, n)
    /\ changes' = changes + 1
    /\ UNCHANGED <<contract, approved, now, signed, plans, history>>

Next ==
    \/ Tick
    \/ \E sig \in Signatures : Sign(sig) \/ BuildPlan(sig)
    \/ \E t \in Accounts, sig \in signed : FillOrder(t, sig)
    \/ \E a \in Accounts, n \in Nonces : CancelOrder(a, n)
    \/ \E a \in Accounts, r \in Accounts \cup {ZeroAddress}, f \in FeeChoices :
          SetFeeConfig(a, r, f)
    \/ \E a \in Accounts, t \in Tokens : Approve(a, t)
    \/ \E t \in Tokens, a \in Accounts, b \in Accounts :
          Transfer(t, a, b, bal[t][a])

Spec == Init /\ [][Next]_vars

----------------------------------------------------------------------------
(* Properties *)

\* Types of the variables; balances never go below zero.
TypeOK ==
    /\ version \in Versions
    /\ feeBps \in Nat
    /\ feeRecipient \in Accounts \cup {ZeroAddress}
    /\ filled \in [Orders -> Nat]
    /\ cancelled \subseteq Accounts \X Nonces
    /\ bal \in [Tokens -> [Accounts -> Nat]]
    /\ approved \subseteq Accounts \X Tokens
    /\ now \in Nat /\ changes \in Nat
    /\ signed \subseteq Signatures /\ plans \subseteq signed
    /\ sold \in [Orders -> Nat] /\ fees \in [Orders -> Nat]
    /\ taker \in [Orders -> Accounts \cup {ZeroAddress}]

\* However often an order's signatures are submitted, and by whom, its maker
\* gives nothing for it or exactly the amount signed, fee included
\* (fillOrder's "filled" check with the transfers after it).
SoldOnce == \A o \in Orders : sold[o] \in {0, SellAmount[o]}

\* Whatever the owner changes between the signature and the fill, the fee of
\* an order stays within MAX_FEE_BPS of what it sold: the bound is enforced by
\* the constructor and setFeeConfig, and the division rounds down.
FeeCap == \A o \in Orders : fees[o] * 10000 <= MAX_FEE_BPS * sold[o]

\* A plan that the service builds carries a signature that the deployed contract
\* accepts as the maker's (build_plan, notes: "fillOrder on settlement; maker
\* must approve sellToken": nothing else is left to do).
PlansRecover == \A sig \in plans : RecoversMaker(sig, ContractDomain)

\* A fill gives the maker the full buy amount for no more than the sell amount,
\* and the taker at least the sell amount less the largest fee, whoever the
\* taker and the recipient of the fee are.
FairTrade ==
    [][\A o \in Orders :
          LET m == Maker[o]
              t == taker'[o]
              s == SellToken[o]
              b == BuyToken[o]
          IN  (sold'[o] # sold[o] /\ s # b /\ t # m) =>
                 /\ bal'[b][m] = bal[b][m] + BuyAmount[o]
                 /\ bal'[s][m] >= bal[s][m] - SellAmount[o]
                 /\ (bal'[s][t] - bal[s][t]) * 10000 >=
                       (10000 - MAX_FEE_BPS) * SellAmount[o]]_vars

\* The contract implements the abstract order book: an order trades only
\* between its maker's signature for this contract and the first of its fill,
\* its cancellation and its expiry, and then for the amount it names.
SignedFor(o) == \E sig \in signed : sig.of = o /\ RecoversMaker(sig, ContractDomain)

Closed(o) == <<Maker[o], Nonce[o]>> \in cancelled \/ now >= Expiry[o]

StatusOf(o) ==
    CASE filled[o] # 0 -> "filled"
      [] filled[o] = 0 /\ Closed(o) -> "closed"
      [] filled[o] = 0 /\ ~Closed(o) ->
            IF SignedFor(o) THEN "open" ELSE "unsigned"

Book == INSTANCE OrderBook WITH status <- [o \in Orders |-> StatusOf(o)]

ImplementsOrderBook == Book!Spec

=============================================================================
