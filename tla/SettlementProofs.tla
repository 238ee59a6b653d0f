------------------------- MODULE SettlementProofs --------------------------
(* Proofs about Settlement, for all orders, accounts, tokens and bounds. *)
EXTENDS Settlement, TLAPS

----------------------------------------------------------------------------
(* The fee is a natural number, at most 1% of what it is taken from. *)

LEMMA DivTenThousand ==
    ASSUME NEW n \in Nat
    PROVE  /\ n \div 10000 \in Nat
           /\ (n \div 10000) * 10000 <= n
<1> DEFINE q == n \div 10000
<1>1. q \in Int /\ n % 10000 \in 0..9999 /\ n = 10000 * q + (n % 10000)
  BY SMT
<1> QED
  BY <1>1, SMT

LEMMA ShareIsSmall ==
    ASSUME NEW a \in Nat, NEW f \in Nat, f <= 100
    PROVE  /\ a * f \in Nat
           /\ a * f <= 100 * a
  BY SMT

LEMMA FeeBound ==
    ASSUME NEW o \in Orders, feeBps \in Nat, feeBps <= MAX_FEE_BPS
    PROVE  /\ Fee(o) \in Nat
           /\ Fee(o) * 10000 <= MAX_FEE_BPS * SellAmount[o]
           /\ ToTaker(o) \in Nat
           /\ ToTaker(o) + Fee(o) = SellAmount[o]
<1>1. SellAmount[o] \in Nat
  BY OrderAssumption
<1>2. CASE version = "1"
  BY <1>1, <1>2 DEF Fee, ToTaker, MAX_FEE_BPS
<1>3. CASE version # "1"
  <2> DEFINE p == SellAmount[o] * feeBps
  <2>1. p \in Nat /\ p <= 100 * SellAmount[o]
    BY <1>1, ShareIsSmall DEF MAX_FEE_BPS
  <2>2. p \div 10000 \in Nat /\ (p \div 10000) * 10000 <= p
    BY <2>1, DivTenThousand
  <2>3. Fee(o) = p \div 10000
    BY <1>3 DEF Fee
  <2> HIDE DEF p
  <2>4. Fee(o) \in Nat /\ Fee(o) * 10000 <= 100 * SellAmount[o]
    BY <1>1, <2>1, <2>2, <2>3
  <2> QED
    BY <1>1, <2>4 DEF ToTaker, MAX_FEE_BPS
<1> QED
  BY <1>2, <1>3

\* A transfer that the balance covers leaves balances that are natural numbers.
LEMMA MovedType ==
    ASSUME NEW b \in [Tokens -> [Accounts -> Nat]],
           NEW t \in Tokens, NEW from \in Accounts, NEW to \in Accounts,
           NEW n \in Nat, n <= b[t][from]
    PROVE  Moved(b, t, from, to, n) \in [Tokens -> [Accounts -> Nat]]
<1> DEFINE out == [b[t] EXCEPT ![from] = @ - n]
           in  == [out EXCEPT ![to] = @ + n]
<1>1. b[t] \in [Accounts -> Nat]
  OBVIOUS
<1>2. out \in [Accounts -> Nat]
  BY <1>1
<1>3. in \in [Accounts -> Nat]
  BY <1>2
<1>4. Moved(b, t, from, to, n) = [b EXCEPT ![t] = in]
  BY DEF Moved
<1> QED
  BY <1>3, <1>4

----------------------------------------------------------------------------
(* The inductive invariant: besides the types, the fee setting is in bounds  *)
(* and the mark of an order agrees with what its maker gave for it.          *)

FeeSettingBounded == feeBps <= MAX_FEE_BPS

Marked(o) ==
    /\ filled[o] = SellAmount[o]
    /\ sold[o] = SellAmount[o]
    /\ fees[o] * 10000 <= MAX_FEE_BPS * SellAmount[o]

Untouched(o) == filled[o] = 0 /\ sold[o] = 0 /\ fees[o] = 0

MarkIsTrue == \A o \in Orders : Marked(o) \/ Untouched(o)

IInv == TypeOK /\ FeeSettingBounded /\ MarkIsTrue

USE OrderAssumption, DeploymentAssumption

LEMMA InitInv == Init => IInv
<1> SUFFICES ASSUME Init PROVE IInv
  OBVIOUS
<1>1. TypeOK
  BY DEF Init, TypeOK, FeeAllowed, MAX_FEE_BPS
<1>2. FeeSettingBounded
  BY DEF Init, FeeAllowed, FeeSettingBounded
<1>3. MarkIsTrue
  BY DEF Init, MarkIsTrue, Untouched
<1> QED
  BY <1>1, <1>2, <1>3 DEF IInv

\* What a fill does to the balances and the history.
LEMMA FillMoves ==
    ASSUME IInv, NEW t \in Accounts, NEW sig \in signed, FillOrder(t, sig)
    PROVE  /\ bal' \in [Tokens -> [Accounts -> Nat]]
           /\ sold' = [sold EXCEPT ![sig.of] = SellAmount[sig.of]]
           /\ fees' = [fees EXCEPT ![sig.of] = Fee(sig.of)]
           /\ Fee(sig.of) \in Nat
           /\ Fee(sig.of) * 10000 <= MAX_FEE_BPS * SellAmount[sig.of]
<1> DEFINE o == sig.of
           paid == Moved(bal, BuyToken[o], t, Maker[o], BuyAmount[o])
           sent == Moved(paid, SellToken[o], Maker[o], t, ToTaker(o))
<1>1. o \in Orders
  BY DEF IInv, TypeOK, Signatures
<1>2. /\ Maker[o] \in Accounts /\ SellToken[o] \in Tokens /\ BuyToken[o] \in Tokens
      /\ SellAmount[o] \in Nat /\ BuyAmount[o] \in Nat
  BY <1>1
<1>3. /\ Fee(o) \in Nat /\ ToTaker(o) \in Nat
      /\ ToTaker(o) + Fee(o) = SellAmount[o]
      /\ Fee(o) * 10000 <= MAX_FEE_BPS * SellAmount[o]
  BY <1>1, FeeBound DEF IInv, TypeOK, FeeSettingBounded
<1>4. paid \in [Tokens -> [Accounts -> Nat]]
  BY <1>2, MovedType DEF IInv, TypeOK, FillOrder, Covers
<1>5. sent \in [Tokens -> [Accounts -> Nat]]
  <2>1. ToTaker(o) <= paid[SellToken[o]][Maker[o]]
    BY DEF FillOrder, Covers
  <2> HIDE DEF paid, o
  <2> QED
    BY <1>2, <1>3, <1>4, <2>1, MovedType
<1>6. bal' \in [Tokens -> [Accounts -> Nat]]
  <2>1. CASE Fee(o) = 0
    BY <1>5, <2>1 DEF FillOrder
  <2>2. CASE Fee(o) # 0
    <3>1. /\ bal' = Moved(sent, SellToken[o], Maker[o], feeRecipient, Fee(o))
          /\ Fee(o) <= sent[SellToken[o]][Maker[o]]
          /\ feeRecipient # ZeroAddress
      BY <2>2 DEF FillOrder, Covers
    <3>2. feeRecipient \in Accounts
      BY <3>1 DEF IInv, TypeOK
    <3> HIDE DEF sent, o
    <3>3. Moved(sent, SellToken[o], Maker[o], feeRecipient, Fee(o))
             \in [Tokens -> [Accounts -> Nat]]
      <4>1. /\ sent \in [Tokens -> [Accounts -> Nat]]
            /\ SellToken[o] \in Tokens /\ Maker[o] \in Accounts
            /\ feeRecipient \in Accounts /\ Fee(o) \in Nat
            /\ Fee(o) <= sent[SellToken[o]][Maker[o]]
        BY <1>2, <1>3, <1>5, <3>1, <3>2
      <4> QED
        BY <4>1, MovedType
    <3> QED
      BY <3>1, <3>3
  <2> QED
    BY <2>1, <2>2
<1>7. sold[o] = 0 /\ fees[o] = 0
  <2>1. filled[o] = 0
    BY DEF FillOrder, Unfilled
  <2>2. CASE Untouched(o)
    BY <2>2 DEF Untouched
  <2>3. CASE Marked(o)
    <3>1. SellAmount[o] = 0 /\ sold[o] = 0 /\ fees[o] * 10000 <= 0
      BY <2>1, <2>3 DEF Marked, MAX_FEE_BPS
    <3>2. fees[o] \in Nat
      BY <1>1 DEF IInv, TypeOK
    <3> QED
      BY <3>1, <3>2
  <2> QED
    BY <1>1, <2>2, <2>3 DEF IInv, MarkIsTrue
<1>8. sold' = [sold EXCEPT ![o] = SellAmount[o]]
  <2>1. sold' = [sold EXCEPT ![o] = sold[o] + ToTaker(o) + Fee(o)]
    BY DEF FillOrder
  <2>2. sold[o] + ToTaker(o) + Fee(o) = SellAmount[o]
    BY <1>2, <1>3, <1>7
  <2> QED
    BY <2>1, <2>2
<1>9. fees' = [fees EXCEPT ![o] = Fee(o)]
  <2>1. fees' = [fees EXCEPT ![o] = fees[o] + Fee(o)]
    BY DEF FillOrder
  <2>2. fees[o] + Fee(o) = Fee(o)
    BY <1>3, <1>7
  <2> QED
    BY <2>1, <2>2
<1> QED
  BY <1>3, <1>6, <1>8, <1>9

LEMMA FillInv ==
    ASSUME IInv, NEW t \in Accounts, NEW sig \in signed, FillOrder(t, sig)
    PROVE  IInv'
<1> DEFINE o == sig.of
<1>1. o \in Orders
  BY DEF IInv, TypeOK, Signatures
<1>2. UNCHANGED <<version, feeBps, feeRecipient, cancelled, approved, now,
                  signed, plans, changes>>
  BY DEF FillOrder
<1>3. /\ filled' = [filled EXCEPT ![o] = SellAmount[o]]
      /\ taker' = [taker EXCEPT ![o] = t]
  BY DEF FillOrder
<1>4. TypeOK'
  <2>1. SellAmount[o] \in Nat /\ Fee(o) \in Nat
    BY <1>1, FillMoves
  <2>2. /\ filled' \in [Orders -> Nat]
        /\ taker' \in [Orders -> Accounts \cup {ZeroAddress}]
    BY <1>3, <2>1 DEF IInv, TypeOK
  <2>3. sold' \in [Orders -> Nat] /\ fees' \in [Orders -> Nat]
    <3>1. /\ sold' = [sold EXCEPT ![o] = SellAmount[o]]
          /\ fees' = [fees EXCEPT ![o] = Fee(o)]
      BY FillMoves
    <3> HIDE DEF o
    <3> QED
      BY <2>1, <3>1 DEF IInv, TypeOK
  <2>4. bal' \in [Tokens -> [Accounts -> Nat]]
    BY FillMoves
  <2> HIDE DEF o
  <2> QED
    BY <1>2, <2>2, <2>3, <2>4 DEF IInv, TypeOK
<1>5. FeeSettingBounded'
  BY <1>2 DEF IInv, FeeSettingBounded
<1>6. MarkIsTrue'
  <2> SUFFICES ASSUME NEW p \in Orders PROVE Marked(p)' \/ Untouched(p)'
    BY DEF MarkIsTrue
  <2>1. CASE p = o
    BY <1>1, <1>3, <2>1, FillMoves DEF IInv, TypeOK, Marked
  <2>2. CASE p # o
    BY <1>1, <1>3, <2>2, FillMoves
       DEF IInv, TypeOK, MarkIsTrue, Marked, Untouched
  <2> QED
    BY <2>1, <2>2
<1> QED
  BY <1>4, <1>5, <1>6 DEF IInv

LEMMA StepInv == IInv /\ [Next]_vars => IInv'
<1> SUFFICES ASSUME IInv, [Next]_vars PROVE IInv'
  OBVIOUS
<1> USE DEF contract, tokens, history
\* Steps that leave the orders' marks and the fee setting alone only have to
\* keep the types.
<1>a. ASSUME UNCHANGED <<feeBps, filled, sold, fees>>, TypeOK'
      PROVE  IInv'
  BY <1>a DEF IInv, FeeSettingBounded, MarkIsTrue, Marked, Untouched
<1>1. CASE Tick
  BY <1>a, <1>1 DEF Tick, IInv, TypeOK
<1>2. ASSUME NEW sig \in Signatures, Sign(sig)
      PROVE  IInv'
  BY <1>a, <1>2 DEF Sign, IInv, TypeOK
<1>3. ASSUME NEW sig \in Signatures, BuildPlan(sig)
      PROVE  IInv'
  BY <1>a, <1>3 DEF BuildPlan, IInv, TypeOK
<1>4. ASSUME NEW t \in Accounts, NEW sig \in signed, FillOrder(t, sig)
      PROVE  IInv'
  BY <1>4, FillInv
<1>5. ASSUME NEW a \in Accounts, NEW n \in Nonces, CancelOrder(a, n)
      PROVE  IInv'
  BY <1>a, <1>5 DEF CancelOrder, IInv, TypeOK
<1>6. ASSUME NEW a \in Accounts, NEW r \in Accounts \cup {ZeroAddress},
             NEW f \in FeeChoices, SetFeeConfig(a, r, f)
      PROVE  IInv'
  BY <1>6 DEF SetFeeConfig, FeeAllowed, IInv, TypeOK, FeeSettingBounded,
              MarkIsTrue, Marked, Untouched
<1>7. ASSUME NEW a \in Accounts, NEW t \in Tokens, Approve(a, t)
      PROVE  IInv'
  BY <1>a, <1>7 DEF Approve, IInv, TypeOK
<1>8. ASSUME NEW t \in Tokens, NEW a \in Accounts, NEW b \in Accounts,
             Transfer(t, a, b, bal[t][a])
      PROVE  IInv'
  <2>1. bal[t][a] \in Nat
    BY DEF IInv, TypeOK
  <2>2. bal' \in [Tokens -> [Accounts -> Nat]]
    BY <1>8, <2>1, MovedType DEF Transfer, IInv, TypeOK
  <2> QED
    BY <1>a, <1>8, <2>2 DEF Transfer, IInv, TypeOK
<1>9. CASE UNCHANGED vars
  BY <1>a, <1>9 DEF vars, IInv, TypeOK
<1> QED
  BY <1>1, <1>2, <1>3, <1>4, <1>5, <1>6, <1>7, <1>8, <1>9 DEF Next

THEOREM Invariance == Spec => []IInv
  BY InitInv, StepInv, PTL DEF Spec

----------------------------------------------------------------------------
(* Every reachable state is well typed: in particular no balance that the  *)
(* contract moves goes below zero.                                         *)
THEOREM TypeCorrect == Spec => []TypeOK
<1>1. IInv => TypeOK
  BY DEF IInv
<1> QED
  BY <1>1, Invariance, PTL

(* However often, by whom and with which signatures fillOrder is called, the *)
(* maker of an order gives nothing or exactly what the order offers.         *)
THEOREM SellsOnce == Spec => []SoldOnce
<1>1. IInv => SoldOnce
  BY DEF IInv, MarkIsTrue, Marked, Untouched, SoldOnce
<1> QED
  BY <1>1, Invariance, PTL

(* No history of fee changes lets an order pay more than MAX_FEE_BPS.       *)
THEOREM FeesCapped == Spec => []FeeCap
<1>1. IInv => FeeCap
  <2> SUFFICES ASSUME IInv, NEW o \in Orders
               PROVE  fees[o] * 10000 <= MAX_FEE_BPS * sold[o]
    BY DEF FeeCap
  <2>1. CASE Marked(o)
    BY <2>1 DEF Marked
  <2>2. CASE Untouched(o)
    BY <2>2 DEF Untouched, MAX_FEE_BPS
  <2> QED
    BY <2>1, <2>2 DEF IInv, MarkIsTrue
<1> QED
  BY <1>1, Invariance, PTL

----------------------------------------------------------------------------
(* Both sides of a fill get what the order promises.                       *)

\* The transfers of a fill that takes the balances from b0 to b1: buy of token b
\* from the taker t to the maker m, give of token s back, and for the fee nothing
\* or a third transfer, to r.
FillTransfers(b0, b1, b, s, m, t, r, buy, give, fee) ==
    LET paid == Moved(b0, b, t, m, buy)
        sent == Moved(paid, s, m, t, give)
    IN  /\ buy <= b0[b][t] /\ give <= paid[s][m]
        /\ b1 = sent \/ b1 = Moved(sent, s, m, r, fee)

LEMMA WhatTransfersMove ==
    ASSUME NEW b0 \in [Tokens -> [Accounts -> Nat]], NEW b1,
           NEW b \in Tokens, NEW s \in Tokens, s # b,
           NEW m \in Accounts, NEW t \in Accounts, t # m, NEW r \in Accounts,
           NEW buy \in Nat, NEW give \in Nat, NEW fee \in Nat,
           FillTransfers(b0, b1, b, s, m, t, r, buy, give, fee)
    PROVE  /\ b1[b][m] = b0[b][m] + buy
           /\ b1[s][m] >= b0[s][m] - (give + fee)
           /\ b1[s][t] >= b0[s][t] + give
<1> DEFINE paid == Moved(b0, b, t, m, buy)
           sent == Moved(paid, s, m, t, give)
<1>a. /\ paid = Moved(b0, b, t, m, buy) /\ sent = Moved(paid, s, m, t, give)
      /\ buy <= b0[b][t] /\ give <= paid[s][m]
      /\ b1 = sent \/ b1 = Moved(sent, s, m, r, fee)
  BY DEF FillTransfers
<1> HIDE DEF paid, sent
<1>1. paid \in [Tokens -> [Accounts -> Nat]]
  BY <1>a, MovedType
<1>2. paid[b][m] = b0[b][m] + buy
  BY <1>a DEF Moved
<1>3. paid[s][m] = b0[s][m] /\ paid[s][t] = b0[s][t]
  BY <1>a DEF Moved
<1>4. sent \in [Tokens -> [Accounts -> Nat]]
  BY <1>1, <1>a, MovedType
<1>5. sent[b][m] = b0[b][m] + buy
  BY <1>1, <1>a, <1>2 DEF Moved
<1>6. sent[s][m] = b0[s][m] - give /\ sent[s][t] = b0[s][t] + give
  BY <1>1, <1>a, <1>3 DEF Moved
<1>7. /\ sent[s][m] \in Nat /\ sent[s][t] \in Nat
      /\ b0[s][m] \in Nat /\ b0[s][t] \in Nat
  BY <1>4
<1>8. CASE b1 = sent
  BY <1>5, <1>6, <1>7, <1>8
<1>9. CASE b1 = Moved(sent, s, m, r, fee)
  <2>1. b1[b][m] = sent[b][m]
    BY <1>4, <1>9 DEF Moved
  <2>2. b1[s][m] = IF r = m THEN sent[s][m] ELSE sent[s][m] - fee
    BY <1>4, <1>9 DEF Moved
  <2>3. b1[s][t] = IF r = t THEN sent[s][t] + fee ELSE sent[s][t]
    BY <1>4, <1>9 DEF Moved
  <2> QED
    BY <1>5, <1>6, <1>7, <2>1, <2>2, <2>3
<1> QED
  BY <1>a, <1>8, <1>9

\* The trade of one order, as its maker and its taker see it.
Fair(o) ==
    LET m == Maker[o]
        t == taker'[o]
        s == SellToken[o]
        b == BuyToken[o]
    IN  (sold'[o] # sold[o] /\ s # b /\ t # m) =>
           /\ bal'[b][m] = bal[b][m] + BuyAmount[o]
           /\ bal'[s][m] >= bal[s][m] - SellAmount[o]
           /\ (bal'[s][t] - bal[s][t]) * 10000 >=
                 (10000 - MAX_FEE_BPS) * SellAmount[o]

\* What the three transfers of fillOrder move, the recipient of the fee being
\* the maker, the taker or somebody else.
LEMMA FillIsFair ==
    ASSUME IInv, NEW t \in Accounts, NEW sig \in signed, FillOrder(t, sig)
    PROVE  Fair(sig.of)
<1> DEFINE o == sig.of
           m == Maker[o]
           s == SellToken[o]
           b == BuyToken[o]
<1>1. o \in Orders
  BY DEF IInv, TypeOK, Signatures
<1>2. taker'[o] = t
  BY <1>1 DEF FillOrder, IInv, TypeOK
<1> SUFFICES ASSUME s # b, t # m
             PROVE  /\ bal'[b][m] = bal[b][m] + BuyAmount[o]
                    /\ bal'[s][m] >= bal[s][m] - SellAmount[o]
                    /\ (bal'[s][t] - bal[s][t]) * 10000 >=
                          (10000 - MAX_FEE_BPS) * SellAmount[o]
  BY <1>2 DEF Fair
<1>3. /\ m \in Accounts /\ s \in Tokens /\ b \in Tokens
      /\ SellAmount[o] \in Nat /\ BuyAmount[o] \in Nat
  BY <1>1
<1>4. /\ Fee(o) \in Nat /\ ToTaker(o) \in Nat
      /\ ToTaker(o) + Fee(o) = SellAmount[o]
      /\ Fee(o) * 10000 <= MAX_FEE_BPS * SellAmount[o]
  BY <1>1, FeeBound DEF IInv, TypeOK, FeeSettingBounded
<1>5. /\ bal \in [Tokens -> [Accounts -> Nat]]
      /\ bal' \in [Tokens -> [Accounts -> Nat]]
  BY FillMoves DEF IInv, TypeOK
<1>6. \E r \in Accounts :
         FillTransfers(bal, bal', b, s, m, t, r, BuyAmount[o], ToTaker(o), Fee(o))
  BY <1>3 DEF FillOrder, FillTransfers, Covers, IInv, TypeOK
<1> HIDE DEF o, m, s, b
<1>7. /\ bal'[b][m] = bal[b][m] + BuyAmount[o]
      /\ bal'[s][m] >= bal[s][m] - (ToTaker(o) + Fee(o))
      /\ bal'[s][t] >= bal[s][t] + ToTaker(o)
  <2>1. PICK r \in Accounts :
           FillTransfers(bal, bal', b, s, m, t, r, BuyAmount[o], ToTaker(o), Fee(o))
    BY <1>6
  <2>2. PICK b1 : b1 = bal'
    OBVIOUS
  <2>3. PICK buy \in Nat, give \in Nat, fee \in Nat :
           buy = BuyAmount[o] /\ give = ToTaker(o) /\ fee = Fee(o)
    BY <1>3, <1>4
  <2>4. FillTransfers(bal, b1, b, s, m, t, r, buy, give, fee)
    BY <2>1, <2>2, <2>3
  <2>5. /\ b1[b][m] = bal[b][m] + buy
        /\ b1[s][m] >= bal[s][m] - (give + fee)
        /\ b1[s][t] >= bal[s][t] + give
    BY <1>5, <1>3, <2>4, WhatTransfersMove
  <2> QED
    BY <2>2, <2>3, <2>5
<1>8. /\ bal[s][m] \in Nat /\ bal[s][t] \in Nat
      /\ bal'[s][m] \in Nat /\ bal'[s][t] \in Nat
  BY <1>5, <1>3
<1>9. bal'[s][m] >= bal[s][m] - SellAmount[o]
  BY <1>4, <1>7
<1>10. bal'[s][t] - bal[s][t] >= ToTaker(o)
  BY <1>4, <1>7, <1>8
<1>11. ToTaker(o) * 10000 >= (10000 - MAX_FEE_BPS) * SellAmount[o]
  BY <1>3, <1>4 DEF MAX_FEE_BPS
<1>12. (bal'[s][t] - bal[s][t]) * 10000 >= (10000 - MAX_FEE_BPS) * SellAmount[o]
  <2> DEFINE gain == bal'[s][t] - bal[s][t]
             least == (10000 - MAX_FEE_BPS) * SellAmount[o]
  <2>1. gain \in Int /\ least \in Int
    BY <1>3, <1>8 DEF MAX_FEE_BPS
  <2>2. gain >= ToTaker(o) /\ ToTaker(o) * 10000 >= least
    BY <1>10, <1>11
  <2> HIDE DEF gain, least
  <2>3. gain * 10000 >= least
    BY <1>4, <2>1, <2>2
  <2> QED
    BY <2>3 DEF gain, least
<1> QED
  BY <1>7, <1>9, <1>12

(* Whoever fills an order, and whoever takes the fee, the maker gets the full *)
(* buy amount for no more than the sell amount, and the taker the sell amount *)
(* less a fee of MAX_FEE_BPS at the most.                                     *)
THEOREM TradesAreFair == Spec => FairTrade
<1>1. ASSUME IInv, [Next]_vars, NEW o \in Orders
      PROVE  Fair(o)
  <2>1. CASE sold'[o] = sold[o]
    BY <2>1 DEF Fair
  <2>2. CASE sold'[o] # sold[o]
    <3>1. PICK t \in Accounts, sig \in signed : FillOrder(t, sig)
      BY <1>1, <2>2 DEF Next, vars, history, Tick, Sign, BuildPlan, CancelOrder,
         SetFeeConfig, Approve, Transfer
    <3>2. sig.of = o
      BY <1>1, <2>2, <3>1, FillMoves DEF IInv, TypeOK, Signatures
    <3> QED
      BY <1>1, <3>1, <3>2, FillIsFair
  <2> QED
    BY <2>1, <2>2
<1>2. IInv /\ [Next]_vars => [\A o \in Orders : Fair(o)]_vars
  BY <1>1
<1>3. Spec => [][\A o \in Orders : Fair(o)]_vars
  BY <1>2, Invariance, PTL DEF Spec
<1> QED
  BY <1>3 DEF FairTrade, Fair

----------------------------------------------------------------------------
(* The refinement of OrderBook.  Every step changes the status of no order,  *)
(* opens or fills one, or closes some: StatusSteps says so for the orders    *)
(* whose marks, signatures and deadlines it leaves alone.                    *)

LEMMA StatusCases ==
    ASSUME NEW o \in Orders
    PROVE  /\ StatusOf(o) \in {"unsigned", "open", "filled", "closed"}
           /\ filled[o] # 0 => StatusOf(o) = "filled"
           /\ filled[o] = 0 /\ Closed(o) => StatusOf(o) = "closed"
           /\ filled[o] = 0 /\ ~Closed(o) /\ SignedFor(o) => StatusOf(o) = "open"
           /\ filled[o] = 0 /\ ~Closed(o) /\ ~SignedFor(o) => StatusOf(o) = "unsigned"
  BY DEF StatusOf

LEMMA BookInit == Init => Book!Init
<1> SUFFICES ASSUME Init PROVE Book!Init
  OBVIOUS
<1>1. \A o \in Orders : StatusOf(o) \in {"unsigned", "closed"}
  BY StatusCases DEF Init, SignedFor
<1> QED
  BY <1>1 DEF Init, Book!Init

\* A step that only closes orders is a Close of the book, or a stutter.
LEMMA BookCloses ==
    ASSUME UNCHANGED <<version, filled, signed, sold>>,
           \A o \in Orders : Closed(o) => Closed(o)'
    PROVE  [Book!Next]_Book!vars
<1> DEFINE S == {o \in Orders : StatusOf(o) \in {"unsigned", "open"}
                                /\ StatusOf(o)' = "closed"}
<1>1. ASSUME NEW o \in Orders
      PROVE  StatusOf(o)' = IF o \in S THEN "closed" ELSE StatusOf(o)
  <2>1. SignedFor(o)' <=> SignedFor(o)
    BY DEF SignedFor, RecoversMaker, ContractDomain
  <2>2. /\ StatusOf(o)' \in {"unsigned", "open", "filled", "closed"}
        /\ filled'[o] # 0 => StatusOf(o)' = "filled"
        /\ filled'[o] = 0 /\ Closed(o)' => StatusOf(o)' = "closed"
        /\ filled'[o] = 0 /\ ~Closed(o)' /\ SignedFor(o)' => StatusOf(o)' = "open"
        /\ filled'[o] = 0 /\ ~Closed(o)' /\ ~SignedFor(o)' => StatusOf(o)' = "unsigned"
    BY DEF StatusOf
  <2> QED
    BY <2>1, <2>2, StatusCases
<1>2. S \in SUBSET Orders /\ \A o \in S : StatusOf(o) \in {"unsigned", "open"}
  OBVIOUS
<1>3. Book!Close(S)
  <2> HIDE DEF S
  <2> QED
    BY <1>1, <1>2 DEF Book!Close
<1> QED
  BY <1>2, <1>3 DEF Book!Next

LEMMA BookSigns ==
    ASSUME IInv, NEW sig \in Signatures, Sign(sig)
    PROVE  [Book!Next]_Book!vars
<1> USE DEF contract, tokens, history
<1> DEFINE p == sig.of
<1>1. p \in Orders
  BY DEF Signatures
<1>2. /\ UNCHANGED <<version, filled, cancelled, now, sold>>
      /\ signed' = signed \cup {sig}
  BY DEF Sign
<1>3. ASSUME NEW o \in Orders
      PROVE  /\ Closed(o)' <=> Closed(o)
             /\ SignedFor(o) => SignedFor(o)'
             /\ SignedFor(o)' => SignedFor(o) \/ o = p
  BY <1>2 DEF Closed, SignedFor, RecoversMaker, ContractDomain
<1>4. ASSUME NEW o \in Orders
      PROVE  /\ StatusOf(o)' = StatusOf(o) \/ (o = p /\ StatusOf(o) = "unsigned"
                                               /\ StatusOf(o)' = "open")
  <2>1. filled'[o] = filled[o]
    BY <1>2
  <2>2. StatusOf(o)' = IF filled[o] # 0 THEN "filled"
                       ELSE IF Closed(o) THEN "closed"
                       ELSE IF SignedFor(o)' THEN "open" ELSE "unsigned"
    BY <2>1, <1>3 DEF StatusOf
  <2> QED
    BY <2>2, <1>3, StatusCases
<1>5. CASE StatusOf(p)' = StatusOf(p)
  <2>1. [o \in Orders |-> StatusOf(o)]' = [o \in Orders |-> StatusOf(o)]
    BY <1>4, <1>5
  <2> QED
    BY <1>2, <2>1 DEF Book!vars
<1>6. CASE StatusOf(p)' # StatusOf(p)
  <2>1. StatusOf(p) = "unsigned" /\ StatusOf(p)' = "open"
    BY <1>1, <1>4, <1>6
  <2>2. Book!Sign(p)
    BY <1>1, <1>2, <1>4, <2>1 DEF Book!Sign
  <2> QED
    BY <1>1, <2>2 DEF Book!Next
<1> QED
  BY <1>5, <1>6

LEMMA BookFills ==
    ASSUME IInv, NEW t \in Accounts, NEW sig \in signed, FillOrder(t, sig)
    PROVE  [Book!Next]_Book!vars
<1> DEFINE p == sig.of
<1>1. p \in Orders
  BY DEF IInv, TypeOK, Signatures
<1>2. /\ UNCHANGED <<version, cancelled, now, signed>>
      /\ filled' = [filled EXCEPT ![p] = SellAmount[p]]
      /\ filled[p] = 0
  BY DEF FillOrder, Unfilled
<1>3. sold' = [sold EXCEPT ![p] = SellAmount[p]]
  BY FillMoves
<1>4. StatusOf(p) = "open"
  <2>1. ~Closed(p) /\ SignedFor(p)
    BY <1>1 DEF FillOrder, Expired, Cancelled, Closed, SignedFor, IInv, TypeOK
  <2> QED
    BY <1>1, <1>2, <2>1, StatusCases
<1>5. ASSUME NEW o \in Orders
      PROVE  /\ Closed(o)' <=> Closed(o)
             /\ SignedFor(o)' <=> SignedFor(o)
  BY <1>2 DEF Closed, SignedFor, RecoversMaker, ContractDomain
<1>6. ASSUME NEW o \in Orders, filled'[o] = filled[o]
      PROVE  StatusOf(o)' = StatusOf(o)
  BY <1>5, <1>6 DEF StatusOf
<1>7. ASSUME NEW o \in Orders, o # p
      PROVE  filled'[o] = filled[o]
  BY <1>1, <1>2, <1>7 DEF IInv, TypeOK
<1>8. filled'[p] = SellAmount[p]
  BY <1>1, <1>2 DEF IInv, TypeOK
<1>9. CASE SellAmount[p] = 0
  <2>1. [o \in Orders |-> StatusOf(o)]' = [o \in Orders |-> StatusOf(o)]
    BY <1>2, <1>6, <1>7, <1>8, <1>9
  <2>2. sold[p] = 0
    BY <1>1, <1>9 DEF IInv, MarkIsTrue, Marked, Untouched
  <2>3. sold' = sold
    BY <1>1, <1>3, <1>9, <2>2 DEF IInv, TypeOK
  <2> QED
    BY <2>1, <2>3 DEF Book!vars
<1>10. CASE SellAmount[p] # 0
  <2>1. StatusOf(p)' = "filled"
    BY <1>1, <1>8, <1>10 DEF StatusOf
  <2>2. Book!Fill(p)
    BY <1>1, <1>3, <1>4, <1>6, <1>7, <2>1 DEF Book!Fill
  <2> QED
    BY <1>1, <2>2 DEF Book!Next
<1> QED
  BY <1>9, <1>10

LEMMA BookStep == IInv /\ [Next]_vars => [Book!Next]_Book!vars
<1> SUFFICES ASSUME IInv, [Next]_vars PROVE [Book!Next]_Book!vars
  OBVIOUS
<1> USE DEF contract, tokens, history
\* Steps that touch neither orders nor signatures nor the clock.
<1>a. ASSUME UNCHANGED <<version, filled, cancelled, now, signed, sold>>
      PROVE  [Book!Next]_Book!vars
  BY <1>a, BookCloses DEF Closed
<1>1. CASE Tick
  <2>1. \A o \in Orders : Closed(o) => Closed(o)'
    BY <1>1 DEF Tick, Closed, IInv, TypeOK
  <2> QED
    BY <1>1, <2>1, BookCloses DEF Tick
<1>2. ASSUME NEW sig \in Signatures, Sign(sig)
      PROVE  [Book!Next]_Book!vars
  BY <1>2, BookSigns
<1>3. ASSUME NEW sig \in Signatures, BuildPlan(sig)
      PROVE  [Book!Next]_Book!vars
  BY <1>a, <1>3 DEF BuildPlan
<1>4. ASSUME NEW t \in Accounts, NEW sig \in signed, FillOrder(t, sig)
      PROVE  [Book!Next]_Book!vars
  BY <1>4, BookFills
<1>5. ASSUME NEW a \in Accounts, NEW n \in Nonces, CancelOrder(a, n)
      PROVE  [Book!Next]_Book!vars
  <2>1. \A o \in Orders : Closed(o) => Closed(o)'
    BY <1>5 DEF CancelOrder, Closed
  <2> QED
    BY <1>5, <2>1, BookCloses DEF CancelOrder
<1>6. ASSUME NEW a \in Accounts, NEW r \in Accounts \cup {ZeroAddress},
             NEW f \in FeeChoices, SetFeeConfig(a, r, f)
      PROVE  [Book!Next]_Book!vars
  BY <1>a, <1>6 DEF SetFeeConfig
<1>7. ASSUME NEW a \in Accounts, NEW t \in Tokens, Approve(a, t)
      PROVE  [Book!Next]_Book!vars
  BY <1>a, <1>7 DEF Approve
<1>8. ASSUME NEW t \in Tokens, NEW a \in Accounts, NEW b \in Accounts,
             Transfer(t, a, b, bal[t][a])
      PROVE  [Book!Next]_Book!vars
  BY <1>a, <1>8 DEF Transfer
<1>9. CASE UNCHANGED vars
  BY <1>a, <1>9 DEF vars
<1> QED
  BY <1>1, <1>2, <1>3, <1>4, <1>5, <1>6, <1>7, <1>8, <1>9 DEF Next

(* Whatever is signed, planned, filled, cancelled, approved or configured in *)
(* whatever order, the contract behaves as the abstract order book: an order *)
(* trades once, only while it is signed, uncancelled and unexpired.          *)
THEOREM BookImplemented == Spec => ImplementsOrderBook
<1>1. Spec => [][Book!Next]_Book!vars
  BY Invariance, BookStep, PTL DEF Spec
<1> QED
  BY <1>1, BookInit, PTL DEF Spec, ImplementsOrderBook, Book!Spec
=============================================================================
