--------------------------- MODULE BalanceLedger ---------------------------
(***************************************************************************)
(* The custodial balances that opencex_django/balance_hooks.py reads and   *)
(* writes through BalanceManager (external: OpenCEX core, modelled from    *)
(* the calls the hooks make).  A balance row has a free amount and an      *)
(* amount_in_orders.  set_hold and free_hold are handed the NEW            *)
(* amount_in_orders by the caller, who computed it from a row read         *)
(* earlier: the manager does not add or subtract by itself.                *)
(***************************************************************************)
EXTENDS SwapPlans

CONSTANT Deposit   \* [Users -> Nat], free amount of the sell token at start

ASSUME DepositAssumption == Deposit \in [Users -> Nat]

VARIABLES
    avail,       \* Balance.amount of the sell currency
    inOrders,    \* Balance.amount_in_orders of the sell currency
    credits,     \* per execution: how often its buy amount was credited
    holds        \* history: set_hold calls minus free_hold calls per execution

ledgerVars == <<avail, inOrders, credits, holds>>

LedgerTypeOK ==
    /\ avail \in [Users -> Int]
    /\ inOrders \in [Users -> Int]
    /\ credits \in [Executions -> Nat]
    /\ holds \in [Executions -> Int]

LedgerInit ==
    /\ avail = Deposit
    /\ inOrders = [u \in Users |-> 0]
    /\ credits = [e \in Executions |-> 0]
    /\ holds = [e \in Executions |-> 0]

\* Mutant: the hold of the new order replaces the holds of the others.
RaisedAlone(e, cur) == Amount[e]

\* lock_balance: current + amount, with the amount_in_orders read before.
Raised(e, cur) == cur + Amount[e]

\* Mutant: the hold is released and stays in the orders.
NotLowered(e, cur) == cur

\* unlock_balance: max(current - amount, 0).
Lowered(e, cur) == IF cur >= Amount[e] THEN cur - Amount[e] ELSE 0

Covers(e) == avail[Owner[e]] >= Amount[e]

\* BalanceManager.set_hold(uid, currency, amount, newHold)
SetHold(e, newHold) ==
    /\ Covers(e)
    /\ avail' = [avail EXCEPT ![Owner[e]] = @ - Amount[e]]
    /\ inOrders' = [inOrders EXCEPT ![Owner[e]] = newHold]
    /\ holds' = [holds EXCEPT ![e] = @ + 1]
    /\ UNCHANGED credits

\* BalanceManager.free_hold(uid, currency, amount, newHold)
FreeHold(e, newHold) ==
    /\ avail' = [avail EXCEPT ![Owner[e]] = @ + Amount[e]]
    /\ inOrders' = [inOrders EXCEPT ![Owner[e]] = newHold]
    /\ holds' = [holds EXCEPT ![e] = @ - 1]
    /\ UNCHANGED credits

\* BalanceManager.increase_amount(uid, buy_currency, buy_amount)
IncreaseAmount(e) ==
    /\ credits' = [credits EXCEPT ![e] = @ + 1]
    /\ UNCHANGED <<avail, inOrders, holds>>
=============================================================================
