----------------------------- MODULE SwapPlans -----------------------------
(***************************************************************************)
(* What a SwapExecution row (opencex_django/models.py) fixes when it is    *)
(* created and no later step changes: its owner, the amount to sell, and   *)
(* whether its plan needs an ERC-20 allowance.                             *)
(***************************************************************************)
EXTENDS Integers, FiniteSets

CONSTANTS
    Executions,      \* primary keys of the rows
    Users,           \* owners of rows and of balances
    Owner,           \* [Executions -> Users], SwapExecution.user
    Amount,          \* [Executions -> Nat \ {0}], sell_amount in units
    NeedsAllowance   \* [Executions -> BOOLEAN], plan["needs_allowance"]

\* lock_balance refuses an amount that is not positive: such rows stop there.
ASSUME PlanAssumption ==
    /\ Executions # {}
    /\ Owner \in [Executions -> Users]
    /\ Amount \in [Executions -> Nat \ {0}]
    /\ NeedsAllowance \in [Executions -> BOOLEAN]
=============================================================================
