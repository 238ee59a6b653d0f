------------------------------ MODULE HoldCalls ----------------------------
(***************************************************************************)
(* The balance hooks under concurrent calls for one user and currency.     *)
(* Each call reads amount_in_orders and hands BalanceManager (external)    *)
(* the new value it computed; what another call wrote in between is lost.  *)
(* SwapKeeper calls the hooks as the keeper does; here the calls of        *)
(* several runs of one user meet, and credit_balance spends a hold.        *)
(***************************************************************************)
EXTENDS Integers, FiniteSetsExt

CONSTANTS
    Runs,           \* runs that hold, release or spend
    HoldAmounts,    \* amounts they hold
    Funds,          \* what the user has at first
    MaxCallsPerRun  \* bound on the calls of a run

VARIABLES
    free,           \* Balance.amount
    inOrdersNow,    \* Balance.amount_in_orders
    held,           \* run |-> what it holds
    spent,          \* spent from holds
    bought,         \* credits of the buy currency
    call,           \* run |-> the call it is in, and what the call read
    callsMet,    \* two calls once were between their read and write
    callsOf         \* run |-> calls made

holdVars == <<free, inOrdersNow, held, spent, bought, call, callsMet, callsOf>>

Idle == [hook |-> "none", amount |-> 0, read |-> 0]
Hooks == {"none", "lock", "unlock", "spend", "credit"}

ASSUME HoldAssumption ==
    /\ IsFiniteSet(Runs)
    /\ HoldAmounts \subseteq Nat \ {0}
    /\ Funds \in Nat /\ MaxCallsPerRun \in Nat

HeldInAll == MapThenSumSet(LAMBDA r : held[r], Runs)

HoldInit ==
    /\ free = Funds /\ inOrdersNow = 0 /\ spent = 0 /\ bought = 0
    /\ held = [r \in Runs |-> 0]
    /\ call = [r \in Runs |-> Idle]
    /\ callsMet = FALSE
    /\ callsOf = [r \in Runs |-> 0]

\* The hook's read of the balance row.
Reads(r, hook, amount) ==
    /\ call[r] = Idle /\ callsOf[r] < MaxCallsPerRun
    /\ callsOf' = [callsOf EXCEPT ![r] = @ + 1]
    /\ call' = [call EXCEPT ![r] =
          [hook |-> hook, amount |-> amount, read |-> inOrdersNow]]
    /\ callsMet' = (callsMet \/ \E q \in Runs \ {r} :
                         call[q].hook \in {"lock", "unlock", "spend"})
    /\ UNCHANGED <<free, inOrdersNow, held, spent, bought>>

LockReads(r, amount) == held[r] = 0 /\ Reads(r, "lock", amount)
UnlockReads(r) == held[r] > 0 /\ Reads(r, "unlock", held[r])
SpendReads(r) == held[r] > 0 /\ Reads(r, "spend", held[r])

\* credit_balance without the sell arguments reads no hold.
CreditOnly(r) ==
    /\ call[r] = Idle /\ callsOf[r] < MaxCallsPerRun
    /\ callsOf' = [callsOf EXCEPT ![r] = @ + 1]
    /\ bought' = bought + 1
    /\ UNCHANGED <<free, inOrdersNow, held, spent, call, callsMet>>

\* Mutant: what is left may become negative.
LessUnbounded(read, amount) == read - amount

\* What is left in orders, at least 0.
Less(read, amount) == Max({read - amount, 0})

\* Mutant: the hold itself is passed, not what is in orders with it.
OnlyThisHold(read, amount) == amount

\* What is in orders with the new hold.
More(read, amount) == read + amount

\* set_hold moves the amount out of the free balance, or raises without it.
LockWrites(r) ==
    LET c == call[r]
    IN  /\ c.hook = "lock"
        /\ IF free >= c.amount
           THEN /\ free' = free - c.amount
                /\ inOrdersNow' = More(c.read, c.amount)
                /\ held' = [held EXCEPT ![r] = c.amount]
           ELSE UNCHANGED <<free, inOrdersNow, held>>
        /\ call' = [call EXCEPT ![r] = Idle]
        /\ UNCHANGED <<spent, bought, callsMet, callsOf>>

UnlockWrites(r) ==
    LET c == call[r]
    IN  /\ c.hook = "unlock"
        /\ free' = free + c.amount
        /\ inOrdersNow' = Less(c.read, c.amount)
        /\ held' = [held EXCEPT ![r] = 0]
        /\ call' = [call EXCEPT ![r] = Idle]
        /\ UNCHANGED <<spent, bought, callsMet, callsOf>>

\* spend_hold, after which the buy amount is still to be credited.  The hook
\* hands over only the new amount_in_orders: that the manager spends exactly
\* what was held is assumed of it (external).
SpendWrites(r) ==
    LET c == call[r]
    IN  /\ c.hook = "spend"
        /\ inOrdersNow' = Less(c.read, c.amount)
        /\ spent' = spent + c.amount
        /\ held' = [held EXCEPT ![r] = 0]
        /\ call' = [call EXCEPT ![r].hook = "credit"]
        /\ UNCHANGED <<free, bought, callsMet, callsOf>>

\* increase_amount, which may raise: the hold is spent all the same.
CreditAfterSpend(r, ok) ==
    /\ call[r].hook = "credit"
    /\ bought' = IF ok THEN bought + 1 ELSE bought
    /\ call' = [call EXCEPT ![r] = Idle]
    /\ UNCHANGED <<free, inOrdersNow, held, spent, callsMet, callsOf>>

HoldNext ==
    \E r \in Runs :
       \/ \E n \in HoldAmounts : LockReads(r, n)
       \/ UnlockReads(r) \/ SpendReads(r) \/ CreditOnly(r)
       \/ LockWrites(r) \/ UnlockWrites(r) \/ SpendWrites(r)
       \/ \E ok \in BOOLEAN : CreditAfterSpend(r, ok)

HoldSpec == HoldInit /\ [][HoldNext]_holdVars

----------------------------------------------------------------------------
HoldTypeOK ==
    /\ {free, inOrdersNow, spent, bought} \subseteq Nat
    /\ held \in [Runs -> Nat]
    /\ call \in [Runs -> [hook : Hooks, amount : Nat, read : Nat]]
    /\ callsMet \in BOOLEAN
    /\ callsOf \in [Runs -> Nat]

\* What is free, held and spent is what the user had, in every interleaving;
\* and amount_in_orders says what the runs hold unless two calls overlapped,
\* which loses one of their updates.
HoldsAddUp ==
    /\ free + HeldInAll + spent = Funds
    /\ ~callsMet => inOrdersNow = HeldInAll
=============================================================================
