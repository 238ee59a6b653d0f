----------------------------- MODULE RiskLimits ----------------------------
(***************************************************************************)
(* check_swap_risk: the checks of a swap against the limits, and the day's *)
(* total per user, which each process keeps for itself.  Threads of a      *)
(* process interleave between reading the total and writing it back.  The  *)
(* circuit breaker is read from the environment at every check.            *)
(***************************************************************************)
EXTENDS Integers

CONSTANTS
    RiskUsers,
    UsdEstimates,   \* dollars of a swap; 0 stands for no estimate
    MaxSwapUsd, MaxDailyUsd,
    MaxDay, MaxChecks   \* bounds

VARIABLES
    today,
    dailyUsd,       \* <<user, day>> |-> total (_daily_usd)
    checking,       \* checks between their read and their write
    admitted,       \* <<user, day>> |-> dollars of the swaps let through
    overlapping,    \* <<user, day>> that had two checks at once
    checks

riskVars == <<today, dailyUsd, checking, admitted, overlapping, checks>>

Days == 0..MaxDay
DailyKeys == RiskUsers \X Days
Checks == [id : 1..MaxChecks, key : DailyKeys, usd : Nat, used : Nat]

ASSUME RiskAssumption ==
    /\ UsdEstimates \subseteq Nat
    /\ MaxSwapUsd \in Nat /\ MaxDailyUsd \in Nat
    /\ MaxDay \in Nat /\ MaxChecks \in Nat

\* Mutant: the total so far is compared, without the swap that is checked.
TotalBelowLimit(used, usd) == used <= MaxDailyUsd

WithinDay(used, usd) == used + usd <= MaxDailyUsd

RiskInit ==
    /\ today = 0
    /\ dailyUsd = [k \in DailyKeys |-> 0]
    /\ checking = {}
    /\ admitted = [k \in DailyKeys |-> 0]
    /\ overlapping = {}
    /\ checks = 0

NextDay ==
    /\ today < MaxDay
    /\ today' = today + 1
    /\ UNCHANGED <<dailyUsd, checking, admitted, overlapping, checks>>

\* The checks up to the read of the total; allowed says that the chain, the
\* tokens and the amount in wei are.  A swap without an estimate passes here
\* and is not counted.
StartCheck(user, allowed, usd) ==
    LET key == <<user, today>>
    IN  /\ checks < MaxChecks
        /\ checks' = checks + 1
        /\ IF ~allowed \/ usd > MaxSwapUsd \/ usd = 0
           THEN UNCHANGED <<checking, overlapping>>
           ELSE /\ checking' = checking \cup
                      {[id |-> checks', key |-> key, usd |-> usd,
                        used |-> dailyUsd[key]]}
                /\ overlapping' = IF \E c \in checking : c.key = key
                                  THEN overlapping \cup {key} ELSE overlapping
        /\ UNCHANGED <<today, dailyUsd, admitted>>

\* The comparison with what was read, and the write of the new total.
EndCheck(c) ==
    /\ checking' = checking \ {c}
    /\ IF WithinDay(c.used, c.usd)
       THEN /\ dailyUsd' = [dailyUsd EXCEPT ![c.key] = c.used + c.usd]
            /\ admitted' = [admitted EXCEPT ![c.key] = @ + c.usd]
       ELSE UNCHANGED <<dailyUsd, admitted>>
    /\ UNCHANGED <<today, overlapping, checks>>

RiskNext ==
    \/ NextDay
    \/ \E u \in RiskUsers, ok \in BOOLEAN, usd \in UsdEstimates :
          StartCheck(u, ok, usd)
    \/ \E c \in checking : EndCheck(c)

RiskSpec == RiskInit /\ [][RiskNext]_riskVars

----------------------------------------------------------------------------
RiskTypeOK ==
    /\ today \in Days
    /\ dailyUsd \in [DailyKeys -> Nat]
    /\ checking \subseteq Checks
    /\ admitted \in [DailyKeys -> Nat]
    /\ overlapping \subseteq DailyKeys
    /\ checks \in Nat

\* A process lets a user's swaps of one day through up to the daily limit, and
\* its total is what it let through, unless two checks of that user and day
\* overlapped: the total is read, compared and written back without a lock.
DailyLimitUnlessOverlapping ==
    \A k \in DailyKeys \ overlapping :
       /\ admitted[k] <= MaxDailyUsd
       /\ dailyUsd[k] = admitted[k]
=============================================================================
