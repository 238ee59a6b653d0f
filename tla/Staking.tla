------------------------------ MODULE Staking ------------------------------
(***************************************************************************)
(* OpenCEXStaking: positions, the accumulated reward per share and the two *)
(* tokens.  A call that reverts changes nothing and is no action.  The     *)
(* reward token's answer is not read: a token that refuses by returning    *)
(* false loses the user that reward, one that reverts fails the call.      *)
(* Numbers are naturals: the overflow of a uint256, which a rate without   *)
(* bound could bring about, is left out.                                   *)
(***************************************************************************)
EXTENDS Integers, FiniteSets

CONSTANTS
    Stakers,
    Precision,      \* 1e18 in the contract
    Rates,          \* reward rates the owner may set
    MinLock,        \* minLockSeconds
    InitialStake,   \* tokens each staker starts with
    RewardFund,     \* reward tokens the contract is given
    RewardsRevert,  \* whether the reward token reverts when it refuses
    MaxStakeTime, MaxRateChanges, MaxResets     \* bounds

VARIABLES
    position,       \* staker |-> [amount, debt, unlockAt]
    totalStaked, accRewardPerShare, lastUpdate, rewardRate,
    stakeTime,      \* block.timestamp
    wallet,         \* staker |-> staking tokens outside the contract
    fund,           \* reward tokens in the contract
    emitted,        \* rate times time while anything was staked
    paid,           \* rewards sent
    resets,         \* times a reward debt was rounded down, a call each
    rateChanges

pool == <<totalStaked, accRewardPerShare, lastUpdate, rewardRate>>
stakingVars == <<position, pool, stakeTime, wallet, fund, emitted, paid,
                 resets, rateChanges>>

Positions == [amount : Nat, debt : Nat, unlockAt : Nat]

ASSUME StakingAssumption ==
    /\ IsFiniteSet(Stakers)
    /\ Precision \in Nat \ {0}
    /\ Rates \subseteq Nat
    /\ MinLock \in Nat /\ InitialStake \in Nat /\ RewardFund \in Nat
    /\ RewardsRevert \in BOOLEAN
    /\ MaxStakeTime \in Nat /\ MaxRateChanges \in Nat /\ MaxResets \in Nat

\* Mutant: the time since the beginning, not since the last update.
AccruedFromStart ==
    IF totalStaked > 0
    THEN accRewardPerShare + ((stakeTime * rewardRate * Precision) \div totalStaked)
    ELSE accRewardPerShare

\* accRewardPerShare after _updatePool.
Accrued ==
    IF totalStaked > 0
    THEN accRewardPerShare +
           (((stakeTime - lastUpdate) * rewardRate * Precision) \div totalStaked)
    ELSE accRewardPerShare

Share(amount, acc) == (amount * acc) \div Precision

Owed(s) == Share(position[s].amount, Accrued) - position[s].debt

\* Mutant: the debt of the amount before the call.
DebtOfOldAmount(old, new) == Share(old, Accrued)

DebtAfter(old, new) == Share(new, Accrued)

StakingInit ==
    /\ position = [s \in Stakers |-> [amount |-> 0, debt |-> 0, unlockAt |-> 0]]
    /\ totalStaked = 0 /\ accRewardPerShare = 0 /\ lastUpdate = 0
    /\ rewardRate = 0
    /\ stakeTime = 0
    /\ wallet = [s \in Stakers |-> InitialStake]
    /\ fund = RewardFund
    /\ emitted = 0 /\ paid = 0 /\ resets = 0 /\ rateChanges = 0

\* _updatePool; what it emits is kept for the properties.
UpdatePool ==
    /\ accRewardPerShare' = Accrued
    /\ lastUpdate' = stakeTime
    /\ emitted' = emitted + (IF totalStaked > 0
                             THEN (stakeTime - lastUpdate) * rewardRate ELSE 0)

CountReset == resets < MaxResets /\ resets' = resets + 1

\* rewardToken.transfer, its result unread.
PayReward(s) ==
    IF Owed(s) <= fund
    THEN fund' = fund - Owed(s) /\ paid' = paid + Owed(s)
    ELSE ~RewardsRevert /\ UNCHANGED <<fund, paid>>

SetRewardRate(rate) ==
    /\ rateChanges < MaxRateChanges
    /\ UpdatePool
    /\ rewardRate' = rate
    /\ rateChanges' = rateChanges + 1
    /\ UNCHANGED <<position, totalStaked, stakeTime, wallet, fund, paid, resets>>

Stake(s, amount) ==
    LET old == position[s].amount
    IN  /\ amount > 0 /\ amount <= wallet[s]
        /\ UpdatePool
        /\ IF old > 0 THEN PayReward(s) ELSE UNCHANGED <<fund, paid>>
        /\ wallet' = [wallet EXCEPT ![s] = @ - amount]
        /\ position' = [position EXCEPT ![s] =
              [amount |-> old + amount, debt |-> DebtAfter(old, old + amount),
               unlockAt |-> stakeTime + MinLock]]
        /\ totalStaked' = totalStaked + amount
        /\ CountReset
        /\ UNCHANGED <<rewardRate, stakeTime, rateChanges>>

Unlocked(s) == stakeTime >= position[s].unlockAt

\* Unstaking nothing is allowed and claims the reward.
Unstake(s, amount) ==
    LET old == position[s].amount
    IN  /\ old >= amount /\ Unlocked(s)
        /\ UpdatePool
        /\ PayReward(s)
        /\ wallet' = [wallet EXCEPT ![s] = @ + amount]
        /\ position' = [position EXCEPT ![s].amount = old - amount,
                                        ![s].debt = DebtAfter(old, old - amount)]
        /\ totalStaked' = totalStaked - amount
        /\ CountReset
        /\ UNCHANGED <<rewardRate, stakeTime, rateChanges>>

Claim(s) ==
    /\ Owed(s) > 0
    /\ UpdatePool
    /\ PayReward(s)
    /\ position' = [position EXCEPT ![s].debt = Share(position[s].amount, Accrued)]
    /\ CountReset
    /\ UNCHANGED <<totalStaked, rewardRate, stakeTime, wallet, rateChanges>>

\* A block later (external).
NextBlock ==
    /\ stakeTime < MaxStakeTime
    /\ stakeTime' = stakeTime + 1
    /\ UNCHANGED <<position, pool, wallet, fund, emitted, paid, resets,
                   rateChanges>>

StakingNext ==
    \/ \E r \in Rates : SetRewardRate(r)
    \/ \E s \in Stakers, n \in 0..InitialStake : Stake(s, n) \/ Unstake(s, n)
    \/ \E s \in Stakers : Claim(s)
    \/ NextBlock

StakingSpec == StakingInit /\ [][StakingNext]_stakingVars

----------------------------------------------------------------------------
StakingTypeOK ==
    /\ position \in [Stakers -> Positions]
    /\ {totalStaked, accRewardPerShare, lastUpdate, rewardRate} \subseteq Nat
    /\ {stakeTime, fund, emitted, paid, resets, rateChanges} \subseteq Nat
    /\ wallet \in [Stakers -> Nat]
    /\ lastUpdate <= stakeTime

\* The reward computed from the accumulator never falls below the debt noted
\* before, although both are rounded: the subtraction in pendingReward never
\* reverts, which in unstake would hold the principal for ever.  That is one way
\* to lose it: overflow and a reward token that reverts are others.
PrincipalNeverStuck == \A s \in Stakers : Owed(s) >= 0

\* Rewards sent stay within what was emitted, but for less than one unit each
\* time a debt was rounded down.
RewardsWithinEmission ==
    LET now == emitted + (IF totalStaked > 0
                          THEN (stakeTime - lastUpdate) * rewardRate ELSE 0)
    IN  paid <= now + resets
=============================================================================
