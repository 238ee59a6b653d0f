----------------------------- MODULE SumProofs -----------------------------
(***************************************************************************)
(* Proofs about the amounts that are sums over users: the holds of         *)
(* HoldCalls and the stakes and rewards of Staking, for every finite set   *)
(* of runs and stakers.                                                    *)
(*                                                                         *)
(* A sum is a fold, a recursive function on the subsets of its set.  It is *)
(* the number of elements of a set of units, as many for each user as the  *)
(* user has: that set's size satisfies the recursion of the fold, and by   *)
(* the well-founded order of the finite sets nothing else does.            *)
(***************************************************************************)
EXTENDS HoldCalls, Staking, FiniteSetTheorems, WellFoundedInduction, TLAPS

----------------------------------------------------------------------------
(* Induction over the subsets of a finite set, for a set of good ones.     *)

LEMMA SubsetInduction ==
    ASSUME NEW S, IsFiniteSet(S), NEW Good,
           \A R \in SUBSET S :
              (\A Q \in SUBSET R : Q # R => Q \in Good) => R \in Good
    PROVE  SUBSET S \subseteq Good
<1> DEFINE Bad == (SUBSET S) \ Good
<1> SUFFICES ASSUME Bad # {} PROVE FALSE
  OBVIOUS
<1>1. Bad \subseteq FiniteSubsetsOf(S)
  BY FS_Subset DEF FiniteSubsetsOf
<1>2. PICK R \in Bad : \A Q \in Bad : <<Q, R>> \notin StrictSubsetOrdering(S)
  <2> HIDE DEF Bad
  <2> QED
    BY <1>1, FS_StrictSubsetOrderingWellFounded, WFMin
<1>3. \A Q \in SUBSET R : Q # R => Q \in Good
  BY <1>2 DEF StrictSubsetOrdering
<1> QED
  BY <1>2, <1>3

----------------------------------------------------------------------------
(* Sums.                                                                   *)

SumOver(h, S) == MapThenSumSet(LAMBDA x : h[x], S)

\* One element for each unit of each of the users in R.
Units(h, R) == {p \in R \X Nat : p[2] >= 1 /\ p[2] <= h[p[1]]}

NumUnits(h, R) == Cardinality(Units(h, R))

LEMMA NoUnits == ASSUME NEW h PROVE IsFiniteSet(Units(h, {})) /\ NumUnits(h, {}) = 0
<1>1. Units(h, {}) = {}
  BY DEF Units
<1> QED
  BY <1>1, FS_EmptySet DEF NumUnits

LEMMA OneMoreUser ==
    ASSUME NEW S, NEW h \in [S -> Nat], NEW R \in SUBSET S, NEW x \in R,
           IsFiniteSet(Units(h, R \ {x}))
    PROVE  /\ IsFiniteSet(Units(h, R))
           /\ NumUnits(h, R) = h[x] + NumUnits(h, R \ {x})
<1> DEFINE Rest == Units(h, R \ {x})
           Own == {x} \X (1..h[x])
<1>1. h[x] \in Nat
  OBVIOUS
<1>2. Units(h, R) = Rest \cup Own
  BY <1>1 DEF Units
<1>3. Rest \cap Own = {}
  BY DEF Units
<1>4. IsFiniteSet(1..h[x]) /\ Cardinality(1..h[x]) = h[x]
  BY <1>1, FS_Interval
<1>5. IsFiniteSet({x}) /\ Cardinality({x}) = 1
  BY FS_Singleton
<1>6. IsFiniteSet(Own) /\ Cardinality(Own) = h[x]
  <2>1. IsFiniteSet(Own) /\ Cardinality(Own) = 1 * h[x]
    BY <1>4, <1>5, FS_Product
  <2> QED
    BY <1>1, <2>1
<1> HIDE DEF Rest, Own
<1>7. IsFiniteSet(Rest) /\ Cardinality(Rest) \in Nat
  BY FS_CardinalityType DEF Rest
<1>8. /\ IsFiniteSet(Rest \cup Own)
      /\ Cardinality(Rest \cup Own) = Cardinality(Rest) + Cardinality(Own) - Cardinality({})
  BY <1>3, <1>6, <1>7, FS_Union
<1>9. Cardinality(Rest \cup Own) = h[x] + Cardinality(Rest)
  BY <1>1, <1>6, <1>7, <1>8, FS_EmptySet
<1> QED
  BY <1>2, <1>8, <1>9 DEF NumUnits, Rest

LEMMA UnitsFinite ==
    ASSUME NEW S, IsFiniteSet(S), NEW h \in [S -> Nat], NEW R \in SUBSET S
    PROVE  IsFiniteSet(Units(h, R)) /\ NumUnits(h, R) \in Nat
<1> DEFINE Good == {Q \in SUBSET S : IsFiniteSet(Units(h, Q))}
<1>1. ASSUME NEW T \in SUBSET S, \A Q \in SUBSET T : Q # T => Q \in Good
      PROVE  T \in Good
  <2>1. CASE T = {}
    BY <2>1, NoUnits
  <2>2. CASE T # {}
    <3>1. PICK x \in T : TRUE
      BY <2>2
    <3>2. T \ {x} \in Good
      BY <1>1, <3>1
    <3> QED
      BY <3>1, <3>2, OneMoreUser
  <2> QED
    BY <2>1, <2>2
<1> HIDE DEF Good
<1>2. SUBSET S \subseteq Good
  BY <1>1, SubsetInduction
<1>3. IsFiniteSet(Units(h, R))
  BY <1>2 DEF Good
<1> QED
  BY <1>3, FS_CardinalityType DEF NumUnits

LEMMA WithoutOne ==
    ASSUME NEW S, IsFiniteSet(S), NEW h \in [S -> Nat], NEW R \in SUBSET S,
           NEW x \in R
    PROVE  NumUnits(h, R) = h[x] + NumUnits(h, R \ {x})
  BY OneMoreUser, UnitsFinite

\* The equation of the fold behind SumOver.
Folds(h, S, f) ==
    f = [R \in SUBSET S |->
           IF R = {} THEN 0
           ELSE LET x == CHOOSE y \in R : TRUE IN h[x] + f[R \ {x}]]

\* The sum is the number of units.
LEMMA SumIsUnits ==
    ASSUME NEW S, IsFiniteSet(S), NEW h \in [S -> Nat]
    PROVE  SumOver(h, S) = NumUnits(h, S)
<1> DEFINE count == [R \in SUBSET S |-> NumUnits(h, R)]
           first(R) == CHOOSE y \in R : TRUE
<1>1. SumOver(h, S) = (CHOOSE f : Folds(h, S, f))[S]
  BY Zenon DEF SumOver, MapThenSumSet, MapThenFoldSet, Folds
<1>2. \A R \in SUBSET S : R # {} => first(R) \in R
  OBVIOUS
<1> HIDE DEF first
<1>3. \A R \in SUBSET S : count[R] = IF R = {} THEN 0
                                     ELSE h[first(R)] + count[R \ {first(R)}]
  <2> SUFFICES ASSUME NEW R \in SUBSET S
               PROVE  count[R] = IF R = {} THEN 0
                                 ELSE h[first(R)] + count[R \ {first(R)}]
    OBVIOUS
  <2>1. CASE R = {}
    BY <2>1, NoUnits
  <2>2. CASE R # {}
    BY <1>2, <2>2, WithoutOne
  <2> QED
    BY <2>1, <2>2
<1>4. Folds(h, S, count)
  BY <1>3 DEF Folds, first
<1>5. ASSUME NEW f, Folds(h, S, f)
      PROVE  f[S] = NumUnits(h, S)
  <2> DEFINE Good == {R \in SUBSET S : f[R] = count[R]}
  <2>1. ASSUME NEW R \in SUBSET S, \A Q \in SUBSET R : Q # R => Q \in Good
        PROVE  R \in Good
    <3>1. f[R] = IF R = {} THEN 0 ELSE h[first(R)] + f[R \ {first(R)}]
      BY <1>5 DEF Folds, first
    <3>2. R # {} => f[R \ {first(R)}] = count[R \ {first(R)}]
      BY <1>2, <2>1
    <3> QED
      BY <1>3, <3>1, <3>2
  <2> HIDE DEF Good
  <2>2. SUBSET S \subseteq Good
    BY <2>1, SubsetInduction
  <2> QED
    BY <2>2 DEF Good
<1> HIDE DEF count
<1>6. Folds(h, S, CHOOSE f : Folds(h, S, f))
  BY <1>4
<1> QED
  BY <1>1, <1>5, <1>6

LEMMA SumTyped ==
    ASSUME NEW S, IsFiniteSet(S), NEW h \in [S -> Nat]
    PROVE  SumOver(h, S) \in Nat
  BY SumIsUnits, UnitsFinite

\* A sum when one user's amount changes.
LEMMA SumChange ==
    ASSUME NEW S, IsFiniteSet(S), NEW h \in [S -> Nat], NEW x \in S, NEW n \in Nat,
           NEW k \in [S -> Nat], k[x] = n, \A y \in S \ {x} : k[y] = h[y]
    PROVE  h[x] <= SumOver(h, S) /\ SumOver(k, S) = SumOver(h, S) - h[x] + n
<1>1. h[x] \in Nat
  OBVIOUS
<1>2. Units(k, S \ {x}) = Units(h, S \ {x})
  BY DEF Units
<1>3. /\ SumOver(h, S) = h[x] + NumUnits(h, S \ {x})
      /\ NumUnits(h, S \ {x}) \in Nat
  BY SumIsUnits, WithoutOne, UnitsFinite
<1>4. SumOver(k, S) = n + NumUnits(k, S \ {x})
  BY <1>1, SumIsUnits, WithoutOne
<1>5. NumUnits(k, S \ {x}) = NumUnits(h, S \ {x})
  BY <1>2 DEF NumUnits
<1> QED
  BY <1>1, <1>3, <1>4, <1>5

LEMMA SumOfZeros ==
    ASSUME NEW S, IsFiniteSet(S), NEW h \in [S -> Nat], \A x \in S : h[x] = 0
    PROVE  SumOver(h, S) = 0
<1>1. Units(h, S) = {}
  BY DEF Units
<1> QED
  BY <1>1, SumIsUnits, FS_EmptySet DEF NumUnits

LEMMA Distributes ==
    ASSUME NEW c \in Nat, NEW a \in Nat, NEW b \in Nat
    PROVE  c * (a + b) = c * a + c * b /\ c * a \in Nat /\ c * b \in Nat /\ c * 0 = 0
  OBVIOUS

\* A sum when every user's amount grows in proportion to another.
LEMMA SumLinear ==
    ASSUME NEW S, IsFiniteSet(S), NEW h \in [S -> Nat], NEW g \in [S -> Nat],
           NEW c \in Nat, NEW k \in [S -> Nat],
           \A x \in S : k[x] = h[x] + c * g[x]
    PROVE  SumOver(k, S) = SumOver(h, S) + c * SumOver(g, S)
<1> DEFINE Good == {R \in SUBSET S :
                      NumUnits(k, R) = NumUnits(h, R) + c * NumUnits(g, R)}
<1>1. ASSUME NEW R \in SUBSET S, \A Q \in SUBSET R : Q # R => Q \in Good
      PROVE  R \in Good
  <2>1. CASE R = {}
    BY <2>1, NoUnits, Distributes
  <2>2. CASE R # {}
    <3>1. PICK x \in R : TRUE
      BY <2>2
    <3> DEFINE Q == R \ {x}
    <3>2. NumUnits(k, Q) = NumUnits(h, Q) + c * NumUnits(g, Q)
      BY <1>1, <3>1
    <3>3. /\ NumUnits(k, R) = k[x] + NumUnits(k, Q)
          /\ NumUnits(h, R) = h[x] + NumUnits(h, Q)
          /\ NumUnits(g, R) = g[x] + NumUnits(g, Q)
      BY <3>1, WithoutOne
    <3>4. /\ NumUnits(h, Q) \in Nat /\ NumUnits(g, Q) \in Nat
          /\ h[x] \in Nat /\ g[x] \in Nat /\ k[x] = h[x] + c * g[x]
      BY <3>1, UnitsFinite
    <3>5. c * (g[x] + NumUnits(g, Q)) = c * g[x] + c * NumUnits(g, Q)
          /\ c * g[x] \in Nat /\ c * NumUnits(g, Q) \in Nat
      BY <3>4, Distributes
    <3> HIDE DEF Q
    <3> QED
      BY <3>2, <3>3, <3>4, <3>5
  <2> QED
    BY <2>1, <2>2
<1> HIDE DEF Good
<1>2. SUBSET S \subseteq Good
  BY <1>1, SubsetInduction
<1>3. NumUnits(k, S) = NumUnits(h, S) + c * NumUnits(g, S)
  BY <1>2 DEF Good
<1> QED
  BY <1>3, SumIsUnits

----------------------------------------------------------------------------
(* The holds of HoldCalls.                                                 *)

\* The hooks that read amount_in_orders and have not written it back.
Between == {"lock", "unlock", "spend"}

\* What a call noted of its run's hold is still so.
CallsKnow ==
    \A r \in Runs : /\ call[r].hook = "lock" => held[r] = 0
                    /\ call[r].hook \in {"unlock", "spend"} => call[r].amount = held[r]

\* While no two calls met, one at most is between its read and its write, and
\* what it read still holds.
Alone ==
    ~callsMet =>
       \A r \in Runs : call[r].hook \in Between =>
          /\ call[r].read = inOrdersNow
          /\ \A q \in Runs \ {r} : call[q].hook \notin Between

HoldInv == HoldTypeOK /\ CallsKnow /\ Alone /\ HoldsAddUp

LEMMA LessIs ==
    ASSUME NEW a \in Nat, NEW b \in Nat
    PROVE  Less(a, b) = IF a >= b THEN a - b ELSE 0
<1> DEFINE most == IF a >= b THEN a - b ELSE 0
<1>1. most \in {a - b, 0} /\ most \in Int /\ \A y \in {a - b, 0} : most >= y /\ y \in Int
  OBVIOUS
<1> HIDE DEF most
<1>2. \A x \in {a - b, 0} : (\A y \in {a - b, 0} : x >= y) => x = most
  BY <1>1
<1>3. Less(a, b) = CHOOSE x \in {a - b, 0} : \A y \in {a - b, 0} : x >= y
  BY Zenon DEF Less, Max
<1> QED
  BY <1>1, <1>2, <1>3 DEF most

LEMMA HeldIsSum == HeldInAll = SumOver(held, Runs)
  BY Zenon DEF HeldInAll, SumOver

\* What all runs hold when one of them holds n instead.
LEMMA HeldChange ==
    ASSUME HoldInv, NEW r \in Runs, NEW n \in Nat,
           held' = [held EXCEPT ![r] = n]
    PROVE  /\ HeldInAll \in Nat /\ held[r] \in Nat /\ held[r] <= HeldInAll
           /\ HeldInAll' = HeldInAll - held[r] + n
<1>1. /\ IsFiniteSet(Runs) /\ held \in [Runs -> Nat] /\ held' \in [Runs -> Nat]
      /\ held'[r] = n /\ \A q \in Runs \ {r} : held'[q] = held[q]
  BY HoldAssumption DEF HoldInv, HoldTypeOK
<1>2. HeldInAll' = SumOver(held', Runs)
  BY Zenon DEF HeldInAll, SumOver, MapThenSumSet, MapThenFoldSet
<1>3. held[r] \in Nat /\ HeldInAll = SumOver(held, Runs) /\ HeldInAll \in Nat
  BY <1>1, HeldIsSum, SumTyped
<1>4. /\ held[r] <= SumOver(held, Runs)
      /\ SumOver(held', Runs) = SumOver(held, Runs) - held[r] + n
  <2>1. ASSUME NEW h \in [Runs -> Nat], NEW k \in [Runs -> Nat], k[r] = n,
               \A q \in Runs \ {r} : k[q] = h[q]
        PROVE  h[r] <= SumOver(h, Runs)
               /\ SumOver(k, Runs) = SumOver(h, Runs) - h[r] + n
    BY <1>1, <2>1, SumChange
  <2> QED
    BY <1>1, <2>1
<1> QED
  BY <1>2, <1>3, <1>4

LEMMA CallTyped ==
    ASSUME HoldInv, NEW r \in Runs
    PROVE  /\ call[r].hook \in Hooks /\ call[r].amount \in Nat /\ call[r].read \in Nat
           /\ call[r] = [hook |-> call[r].hook, amount |-> call[r].amount,
                         read |-> call[r].read]
  BY DEF HoldInv, HoldTypeOK

\* A step that leaves the holds alone leaves their sum alone.
LEMMA HeldSame == ASSUME UNCHANGED held PROVE HeldInAll' = HeldInAll
<1>1. HeldInAll' = SumOver(held', Runs)
  BY Zenon DEF HeldInAll, SumOver, MapThenSumSet, MapThenFoldSet
<1> QED
  BY <1>1, HeldIsSum

LEMMA ReadsKeep ==
    ASSUME HoldInv, NEW r \in Runs, NEW hook \in Between, NEW amount \in Nat,
           Reads(r, hook, amount),
           hook = "lock" => held[r] = 0,
           hook \in {"unlock", "spend"} => amount = held[r]
    PROVE  HoldInv'
<1>1. HeldInAll' = HeldInAll
  BY HeldSame DEF Reads
<1>2. HoldTypeOK'
  BY DEF HoldInv, HoldTypeOK, Reads, Between, Hooks
<1>3. /\ call \in [Runs -> [hook : Hooks, amount : Nat, read : Nat]]
      /\ call' = [call EXCEPT ![r] =
                    [hook |-> hook, amount |-> amount, read |-> inOrdersNow]]
      /\ callsMet' = (callsMet \/ \E q \in Runs \ {r} : call[q].hook \in Between)
      /\ UNCHANGED <<held, free, spent, inOrdersNow>>
  BY DEF HoldInv, HoldTypeOK, Reads, Between
<1>4. CallsKnow'
  BY <1>3 DEF HoldInv, CallsKnow
<1>5. Alone'
  <2> SUFFICES ASSUME ~callsMet', NEW t \in Runs, call'[t].hook \in Between
               PROVE  /\ call'[t].read = inOrdersNow'
                      /\ \A q \in Runs \ {t} : call'[q].hook \notin Between
    BY DEF Alone
  <2>1. t = r
    BY <1>3
  <2> QED
    BY <1>3, <2>1
<1>6. HoldsAddUp'
  BY <1>1, <1>3 DEF HoldInv, HoldsAddUp
<1> QED
  BY <1>2, <1>4, <1>5, <1>6 DEF HoldInv

\* The last of a call's steps: it is idle, or has the credit left to do, and
\* the run holds n instead.
LEMMA WritesKeep ==
    ASSUME HoldInv, NEW r \in Runs, NEW n \in Nat, call[r].hook \in Between,
           held' = [held EXCEPT ![r] = n],
           call' \in [Runs -> [hook : Hooks, amount : Nat, read : Nat]],
           \A q \in Runs \ {r} : call'[q] = call[q],
           call'[r].hook \in {"none", "credit"},
           UNCHANGED callsMet
    PROVE  CallsKnow' /\ Alone'
<1>1. held \in [Runs -> Nat]
  BY DEF HoldInv, HoldTypeOK
<1>2. CallsKnow'
  BY <1>1 DEF HoldInv, CallsKnow
<1>3. Alone'
  <2> SUFFICES ASSUME ~callsMet, NEW t \in Runs, call'[t].hook \in Between
               PROVE  FALSE
    BY DEF Alone
  <2>1. t # r
    BY DEF Between
  <2>2. call[t].hook \in Between
    BY <2>1
  <2> QED
    BY <2>1, <2>2 DEF HoldInv, Alone
<1> QED
  BY <1>2, <1>3

\* What a call between read and write finds when no two met.
LEMMA FindsAll ==
    ASSUME HoldInv, NEW r \in Runs, call[r].hook \in Between, ~callsMet
    PROVE  call[r].read = HeldInAll /\ inOrdersNow = HeldInAll
  BY DEF HoldInv, Alone, HoldsAddUp

LEMMA LockKeeps ==
    ASSUME HoldInv, NEW r \in Runs, LockWrites(r)
    PROVE  HoldInv'
<1>1. /\ call[r].hook = "lock" /\ call[r].hook \in Between /\ held[r] = 0
      /\ held \in [Runs -> Nat]
      /\ call' = [call EXCEPT ![r] = Idle]
      /\ UNCHANGED <<spent, bought, callsMet, callsOf>>
  BY DEF LockWrites, HoldInv, HoldTypeOK, CallsKnow, Between
<1>2. /\ call' \in [Runs -> [hook : Hooks, amount : Nat, read : Nat]]
      /\ \A q \in Runs \ {r} : call'[q] = call[q]
      /\ call'[r].hook \in {"none", "credit"}
  BY <1>1 DEF HoldInv, HoldTypeOK, Idle, Hooks
<1>3. CASE free >= call[r].amount
  <2>1. /\ free' = free - call[r].amount
        /\ inOrdersNow' = call[r].read + call[r].amount
        /\ held' = [held EXCEPT ![r] = call[r].amount]
    BY <1>3 DEF LockWrites, More
  <2>2. call[r].amount \in Nat /\ call[r].read \in Nat
    BY CallTyped
  <2>3. HeldInAll \in Nat /\ HeldInAll' = HeldInAll + call[r].amount
    <3>1. PICK n \in Nat : n = call[r].amount
      BY <2>2
    <3>2. HeldInAll \in Nat /\ HeldInAll' = HeldInAll - held[r] + n
      BY <2>1, <3>1, HeldChange
    <3> QED
      BY <1>1, <3>1, <3>2
  <2>4. CallsKnow' /\ Alone'
    BY <1>1, <1>2, <2>1, <2>2, WritesKeep
  <2>5. HoldTypeOK'
    BY <1>1, <1>2, <1>3, <2>1, <2>2 DEF HoldInv, HoldTypeOK
  <2>6. free \in Nat /\ spent \in Nat /\ free + HeldInAll + spent = Funds
    BY DEF HoldInv, HoldTypeOK, HoldsAddUp
  <2>7. HoldsAddUp'
    <3>1. ~callsMet => call[r].read = HeldInAll
      BY <1>1, FindsAll
    <3>2. free' + HeldInAll' + spent' = Funds
      BY <1>1, <2>1, <2>2, <2>3, <2>6
    <3> QED
      BY <1>1, <2>1, <2>2, <2>3, <3>1, <3>2 DEF HoldsAddUp
  <2> QED
    BY <2>4, <2>5, <2>7 DEF HoldInv
<1>4. CASE ~(free >= call[r].amount)
  <2>1. UNCHANGED <<free, inOrdersNow, held>>
    BY <1>4 DEF LockWrites
  <2>2. held' = [held EXCEPT ![r] = 0]
    BY <1>1, <2>1
  <2>3. CallsKnow' /\ Alone'
    BY <1>1, <1>2, <2>2, WritesKeep
  <2>4. HeldInAll' = HeldInAll
    BY <2>1, HeldSame
  <2> QED
    BY <1>1, <1>2, <2>1, <2>3, <2>4 DEF HoldInv, HoldTypeOK, HoldsAddUp
<1> QED
  BY <1>3, <1>4

\* Releasing and spending both take the hold out of amount_in_orders.
LEMMA ReleaseKeeps ==
    ASSUME HoldInv, NEW r \in Runs, call[r].hook \in {"unlock", "spend"},
           held' = [held EXCEPT ![r] = 0],
           inOrdersNow' = Less(call[r].read, call[r].amount),
           free' \in Nat, spent' \in Nat,
           free' + spent' = free + spent + held[r],
           call' \in [Runs -> [hook : Hooks, amount : Nat, read : Nat]],
           \A q \in Runs \ {r} : call'[q] = call[q],
           call'[r].hook \in {"none", "credit"},
           UNCHANGED <<bought, callsMet, callsOf>>
    PROVE  HoldInv'
<1>1. call[r].hook \in Between
  BY DEF Between
<1>2. /\ call[r].read \in Nat /\ call[r].amount = held[r]
      /\ free \in Nat /\ spent \in Nat /\ free + HeldInAll + spent = Funds
  BY CallTyped DEF HoldInv, HoldTypeOK, CallsKnow, HoldsAddUp
<1>3. /\ HeldInAll \in Nat /\ held[r] \in Nat /\ held[r] <= HeldInAll
      /\ HeldInAll' = HeldInAll - held[r] + 0
  BY HeldChange
<1>4. inOrdersNow' = IF call[r].read >= held[r] THEN call[r].read - held[r] ELSE 0
  BY <1>2, <1>3, LessIs
<1>5. inOrdersNow' \in Nat
  BY <1>2, <1>3, <1>4
<1>6. CallsKnow' /\ Alone'
  BY <1>1, WritesKeep
<1>7. HoldTypeOK'
  BY <1>5 DEF HoldInv, HoldTypeOK
<1>8. HoldsAddUp'
  <2>1. ~callsMet => call[r].read = HeldInAll
    BY <1>1, FindsAll
  <2>2. ~callsMet => inOrdersNow' = HeldInAll'
    BY <1>3, <1>4, <2>1
  <2>3. free' + HeldInAll' + spent' = Funds
    BY <1>2, <1>3
  <2> QED
    BY <2>2, <2>3 DEF HoldsAddUp
<1> QED
  BY <1>6, <1>7, <1>8 DEF HoldInv

LEMMA UnlockKeeps ==
    ASSUME HoldInv, NEW r \in Runs, UnlockWrites(r)
    PROVE  HoldInv'
<1>1. /\ call[r].hook = "unlock" /\ call[r].amount = held[r] /\ held[r] \in Nat
      /\ free \in Nat /\ spent \in Nat
      /\ call \in [Runs -> [hook : Hooks, amount : Nat, read : Nat]]
  BY DEF UnlockWrites, HoldInv, HoldTypeOK, CallsKnow
<1>2. /\ free' = free + call[r].amount
      /\ inOrdersNow' = Less(call[r].read, call[r].amount)
      /\ held' = [held EXCEPT ![r] = 0]
      /\ call' = [call EXCEPT ![r] = Idle]
      /\ UNCHANGED <<spent, bought, callsMet, callsOf>>
  BY DEF UnlockWrites
<1>3. /\ call' \in [Runs -> [hook : Hooks, amount : Nat, read : Nat]]
      /\ \A q \in Runs \ {r} : call'[q] = call[q]
      /\ call'[r].hook \in {"none", "credit"}
  BY <1>1, <1>2 DEF Idle, Hooks
<1>4. free' \in Nat /\ spent' \in Nat /\ free' + spent' = free + spent + held[r]
  BY <1>1, <1>2
<1> QED
  BY <1>1, <1>2, <1>3, <1>4, ReleaseKeeps

LEMMA SpendKeeps ==
    ASSUME HoldInv, NEW r \in Runs, SpendWrites(r)
    PROVE  HoldInv'
<1>1. /\ call[r].hook = "spend" /\ call[r].amount = held[r] /\ held[r] \in Nat
      /\ free \in Nat /\ spent \in Nat
      /\ call \in [Runs -> [hook : Hooks, amount : Nat, read : Nat]]
  BY DEF SpendWrites, HoldInv, HoldTypeOK, CallsKnow
<1>2. /\ spent' = spent + call[r].amount
      /\ inOrdersNow' = Less(call[r].read, call[r].amount)
      /\ held' = [held EXCEPT ![r] = 0]
      /\ call' = [call EXCEPT ![r].hook = "credit"]
      /\ UNCHANGED <<free, bought, callsMet, callsOf>>
  BY DEF SpendWrites
<1>3. /\ call' \in [Runs -> [hook : Hooks, amount : Nat, read : Nat]]
      /\ \A q \in Runs \ {r} : call'[q] = call[q]
      /\ call'[r].hook \in {"none", "credit"}
  BY <1>1, <1>2 DEF Hooks
<1>4. free' \in Nat /\ spent' \in Nat /\ free' + spent' = free + spent + held[r]
  BY <1>1, <1>2
<1> QED
  BY <1>1, <1>2, <1>3, <1>4, ReleaseKeeps

LEMMA CreditKeeps ==
    ASSUME HoldInv, NEW r \in Runs,
           CreditOnly(r) \/ \E ok \in BOOLEAN : CreditAfterSpend(r, ok)
    PROVE  HoldInv'
<1>1. HeldInAll' = HeldInAll /\ UNCHANGED <<held, free, spent, inOrdersNow, callsMet>>
  BY HeldSame DEF CreditOnly, CreditAfterSpend
<1>2. /\ call \in [Runs -> [hook : Hooks, amount : Nat, read : Nat]]
      /\ call' = call \/ call' = [call EXCEPT ![r] = Idle]
  BY DEF HoldInv, HoldTypeOK, CreditOnly, CreditAfterSpend
<1>3. HoldTypeOK'
  <2>1. bought' \in Nat /\ callsOf' \in [Runs -> Nat]
    BY DEF HoldInv, HoldTypeOK, CreditOnly, CreditAfterSpend
  <2> QED
    BY <1>1, <1>2, <2>1 DEF HoldInv, HoldTypeOK, Idle, Hooks
<1>4. \A q \in Runs : call'[q] = call[q] \/ call'[q].hook = "none"
  BY <1>2 DEF Idle
<1>5. CallsKnow' /\ Alone'
  BY <1>1, <1>4 DEF HoldInv, CallsKnow, Alone, Between
<1>6. HoldsAddUp'
  BY <1>1 DEF HoldInv, HoldsAddUp
<1> QED
  BY <1>3, <1>5, <1>6 DEF HoldInv

LEMMA HoldInitially == HoldInit => HoldInv
<1> SUFFICES ASSUME HoldInit PROVE HoldInv
  OBVIOUS
<1>1. HoldTypeOK
  <2>1. Idle \in [hook : Hooks, amount : Nat, read : Nat]
    BY DEF Idle, Hooks
  <2>2. Funds \in Nat
    BY HoldAssumption
  <2>3. held \in [Runs -> Nat] /\ callsOf \in [Runs -> Nat]
    BY DEF HoldInit
  <2>4. call \in [Runs -> [hook : Hooks, amount : Nat, read : Nat]]
    <3> DEFINE calls == [hook : Hooks, amount : Nat, read : Nat]
    <3>1. Idle \in calls
      BY <2>1
    <3> HIDE DEF calls
    <3>2. call \in [Runs -> calls]
      BY <3>1 DEF HoldInit
    <3> QED
      BY <3>2 DEF calls
  <2>5. callsMet \in BOOLEAN
    BY Zenon DEF HoldInit
  <2>6. {free, inOrdersNow, spent, bought} \subseteq Nat
    BY <2>2 DEF HoldInit
  <2> QED
    BY <2>3, <2>4, <2>5, <2>6, Zenon DEF HoldTypeOK
<1>2. HeldInAll = 0
  BY HoldAssumption, HeldIsSum, SumOfZeros DEF HoldInit, HoldTypeOK
<1>3. \A r \in Runs : call[r].hook = "none"
  BY DEF HoldInit, Idle
<1> QED
  BY <1>1, <1>2, <1>3, HoldAssumption
     DEF HoldInit, HoldInv, CallsKnow, Alone, Between, HoldsAddUp

LEMMA HoldStep == HoldInv /\ [HoldNext]_holdVars => HoldInv'
<1> SUFFICES ASSUME HoldInv, [HoldNext]_holdVars PROVE HoldInv'
  OBVIOUS
<1>1. CASE UNCHANGED holdVars
  <2>1. UNCHANGED <<free, inOrdersNow, held, spent, bought, call, callsMet, callsOf>>
    BY <1>1 DEF holdVars
  <2> QED
    BY <2>1, HeldSame DEF HoldInv, HoldTypeOK, CallsKnow, Alone, HoldsAddUp
<1>2. ASSUME NEW r \in Runs, NEW n \in HoldAmounts, LockReads(r, n)
      PROVE  HoldInv'
  <2>1. n \in Nat
    BY HoldAssumption
  <2> QED
    BY <1>2, <2>1, ReadsKeep DEF LockReads, Between
<1>3. ASSUME NEW r \in Runs, UnlockReads(r) \/ SpendReads(r)
      PROVE  HoldInv'
  <2>1. held[r] \in Nat
    BY DEF HoldInv, HoldTypeOK
  <2> QED
    BY <1>3, <2>1, ReadsKeep DEF UnlockReads, SpendReads, Between
<1> QED
  BY <1>1, <1>2, <1>3, LockKeeps, UnlockKeeps, SpendKeeps, CreditKeeps
     DEF HoldNext

\* In every interleaving of the hooks, for every number of runs, what a user
\* has free, holds and has spent is what the user had at first, and as long as
\* no two hooks overlapped amount_in_orders says what the runs hold.
THEOREM HoldsAgree == HoldSpec => []HoldsAddUp
<1>1. HoldInv => HoldsAddUp
  BY DEF HoldInv
<1> QED
  BY <1>1, HoldInitially, HoldStep, PTL DEF HoldSpec

\* The balance row and the runs' holds stay natural numbers, whichever of two
\* overlapping hooks writes last.
THEOREM HoldTyped == HoldSpec => []HoldTypeOK
<1>1. HoldInv => HoldTypeOK
  BY DEF HoldInv
<1> QED
  BY <1>1, HoldInitially, HoldStep, PTL DEF HoldSpec

----------------------------------------------------------------------------
(* The rewards and debts of Staking.                                      *)

USE StakingAssumption

----------------------------------------------------------------------------
(* Rounded division.                                                       *)

LEMMA TimesNat == ASSUME NEW a \in Nat, NEW b \in Nat PROVE a * b \in Nat
  OBVIOUS

LEMMA DivideNat ==
    ASSUME NEW a \in Nat, NEW d \in Nat \ {0}
    PROVE  a \div d \in Nat
  OBVIOUS

LEMMA DivideMonotone ==
    ASSUME NEW a \in Nat, NEW b \in Nat, a <= b, NEW d \in Nat \ {0}
    PROVE  a \div d <= b \div d
  OBVIOUS

LEMMA TimesMonotone ==
    ASSUME NEW n \in Nat, NEW a \in Nat, NEW b \in Nat, a <= b
    PROVE  n * a <= n * b
  OBVIOUS

LEMMA ShareMonotone ==
    ASSUME NEW n \in Nat, NEW a \in Nat, NEW b \in Nat, a <= b
    PROVE  Share(n, a) \in Nat /\ Share(n, b) \in Nat /\ Share(n, a) <= Share(n, b)
<1>1. n * a \in Nat /\ n * b \in Nat /\ n * a <= n * b
  BY TimesNat, TimesMonotone
<1>2. (n * a) \div Precision <= (n * b) \div Precision
  BY <1>1, DivideMonotone
<1> QED
  BY <1>1, <1>2, DivideNat DEF Share

LEMMA ShareNat ==
    ASSUME NEW n \in Nat, NEW a \in Nat
    PROVE  Share(n, a) \in Nat
  BY TimesNat, DivideNat DEF Share

----------------------------------------------------------------------------
(* The part of the types that needs no sum: that the total is not negative *)
(* is shown from the positions further down.                               *)

StakingTyped ==
    /\ position \in [Stakers -> Positions]
    /\ totalStaked \in Int
    /\ {accRewardPerShare, lastUpdate, rewardRate} \subseteq Nat
    /\ {stakeTime, fund, emitted, paid, resets, rateChanges} \subseteq Nat
    /\ wallet \in [Stakers -> Nat]
    /\ lastUpdate <= stakeTime

\* Every debt was computed from the accumulator of then, which only grows.
DebtsCovered ==
    \A s \in Stakers :
       position[s].debt <= Share(position[s].amount, accRewardPerShare)

StakingInv == StakingTyped /\ DebtsCovered

LEMMA PositionTyped ==
    ASSUME StakingTyped, NEW s \in Stakers
    PROVE  position[s].amount \in Nat /\ position[s].debt \in Nat
                                      /\ position[s].unlockAt \in Nat
<1>1. position[s] \in Positions
  BY DEF StakingTyped
<1> QED
  BY <1>1 DEF Positions

LEMMA AccruedGrows ==
    ASSUME StakingTyped
    PROVE  Accrued \in Nat /\ accRewardPerShare <= Accrued
<1>1. accRewardPerShare \in Nat /\ rewardRate \in Nat /\ stakeTime - lastUpdate \in Nat
  BY DEF StakingTyped
<1>2. CASE totalStaked > 0
  <2> DEFINE gain == (stakeTime - lastUpdate) * rewardRate * Precision
  <2>1. (stakeTime - lastUpdate) * rewardRate \in Nat
    BY <1>1, TimesNat
  <2>2. gain \in Nat
    BY <2>1, TimesNat
  <2>3. totalStaked \in Nat \ {0}
    BY <1>2 DEF StakingTyped
  <2> HIDE DEF gain
  <2>4. gain \div totalStaked \in Nat
    BY <2>2, <2>3, DivideNat
  <2>5. Accrued = accRewardPerShare + (gain \div totalStaked)
    BY <1>2 DEF Accrued, gain
  <2> QED
    BY <1>1, <2>4, <2>5
<1>3. CASE ~(totalStaked > 0)
  BY <1>1, <1>3 DEF Accrued
<1> QED
  BY <1>2, <1>3

LEMMA NothingOwedBelowZero ==
    ASSUME StakingInv, NEW s \in Stakers
    PROVE  Owed(s) \in Nat
<1>1. accRewardPerShare \in Nat /\ Accrued \in Nat /\ accRewardPerShare <= Accrued
  BY AccruedGrows DEF StakingInv, StakingTyped
<1>2. position[s].amount \in Nat /\ position[s].debt \in Nat
  BY PositionTyped DEF StakingInv
<1>3. /\ Share(position[s].amount, accRewardPerShare) \in Nat
      /\ Share(position[s].amount, Accrued) \in Nat
      /\ Share(position[s].amount, accRewardPerShare) <= Share(position[s].amount, Accrued)
  BY <1>1, <1>2, ShareMonotone
<1>4. position[s].debt <= Share(position[s].amount, accRewardPerShare)
  BY DEF StakingInv, DebtsCovered
<1> QED
  BY <1>2, <1>3, <1>4 DEF Owed

----------------------------------------------------------------------------
(* What the pool update and the payment do to the numbers.                  *)

LEMMA UpdatingPool ==
    ASSUME StakingInv, UpdatePool
    PROVE  /\ accRewardPerShare' = Accrued /\ Accrued \in Nat
           /\ lastUpdate' = stakeTime /\ stakeTime \in Nat
           /\ emitted' \in Nat
<1>1. stakeTime \in Nat /\ emitted \in Nat /\ rewardRate \in Nat
      /\ stakeTime - lastUpdate \in Nat
  BY DEF StakingInv, StakingTyped
<1>2. (stakeTime - lastUpdate) * rewardRate \in Nat
  BY <1>1, TimesNat
<1>3. emitted' \in Nat
  BY <1>1, <1>2 DEF UpdatePool
<1> QED
  BY <1>1, <1>3, AccruedGrows DEF UpdatePool, StakingInv

LEMMA PayingReward ==
    ASSUME StakingInv, NEW s \in Stakers,
           PayReward(s) \/ UNCHANGED <<fund, paid>>
    PROVE  fund' \in Nat /\ paid' \in Nat
<1>1. fund \in Nat /\ paid \in Nat
  BY DEF StakingInv, StakingTyped
<1>2. Owed(s) \in Nat
  BY NothingOwedBelowZero
<1> QED
  BY <1>1, <1>2 DEF PayReward

\* A call of s that moves the pool on, sets the debt of s from it, and leaves
\* the other positions alone keeps every debt covered.
LEMMA NewPosition ==
    ASSUME StakingInv, UpdatePool, NEW s \in Stakers, NEW new \in Positions,
           position' = [position EXCEPT ![s] = new],
           new.debt = Share(new.amount, Accrued)
    PROVE  position' \in [Stakers -> Positions] /\ DebtsCovered'
<1>1. position \in [Stakers -> Positions] /\ accRewardPerShare \in Nat
  BY DEF StakingInv, StakingTyped
<1>2. accRewardPerShare' = Accrued /\ Accrued \in Nat /\ accRewardPerShare <= Accrued
  BY UpdatingPool, AccruedGrows DEF StakingInv
<1>3. ASSUME NEW r \in Stakers
      PROVE  position'[r].debt <= Share(position'[r].amount, Accrued)
  <2>1. CASE r = s
    <3>1. position'[r] = new
      BY <1>1, <2>1
    <3>2. new.amount \in Nat
      BY DEF Positions
    <3>3. Share(new.amount, Accrued) \in Nat
      BY <1>2, <3>2, ShareMonotone
    <3> QED
      BY <3>1, <3>3
  <2>2. CASE r # s
    <3>1. position'[r] = position[r]
      BY <1>1, <2>2
    <3>2. position[r].amount \in Nat /\ position[r].debt \in Nat
      BY PositionTyped DEF StakingInv
    <3>3. position[r].debt <= Share(position[r].amount, accRewardPerShare)
      BY DEF StakingInv, DebtsCovered
    <3>4. /\ Share(position[r].amount, accRewardPerShare) \in Nat
          /\ Share(position[r].amount, Accrued) \in Nat
          /\ Share(position[r].amount, accRewardPerShare)
               <= Share(position[r].amount, Accrued)
      BY <1>1, <1>2, <3>2, ShareMonotone
    <3> QED
      BY <3>1, <3>2, <3>3, <3>4
  <2> QED
    BY <2>1, <2>2
<1>4. DebtsCovered'
  <2>1. \A r \in Stakers :
           Share(position[r].amount, accRewardPerShare)'
             = Share(position'[r].amount, Accrued)
    BY <1>2 DEF Share
  <2> QED
    BY <1>3, <2>1 DEF DebtsCovered
<1> QED
  BY <1>1, <1>4

----------------------------------------------------------------------------
LEMMA StakeKeeps ==
    ASSUME StakingInv, NEW s \in Stakers, NEW n \in Nat, Stake(s, n)
    PROVE  StakingInv'
<1> DEFINE amount == position[s].amount + n
           new == [amount |-> amount, debt |-> DebtAfter(position[s].amount, amount),
                   unlockAt |-> stakeTime + MinLock]
<1>1. /\ n > 0 /\ n <= wallet[s] /\ UpdatePool
      /\ PayReward(s) \/ UNCHANGED <<fund, paid>>
      /\ wallet' = [wallet EXCEPT ![s] = @ - n]
      /\ position' = [position EXCEPT ![s] = new]
      /\ totalStaked' = totalStaked + n
      /\ resets' = resets + 1
      /\ UNCHANGED <<rewardRate, stakeTime, rateChanges>>
  BY DEF Stake, CountReset
<1>2. amount \in Nat /\ Accrued \in Nat /\ stakeTime + MinLock \in Nat
  BY PositionTyped, AccruedGrows DEF StakingInv, StakingTyped
<1>3. new.debt = Share(new.amount, Accrued)
  BY DEF DebtAfter
<1>4. new \in Positions
  <2>1. DebtAfter(position[s].amount, amount) = Share(amount, Accrued)
    BY DEF DebtAfter
  <2>2. Share(amount, Accrued) \in Nat
    BY <1>2, ShareNat
  <2> HIDE DEF amount
  <2> QED
    BY <1>2, <2>1, <2>2 DEF Positions
<1> HIDE DEF new
<1>5. position' \in [Stakers -> Positions] /\ DebtsCovered'
  BY <1>1, <1>3, <1>4, NewPosition
<1>6. fund' \in Nat /\ paid' \in Nat
  BY <1>1, PayingReward
<1>7. accRewardPerShare' \in Nat /\ lastUpdate' = stakeTime /\ emitted' \in Nat
  BY <1>1, UpdatingPool
<1>8. wallet' \in [Stakers -> Nat]
  BY <1>1 DEF StakingInv, StakingTyped
<1> QED
  BY <1>1, <1>5, <1>6, <1>7, <1>8 DEF StakingInv, StakingTyped

LEMMA UnstakeKeeps ==
    ASSUME StakingInv, NEW s \in Stakers, NEW n \in Nat, Unstake(s, n)
    PROVE  StakingInv'
<1> DEFINE amount == position[s].amount - n
           new == [position[s] EXCEPT !.amount = amount,
                                      !.debt = DebtAfter(position[s].amount, amount)]
<1>0. position[s] \in Positions
  BY DEF StakingInv, StakingTyped
<1>1. /\ position[s].amount >= n /\ UpdatePool /\ PayReward(s)
      /\ wallet' = [wallet EXCEPT ![s] = @ + n]
      /\ position' = [position EXCEPT ![s] = new]
      /\ totalStaked' = totalStaked - n
      /\ resets' = resets + 1
      /\ UNCHANGED <<rewardRate, stakeTime, rateChanges>>
  BY DEF Unstake, CountReset
<1>2. amount \in Nat /\ Accrued \in Nat
  BY <1>1, PositionTyped, AccruedGrows DEF StakingInv
<1>3. new.amount = amount /\ new.debt = Share(amount, Accrued)
  BY <1>0 DEF DebtAfter, Positions
<1>4. new \in Positions
  <2>1. DebtAfter(position[s].amount, amount) = Share(amount, Accrued)
    BY DEF DebtAfter
  <2>2. Share(amount, Accrued) \in Nat
    BY <1>2, ShareNat
  <2> HIDE DEF amount
  <2> QED
    BY <1>0, <1>2, <2>1, <2>2 DEF Positions
<1> HIDE DEF new
<1>5. position' \in [Stakers -> Positions] /\ DebtsCovered'
  BY <1>1, <1>3, <1>4, NewPosition
<1>6. fund' \in Nat /\ paid' \in Nat
  BY <1>1, PayingReward
<1>7. accRewardPerShare' \in Nat /\ lastUpdate' = stakeTime /\ emitted' \in Nat
  BY <1>1, UpdatingPool
<1>8. wallet' \in [Stakers -> Nat]
  BY <1>1 DEF StakingInv, StakingTyped
<1> QED
  BY <1>1, <1>5, <1>6, <1>7, <1>8 DEF StakingInv, StakingTyped

LEMMA ClaimKeeps ==
    ASSUME StakingInv, NEW s \in Stakers, Claim(s)
    PROVE  StakingInv'
<1> DEFINE new == [position[s] EXCEPT !.debt = Share(position[s].amount, Accrued)]
<1>0. position[s] \in Positions
  BY DEF StakingInv, StakingTyped
<1>1. /\ UpdatePool /\ PayReward(s)
      /\ position' = [position EXCEPT ![s] = new]
      /\ resets' = resets + 1
      /\ UNCHANGED <<totalStaked, rewardRate, stakeTime, wallet, rateChanges>>
  BY DEF Claim, CountReset
<1>2. position[s].amount \in Nat /\ Accrued \in Nat
  BY PositionTyped, AccruedGrows DEF StakingInv
<1>3. new.debt = Share(new.amount, Accrued)
  BY <1>0 DEF Positions
<1>4. new \in Positions
  BY <1>0, <1>2, ShareMonotone DEF Positions
<1> HIDE DEF new
<1>5. position' \in [Stakers -> Positions] /\ DebtsCovered'
  BY <1>1, <1>3, <1>4, NewPosition
<1>6. fund' \in Nat /\ paid' \in Nat
  BY <1>1, PayingReward
<1>7. accRewardPerShare' \in Nat /\ lastUpdate' = stakeTime /\ emitted' \in Nat
  BY <1>1, UpdatingPool
<1> QED
  BY <1>1, <1>5, <1>6, <1>7 DEF StakingInv, StakingTyped

LEMMA SetRateKeeps ==
    ASSUME StakingInv, NEW r \in Rates, SetRewardRate(r)
    PROVE  StakingInv'
<1>1. /\ UpdatePool /\ rewardRate' = r /\ rateChanges' = rateChanges + 1
      /\ UNCHANGED <<position, totalStaked, stakeTime, wallet, fund, paid, resets>>
  BY DEF SetRewardRate
<1>2. accRewardPerShare' = Accrued /\ Accrued \in Nat
      /\ lastUpdate' = stakeTime /\ emitted' \in Nat
  BY <1>1, UpdatingPool
<1>3. accRewardPerShare \in Nat /\ accRewardPerShare <= Accrued
  BY AccruedGrows DEF StakingInv, StakingTyped
<1>4. ASSUME NEW s \in Stakers
      PROVE  position[s].debt <= Share(position[s].amount, Accrued)
  <2>1. position[s].amount \in Nat /\ position[s].debt \in Nat
    BY PositionTyped DEF StakingInv
  <2>2. position[s].debt <= Share(position[s].amount, accRewardPerShare)
    BY DEF StakingInv, DebtsCovered
  <2>3. /\ Share(position[s].amount, accRewardPerShare) \in Nat
        /\ Share(position[s].amount, Accrued) \in Nat
        /\ Share(position[s].amount, accRewardPerShare)
             <= Share(position[s].amount, Accrued)
    BY <1>2, <1>3, <2>1, ShareMonotone
  <2> QED
    BY <2>1, <2>2, <2>3
<1>5. DebtsCovered'
  <2>1. \A s \in Stakers :
           /\ position'[s] = position[s]
           /\ Share(position[s].amount, accRewardPerShare)'
                = Share(position[s].amount, Accrued)
    BY <1>1, <1>2 DEF Share
  <2> QED
    BY <1>4, <2>1 DEF DebtsCovered
<1>6. StakingTyped'
  BY <1>1, <1>2 DEF StakingInv, StakingTyped
<1> QED
  BY <1>5, <1>6 DEF StakingInv

LEMMA StakingInitially == StakingInit => StakingInv
<1> SUFFICES ASSUME StakingInit PROVE StakingInv
  OBVIOUS
<1>1. StakingTyped
  BY DEF StakingInit, StakingTyped, Positions
<1>2. ASSUME NEW s \in Stakers
      PROVE  position[s].debt <= Share(position[s].amount, accRewardPerShare)
  <2>1. position[s].debt = 0 /\ position[s].amount = 0 /\ accRewardPerShare = 0
    BY DEF StakingInit
  <2>2. Share(0, 0) \in Nat
    BY ShareMonotone
  <2> QED
    BY <2>1, <2>2
<1> QED
  BY <1>1, <1>2 DEF StakingInv, DebtsCovered

LEMMA StakingStep == StakingInv /\ [StakingNext]_stakingVars => StakingInv'
<1> SUFFICES ASSUME StakingInv, [StakingNext]_stakingVars PROVE StakingInv'
  OBVIOUS
<1>1. CASE UNCHANGED stakingVars
  <2>1. UNCHANGED <<position, totalStaked, accRewardPerShare, lastUpdate,
                    rewardRate, stakeTime, wallet, fund, emitted, paid, resets,
                    rateChanges>>
    BY <1>1 DEF stakingVars, pool
  <2> QED
    BY <2>1 DEF StakingInv, StakingTyped, DebtsCovered, Share
<1>2. CASE NextBlock
  BY <1>2 DEF NextBlock, pool, StakingInv, StakingTyped, DebtsCovered, Share
<1>3. \A n \in 0..InitialStake : n \in Nat
  OBVIOUS
<1> QED
  BY <1>1, <1>2, <1>3, SetRateKeeps, StakeKeeps, UnstakeKeeps, ClaimKeeps
     DEF StakingNext

----------------------------------------------------------------------------
(* What is staked and what is paid, summed over the stakers.               *)

AmountsOf(pos) == [s \in Stakers |-> pos[s].amount]

\* What a position's reward would be at acc, in units of 1 / Precision, that
\* its debt does not deny it.
SlackAt(pos, acc) ==
    [s \in Stakers |-> pos[s].amount * acc - Precision * pos[s].debt]

TotalIsSum == totalStaked = SumOver(AmountsOf(position), Stakers)

\* What was paid, with what the positions may still claim, was emitted, but
\* for what the rounding of the debts gave.
PaidCovered ==
    Precision * paid + SumOver(SlackAt(position, accRewardPerShare), Stakers)
      <= Precision * (emitted + resets)

RewardInv == StakingInv /\ TotalIsSum /\ PaidCovered

\* What will have been emitted at the next update of the pool.
EmittedNow ==
    emitted + (IF totalStaked > 0 THEN (stakeTime - lastUpdate) * rewardRate ELSE 0)

LEMMA DivideBounds ==
    ASSUME NEW a \in Nat, NEW d \in Nat \ {0}
    PROVE  d * (a \div d) <= a /\ a < d * (a \div d) + d
  OBVIOUS

LEMMA ShareBounds ==
    ASSUME NEW n \in Nat, NEW a \in Nat
    PROVE  /\ n * a \in Nat
           /\ Precision * Share(n, a) \in Nat
           /\ n * a - Precision * Share(n, a) \in Nat
           /\ n * a - Precision * Share(n, a) < Precision
<1>1. n * a \in Nat
  BY TimesNat
<1>2. PICK p \in Nat : p = n * a
  BY <1>1
<1>3. Precision * (p \div Precision) <= p /\ p < Precision * (p \div Precision) + Precision
  BY DivideBounds
<1>4. p \div Precision \in Nat
  BY DivideNat
<1>5. Precision * (p \div Precision) \in Nat
  BY <1>4, TimesNat
<1>6. Share(n, a) = p \div Precision
  BY <1>2 DEF Share
<1> QED
  BY <1>2, <1>3, <1>5, <1>6

LEMMA SlackTyped ==
    ASSUME NEW pos \in [Stakers -> Positions], NEW acc \in Nat,
           \A s \in Stakers : pos[s].debt <= Share(pos[s].amount, acc)
    PROVE  /\ AmountsOf(pos) \in [Stakers -> Nat]
           /\ SlackAt(pos, acc) \in [Stakers -> Nat]
<1>1. ASSUME NEW s \in Stakers
      PROVE  /\ pos[s].amount \in Nat
             /\ pos[s].amount * acc - Precision * pos[s].debt \in Nat
  <2>1. PICK n \in Nat, d \in Nat : n = pos[s].amount /\ d = pos[s].debt
    BY DEF Positions
  <2>2. Share(n, acc) \in Nat /\ d <= Share(n, acc)
    BY <2>1, ShareNat
  <2>3. Precision * d <= Precision * Share(n, acc) /\ Precision * d \in Nat
    BY <2>2, TimesMonotone, TimesNat
  <2>4. n * acc - Precision * d \in Nat
    <3>1. PICK a \in Nat, b \in Nat, c \in Nat :
             a = n * acc /\ b = Precision * Share(n, acc) /\ c = Precision * d
      BY <2>3, ShareBounds
    <3>2. a - b \in Nat /\ c <= b
      BY <2>3, <3>1, ShareBounds
    <3>3. a - c \in Nat
      BY <3>2
    <3> QED
      BY <3>1, <3>3
  <2> QED
    BY <2>1, <2>4
<1> QED
  BY <1>1 DEF AmountsOf, SlackAt

\* The reward per share handed out is at most what was emitted for it.
LEMMA GainCovered ==
    ASSUME StakingInv
    PROVE  /\ Accrued - accRewardPerShare \in Nat
           /\ EmittedNow - emitted \in Nat
           /\ totalStaked \in Nat =>
                 (Accrued - accRewardPerShare) * totalStaked
                    <= Precision * (EmittedNow - emitted)
<1>1. /\ accRewardPerShare \in Nat /\ Accrued \in Nat /\ accRewardPerShare <= Accrued
      /\ rewardRate \in Nat /\ stakeTime - lastUpdate \in Nat /\ emitted \in Nat
      /\ totalStaked \in Int
  BY AccruedGrows DEF StakingInv, StakingTyped
<1>2. PICK e \in Nat : e = (stakeTime - lastUpdate) * rewardRate
  BY <1>1, TimesNat
<1>3. CASE totalStaked > 0
  <2>1. PICK t \in Nat \ {0} : t = totalStaked
    BY <1>1, <1>3
  <2>2. PICK gain \in Nat : gain = e * Precision
    BY TimesNat
  <2>3. EmittedNow = emitted + e /\ Accrued = accRewardPerShare + (gain \div t)
    BY <1>2, <1>3, <2>1, <2>2 DEF EmittedNow, Accrued
  <2>4. gain \div t \in Nat /\ t * (gain \div t) <= gain
    BY DivideNat, DivideBounds
  <2>5. EmittedNow - emitted = e /\ Accrued - accRewardPerShare = gain \div t
    BY <1>1, <2>3, <2>4
  <2>6. (gain \div t) * t <= Precision * e
    BY <2>2, <2>4
  <2> QED
    BY <2>1, <2>4, <2>5, <2>6
<1>4. CASE ~(totalStaked > 0)
  <2>1. EmittedNow - emitted = 0 /\ Accrued - accRewardPerShare = 0
    BY <1>1, <1>4 DEF EmittedNow, Accrued
  <2>2. totalStaked \in Nat => totalStaked = 0
    BY <1>4
  <2> QED
    BY <2>1, <2>2
<1> QED
  BY <1>3, <1>4

\* Bringing the pool up to date keeps what is paid and claimable covered.
LEMMA PoolCovered ==
    ASSUME RewardInv
    PROVE  /\ SlackAt(position, Accrued) \in [Stakers -> Nat]
           /\ SumOver(SlackAt(position, Accrued), Stakers) \in Nat
           /\ Precision * paid + SumOver(SlackAt(position, Accrued), Stakers)
                <= Precision * (EmittedNow + resets)
<1> DEFINE acc == accRewardPerShare
           pos == position
<1>1. /\ IsFiniteSet(Stakers) /\ pos \in [Stakers -> Positions]
      /\ acc \in Nat /\ Accrued \in Nat /\ acc <= Accrued
      /\ emitted \in Nat /\ resets \in Nat /\ paid \in Nat
  BY AccruedGrows DEF RewardInv, StakingInv, StakingTyped
<1>2. \A s \in Stakers : pos[s].debt <= Share(pos[s].amount, acc)
  BY DEF RewardInv, StakingInv, DebtsCovered
<1>3. \A s \in Stakers : pos[s].debt <= Share(pos[s].amount, Accrued)
  <2> SUFFICES ASSUME NEW s \in Stakers
               PROVE  pos[s].debt <= Share(pos[s].amount, Accrued)
    OBVIOUS
  <2>1. pos[s].amount \in Nat /\ pos[s].debt \in Nat
    BY PositionTyped DEF RewardInv, StakingInv
  <2>2. /\ Share(pos[s].amount, acc) \in Nat /\ Share(pos[s].amount, Accrued) \in Nat
        /\ Share(pos[s].amount, acc) <= Share(pos[s].amount, Accrued)
    BY <1>1, <2>1, ShareMonotone
  <2> QED
    BY <1>2, <2>1, <2>2
<1>4. PICK h \in [Stakers -> Nat], g \in [Stakers -> Nat], k \in [Stakers -> Nat] :
         h = SlackAt(pos, acc) /\ g = AmountsOf(pos) /\ k = SlackAt(pos, Accrued)
  BY <1>1, <1>2, <1>3, SlackTyped
<1>5. PICK c \in Nat : c = Accrued - acc
  BY GainCovered DEF RewardInv
<1>6. \A s \in Stakers : k[s] = h[s] + c * g[s]
  <2> SUFFICES ASSUME NEW s \in Stakers PROVE k[s] = h[s] + c * g[s]
    OBVIOUS
  <2>1. PICK n \in Nat, d \in Nat : n = pos[s].amount /\ d = pos[s].debt
    BY PositionTyped DEF RewardInv, StakingInv
  <2>2. /\ h[s] = n * acc - Precision * d
        /\ g[s] = n
        /\ k[s] = n * Accrued - Precision * d
    BY <1>4, <2>1 DEF SlackAt, AmountsOf
  <2>3. n * Accrued = n * acc + c * n
    BY <1>1, <1>5
  <2>4. n * acc \in Nat /\ c * n \in Nat /\ Precision * d \in Nat
    BY <1>1, TimesNat
  <2> QED
    BY <2>2, <2>3, <2>4
<1>7. SumOver(k, Stakers) = SumOver(h, Stakers) + c * SumOver(g, Stakers)
  BY <1>1, <1>6, SumLinear
<1>8. PICK sh \in Nat, t \in Nat, sk \in Nat :
         sh = SumOver(h, Stakers) /\ t = SumOver(g, Stakers) /\ sk = SumOver(k, Stakers)
  BY <1>1, SumTyped
<1>9. PICK e \in Nat : e = EmittedNow - emitted /\ c * t <= Precision * e
  <2>1. totalStaked = t
    BY <1>4, <1>8 DEF RewardInv, TotalIsSum
  <2> QED
    BY <1>5, <2>1, GainCovered DEF RewardInv
<1>10. Precision * paid + sh <= Precision * (emitted + resets)
  BY <1>4, <1>8 DEF RewardInv, PaidCovered
<1>11. Precision * paid + sk <= Precision * (EmittedNow + resets)
  <2>1. EmittedNow + resets = (emitted + resets) + e
    <3>1. EmittedNow \in Int
      <4>1. stakeTime - lastUpdate \in Nat /\ rewardRate \in Nat
        BY DEF RewardInv, StakingInv, StakingTyped
      <4>2. (stakeTime - lastUpdate) * rewardRate \in Nat
        BY <4>1, TimesNat
      <4> QED
        BY <1>1, <4>2 DEF EmittedNow
    <3> QED
      BY <1>1, <1>9, <3>1
  <2>2. /\ Precision * ((emitted + resets) + e)
             = Precision * (emitted + resets) + Precision * e
        /\ Precision * (emitted + resets) \in Nat /\ Precision * e \in Nat
    BY <1>1, Distributes
  <2>3. Precision * paid \in Nat /\ c * t \in Nat
    BY <1>1, TimesNat
  <2>4. sk = sh + c * t
    BY <1>7, <1>8
  <2> QED
    BY <1>9, <1>10, <2>1, <2>2, <2>3, <2>4
<1> QED
  BY <1>4, <1>8, <1>11

\* A call of s that brings the pool up to date, pays at most what s is owed,
\* and sets its debt from the accumulator keeps what is paid covered: the new
\* debt is rounded down by less than one unit.
LEMMA CallCovered ==
    ASSUME RewardInv, NEW s \in Stakers, NEW new \in Positions,
           UpdatePool, position' = [position EXCEPT ![s] = new],
           new.debt = Share(new.amount, Accrued),
           PayReward(s) \/ UNCHANGED <<fund, paid>>,
           resets' = resets + 1
    PROVE  PaidCovered'
<1>1. /\ IsFiniteSet(Stakers) /\ position \in [Stakers -> Positions]
      /\ Accrued \in Nat /\ emitted \in Nat /\ resets \in Nat /\ paid \in Nat
      /\ accRewardPerShare' = Accrued
  BY UpdatingPool, AccruedGrows DEF RewardInv, StakingInv, StakingTyped
<1>2. PICK h \in [Stakers -> Nat] : h = SlackAt(position, Accrued)
  BY PoolCovered
<1>3. PICK k : k = SlackAt(position', Accrued)
  OBVIOUS
<1>4. PICK n \in Nat : n = new.amount
  BY DEF Positions
<1>5. PICK rest \in Nat : rest = n * Accrued - Precision * Share(n, Accrued)
                          /\ rest < Precision
  BY <1>1, ShareBounds
<1>6. /\ k \in [Stakers -> Nat] /\ k[s] = rest
      /\ \A r \in Stakers \ {s} : k[r] = h[r]
  <2>1. \A r \in Stakers : position'[r] = IF r = s THEN new ELSE position[r]
    BY <1>1
  <2>2. k[s] = rest
    BY <1>3, <1>4, <1>5, <2>1 DEF SlackAt
  <2>3. \A r \in Stakers \ {s} : k[r] = h[r]
    BY <1>2, <1>3, <2>1 DEF SlackAt
  <2>4. k = [r \in Stakers |-> k[r]]
    BY <1>3 DEF SlackAt
  <2> QED
    BY <2>2, <2>3, <2>4
<1>7. /\ h[s] <= SumOver(h, Stakers)
      /\ SumOver(k, Stakers) = SumOver(h, Stakers) - h[s] + rest
  BY <1>1, <1>6, SumChange
<1>8. PICK sh \in Nat, hs \in Nat : sh = SumOver(h, Stakers) /\ hs = h[s]
  BY <1>1, SumTyped
<1>9. PICK o \in Nat : o = Owed(s) /\ Precision * o <= hs /\ Precision * o \in Nat
  <2>1. PICK old \in Nat, d \in Nat : old = position[s].amount /\ d = position[s].debt
    BY PositionTyped DEF RewardInv, StakingInv
  <2>2. PICK o \in Nat : o = Owed(s)
    BY NothingOwedBelowZero DEF RewardInv
  <2>3. PICK share \in Nat : share = Share(old, Accrued)
    BY <1>1, ShareNat
  <2>4. o = share - d
    BY <2>1, <2>2, <2>3 DEF Owed
  <2>5. hs = old * Accrued - Precision * d
    BY <1>2, <1>8, <2>1 DEF SlackAt
  <2>6. /\ old * Accrued \in Nat
        /\ old * Accrued - Precision * share \in Nat
    BY <1>1, <2>3, ShareBounds
  <2>7. share = o + d
    BY <2>4
  <2>8. /\ Precision * share = Precision * o + Precision * d
        /\ Precision * o \in Nat /\ Precision * d \in Nat
    BY <2>7, Distributes
  <2>9. Precision * o <= hs
    BY <2>5, <2>6, <2>8
  <2> QED
    BY <2>2, <2>8, <2>9
<1>10. paid' \in {paid, paid + o}
  BY <1>9 DEF PayReward
<1>11. Precision * paid + sh <= Precision * (EmittedNow + resets)
  BY <1>2, <1>8, PoolCovered
<1>12. emitted' = EmittedNow /\ emitted' \in Nat
  BY UpdatingPool DEF UpdatePool, EmittedNow, RewardInv
<1>13. PICK e \in Nat : e = EmittedNow
  BY <1>12
<1>14. Precision * paid' + SumOver(k, Stakers) <= Precision * (e + resets')
  <2>1. /\ Precision * (paid + o) = Precision * paid + Precision * o
        /\ Precision * paid \in Nat
    BY <1>1, <1>9, Distributes
  <2>2. /\ Precision * ((e + resets) + 1) = Precision * (e + resets) + Precision * 1
        /\ Precision * (e + resets) \in Nat
    BY <1>1, Distributes
  <2>3. e + resets' = (e + resets) + 1
    BY <1>1
  <2>4. Precision * paid' <= Precision * paid + Precision * o
        /\ Precision * paid' \in Nat
    <3>1. CASE paid' = paid
      BY <1>9, <2>1, <3>1
    <3>2. CASE paid' = paid + o
      <4>1. Precision * paid' = Precision * (paid + o)
        BY <3>2
      <4> QED
        BY <1>9, <2>1, <4>1
    <3> QED
      BY <1>10, <3>1, <3>2
  <2>5. Precision * paid + sh <= Precision * (e + resets)
    BY <1>11, <1>13
  <2>6. SumOver(k, Stakers) = sh - hs + rest
    BY <1>7, <1>8
  <2>7. Precision * paid' + (sh - hs + rest) <= Precision * (e + resets) + Precision
    BY <1>5, <1>9, <2>1, <2>2, <2>4, <2>5
  <2> QED
    BY <2>2, <2>3, <2>6, <2>7
<1> QED
  BY <1>1, <1>3, <1>12, <1>13, <1>14 DEF PaidCovered, SlackAt

\* The total follows the amount of the one position a call changes.
LEMMA TotalFollows ==
    ASSUME RewardInv, NEW s \in Stakers, NEW new \in Positions,
           position' = [position EXCEPT ![s] = new],
           totalStaked' = totalStaked - position[s].amount + new.amount
    PROVE  TotalIsSum'
<1>1. IsFiniteSet(Stakers) /\ position \in [Stakers -> Positions]
  BY DEF RewardInv, StakingInv, StakingTyped
<1>2. PICK n \in Nat : n = new.amount
  BY DEF Positions
<1>3. PICK h \in [Stakers -> Nat] : h = AmountsOf(position)
  BY <1>1 DEF AmountsOf, Positions
<1>4. PICK k \in [Stakers -> Nat] : k = AmountsOf(position')
  BY <1>1 DEF AmountsOf, Positions
<1>5. k[s] = n /\ \A r \in Stakers \ {s} : k[r] = h[r]
  BY <1>1, <1>2, <1>3, <1>4 DEF AmountsOf
<1>6. SumOver(k, Stakers) = SumOver(h, Stakers) - h[s] + n
  BY <1>1, <1>5, SumChange
<1>7. totalStaked = SumOver(h, Stakers) /\ h[s] = position[s].amount
  BY <1>3 DEF RewardInv, TotalIsSum, AmountsOf
<1> QED
  BY <1>2, <1>4, <1>6, <1>7 DEF TotalIsSum, AmountsOf

LEMMA StakeCovered ==
    ASSUME RewardInv, NEW s \in Stakers, NEW n \in Nat, Stake(s, n)
    PROVE  RewardInv'
<1> DEFINE amount == position[s].amount + n
           new == [amount |-> amount, debt |-> DebtAfter(position[s].amount, amount),
                   unlockAt |-> stakeTime + MinLock]
<1>1. /\ UpdatePool
      /\ PayReward(s) \/ UNCHANGED <<fund, paid>>
      /\ position' = [position EXCEPT ![s] = new]
      /\ totalStaked' = totalStaked + n
      /\ resets' = resets + 1
  BY DEF Stake, CountReset
<1>2. amount \in Nat /\ Accrued \in Nat /\ stakeTime + MinLock \in Nat
      /\ position[s].amount \in Nat /\ totalStaked \in Int
  BY PositionTyped, AccruedGrows DEF RewardInv, StakingInv, StakingTyped
<1>3. new.debt = Share(new.amount, Accrued) /\ new.amount = position[s].amount + n
  BY DEF DebtAfter
<1>4. new \in Positions
  <2>1. DebtAfter(position[s].amount, amount) = Share(amount, Accrued)
    BY DEF DebtAfter
  <2>2. Share(amount, Accrued) \in Nat
    BY <1>2, ShareNat
  <2> HIDE DEF amount
  <2> QED
    BY <1>2, <2>1, <2>2 DEF Positions
<1> HIDE DEF new, amount
<1>5. PaidCovered'
  BY <1>1, <1>3, <1>4, CallCovered
<1>6. totalStaked' = totalStaked - position[s].amount + new.amount
  BY <1>1, <1>2, <1>3
<1>7. TotalIsSum'
  BY <1>1, <1>4, <1>6, TotalFollows
<1> QED
  BY <1>5, <1>7, StakeKeeps DEF RewardInv

LEMMA UnstakeCovered ==
    ASSUME RewardInv, NEW s \in Stakers, NEW n \in Nat, Unstake(s, n)
    PROVE  RewardInv'
<1> DEFINE amount == position[s].amount - n
           new == [position[s] EXCEPT !.amount = amount,
                                      !.debt = DebtAfter(position[s].amount, amount)]
<1>0. position[s] \in Positions
  BY DEF RewardInv, StakingInv, StakingTyped
<1>1. /\ position[s].amount >= n /\ UpdatePool /\ PayReward(s)
      /\ position' = [position EXCEPT ![s] = new]
      /\ totalStaked' = totalStaked - n
      /\ resets' = resets + 1
  BY DEF Unstake, CountReset
<1>2. amount \in Nat /\ Accrued \in Nat
      /\ position[s].amount \in Nat /\ totalStaked \in Int
  BY <1>1, PositionTyped, AccruedGrows DEF RewardInv, StakingInv, StakingTyped
<1>3. /\ new.amount = amount /\ new.debt = Share(amount, Accrued)
      /\ new.amount = position[s].amount - n
  BY <1>0 DEF DebtAfter, Positions
<1>4. new \in Positions
  <2>1. DebtAfter(position[s].amount, amount) = Share(amount, Accrued)
    BY DEF DebtAfter
  <2>2. Share(amount, Accrued) \in Nat
    BY <1>2, ShareNat
  <2> HIDE DEF amount
  <2> QED
    BY <1>0, <1>2, <2>1, <2>2 DEF Positions
<1> HIDE DEF new, amount
<1>5. PaidCovered'
  BY <1>1, <1>3, <1>4, CallCovered
<1>6. totalStaked' = totalStaked - position[s].amount + new.amount
  BY <1>1, <1>2, <1>3
<1>7. TotalIsSum'
  BY <1>1, <1>4, <1>6, TotalFollows
<1> QED
  BY <1>5, <1>7, UnstakeKeeps DEF RewardInv

LEMMA ClaimCovered ==
    ASSUME RewardInv, NEW s \in Stakers, Claim(s)
    PROVE  RewardInv'
<1> DEFINE new == [position[s] EXCEPT !.debt = Share(position[s].amount, Accrued)]
<1>0. position[s] \in Positions
  BY DEF RewardInv, StakingInv, StakingTyped
<1>1. /\ UpdatePool /\ PayReward(s)
      /\ position' = [position EXCEPT ![s] = new]
      /\ resets' = resets + 1
      /\ totalStaked' = totalStaked
  BY DEF Claim, CountReset
<1>2. position[s].amount \in Nat /\ Accrued \in Nat /\ totalStaked \in Int
  BY PositionTyped, AccruedGrows DEF RewardInv, StakingInv, StakingTyped
<1>3. new.debt = Share(new.amount, Accrued) /\ new.amount = position[s].amount
  BY <1>0 DEF Positions
<1>4. new \in Positions
  BY <1>0, <1>2, ShareNat DEF Positions
<1> HIDE DEF new
<1>5. PaidCovered'
  BY <1>1, <1>3, <1>4, CallCovered
<1>6. totalStaked' = totalStaked - position[s].amount + new.amount
  BY <1>1, <1>2, <1>3
<1>7. TotalIsSum'
  BY <1>1, <1>4, <1>6, TotalFollows
<1> QED
  BY <1>5, <1>7, ClaimKeeps DEF RewardInv

LEMMA SetRateCovered ==
    ASSUME RewardInv, NEW r \in Rates, SetRewardRate(r)
    PROVE  RewardInv'
<1>1. /\ UpdatePool
      /\ UNCHANGED <<position, totalStaked, paid, resets>>
  BY DEF SetRewardRate
<1>2. accRewardPerShare' = Accrued /\ emitted' = EmittedNow
  BY <1>1 DEF UpdatePool, EmittedNow
<1>3. PaidCovered'
  BY <1>1, <1>2, PoolCovered DEF PaidCovered, SlackAt
<1>4. TotalIsSum'
  BY <1>1 DEF RewardInv, TotalIsSum, AmountsOf
<1> QED
  BY <1>3, <1>4, SetRateKeeps DEF RewardInv

LEMMA RewardInitially == StakingInit => RewardInv
<1> SUFFICES ASSUME StakingInit PROVE RewardInv
  OBVIOUS
<1>1. StakingInv
  BY StakingInitially
<1>2. \A s \in Stakers : /\ AmountsOf(position)[s] = 0
                         /\ SlackAt(position, accRewardPerShare)[s] = 0
  <2> SUFFICES ASSUME NEW s \in Stakers
               PROVE  /\ AmountsOf(position)[s] = 0
                      /\ SlackAt(position, accRewardPerShare)[s] = 0
    OBVIOUS
  <2>1. position[s].amount = 0 /\ position[s].debt = 0 /\ accRewardPerShare = 0
    BY DEF StakingInit
  <2>2. 0 * 0 - Precision * 0 = 0
    OBVIOUS
  <2> QED
    BY <2>1, <2>2 DEF AmountsOf, SlackAt
<1>3. /\ SumOver(AmountsOf(position), Stakers) = 0
      /\ SumOver(SlackAt(position, accRewardPerShare), Stakers) = 0
  <2>1. /\ AmountsOf(position) \in [Stakers -> Nat]
        /\ SlackAt(position, accRewardPerShare) \in [Stakers -> Nat]
    BY <1>1, SlackTyped DEF StakingInv, StakingTyped, DebtsCovered
  <2> QED
    BY <1>2, <2>1, SumOfZeros
<1>4. TotalIsSum
  BY <1>3 DEF StakingInit, TotalIsSum
<1>5. PaidCovered
  BY <1>3 DEF StakingInit, PaidCovered
<1> QED
  BY <1>1, <1>4, <1>5 DEF RewardInv

LEMMA RewardStep == RewardInv /\ [StakingNext]_stakingVars => RewardInv'
<1> SUFFICES ASSUME RewardInv, [StakingNext]_stakingVars PROVE RewardInv'
  OBVIOUS
<1>1. StakingInv'
  BY StakingStep DEF RewardInv
<1>2. CASE UNCHANGED stakingVars \/ NextBlock
  <2>1. UNCHANGED <<position, totalStaked, accRewardPerShare, emitted, paid, resets>>
    BY <1>2 DEF stakingVars, NextBlock, pool
  <2>2. TotalIsSum' /\ PaidCovered'
    BY <2>1 DEF RewardInv, TotalIsSum, PaidCovered, AmountsOf, SlackAt
  <2> QED
    BY <1>1, <2>2 DEF RewardInv
<1>3. \A n \in 0..InitialStake : n \in Nat
  OBVIOUS
<1> QED
  BY <1>2, <1>3, SetRateCovered, StakeCovered, UnstakeCovered, ClaimCovered
     DEF StakingNext

\* No call of a staker fails because the reward falls below the debt: for any
\* precision, rates, stakes and times, however often both are rounded.
THEOREM NeverStuck == StakingSpec => []PrincipalNeverStuck
<1>1. StakingInv => PrincipalNeverStuck
  <2> SUFFICES ASSUME StakingInv, NEW s \in Stakers PROVE Owed(s) >= 0
    BY DEF PrincipalNeverStuck
  <2>1. Owed(s) \in Nat
    BY NothingOwedBelowZero
  <2> HIDE DEF Owed
  <2> QED
    BY <2>1
<1> QED
  BY <1>1, StakingInitially, StakingStep, PTL DEF StakingSpec

\* The rewards sent never exceed what was emitted by more than one unit for
\* each call that rounded a debt down: for any number of stakers, precision,
\* rates and times, and whether or not the reward token pays.
THEOREM PaidFromEmission == StakingSpec => []RewardsWithinEmission
<1>1. RewardInv => RewardsWithinEmission
  <2> SUFFICES ASSUME RewardInv PROVE RewardsWithinEmission
    OBVIOUS
  <2>1. paid \in Nat /\ resets \in Nat /\ emitted \in Nat
    BY DEF RewardInv, StakingInv, StakingTyped
  <2>2. EmittedNow \in Nat
    <3>1. EmittedNow - emitted \in Nat /\ EmittedNow \in Int
      <4>1. stakeTime - lastUpdate \in Nat /\ rewardRate \in Nat
        BY DEF RewardInv, StakingInv, StakingTyped
      <4>2. (stakeTime - lastUpdate) * rewardRate \in Nat
        BY <4>1, TimesNat
      <4> QED
        BY <2>1, <4>2 DEF EmittedNow
    <3> QED
      BY <2>1, <3>1
  <2>3. PICK e \in Nat : e = EmittedNow + resets
    BY <2>1, <2>2
  <2>4. Precision * paid <= Precision * e
    <3>1. PICK sk \in Nat : Precision * paid + sk <= Precision * e
      BY <2>3, PoolCovered
    <3> QED
      BY <2>1, <3>1, TimesNat
  <2>5. paid <= e
    <3>1. CASE paid > e
      <4>1. paid >= e + 1 /\ e + 1 \in Nat
        BY <2>1, <3>1
      <4>2. Precision * (e + 1) <= Precision * paid
        BY <2>1, <4>1, TimesMonotone
      <4>3. Precision * (e + 1) = Precision * e + Precision * 1 /\ Precision * e \in Nat
        BY Distributes
      <4>4. Precision * paid \in Nat
        BY <2>1, TimesNat
      <4> QED
        BY <2>4, <4>2, <4>3, <4>4
    <3> QED
      BY <2>1, <3>1
  <2> QED
    BY <2>3, <2>5 DEF RewardsWithinEmission, EmittedNow
<1> QED
  BY <1>1, RewardInitially, RewardStep, PTL DEF StakingSpec

\* The numbers of the contract stay natural, the total among them: it is the
\* sum of the positions, so that unstaking never takes it below zero.
THEOREM StakingNumbers == StakingSpec => []StakingTypeOK
<1>1. RewardInv => StakingTypeOK
  <2> SUFFICES ASSUME RewardInv PROVE StakingTypeOK
    OBVIOUS
  <2>1. AmountsOf(position) \in [Stakers -> Nat]
    BY SlackTyped DEF RewardInv, StakingInv, StakingTyped, DebtsCovered
  <2>2. totalStaked \in Nat
    BY <2>1, SumTyped DEF RewardInv, TotalIsSum
  <2> QED
    BY <2>2 DEF RewardInv, StakingInv, StakingTyped, StakingTypeOK
<1> QED
  BY <1>1, RewardInitially, RewardStep, PTL DEF StakingSpec
=============================================================================
