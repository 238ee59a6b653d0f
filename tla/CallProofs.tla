----------------------------- MODULE CallProofs -----------------------------
(***************************************************************************)
(* Proofs about the services that decide one call at a time: the route of  *)
(* an order, the limits of a swap, a private submission, and the requests  *)
(* of the swap API.                                                        *)
(***************************************************************************)
EXTENDS HybridRoute, RiskLimits, PrivateRelay, SwapApi, SequenceTheorems,
        TLAPS

USE RouteAssumption, RiskAssumption, RelayAssumption

----------------------------------------------------------------------------
(* HybridRoute                                                             *)

LEMMA MinOfTwo ==
    ASSUME NEW a \in Int, NEW b \in Int
    PROVE  Min({a, b}) \in {a, b} /\ Min({a, b}) <= a /\ Min({a, b}) <= b
<1>1. \E x \in {a, b} : \A y \in {a, b} : x <= y
  OBVIOUS
<1>2. Min({a, b}) = CHOOSE x \in {a, b} : \A y \in {a, b} : x <= y
  BY DEF Min
<1> HIDE DEF Min
<1> QED
  BY <1>1, <1>2

LEMMA RatioAtLeastTen ==
    ASSUME NEW n \in Nat \ {0}, NEW r \in Nat, 10 * n <= n * r
    PROVE  r >= 10
  OBVIOUS

RouteRecords ==
    [step : RouteSteps, amount : Nat, ratio : Nat, read : Nat, usd : Nat,
     decision : Decisions, internal : Nat, zerox : Nat, asked : Nat \cup {-1}]

\* What RoutesFit says of a decided route, before its quote as well.
Fits ==
    /\ route.internal + route.zerox = 10 * route.amount
    /\ moves = 0 => route.internal <= 10 * book
    /\ (route.zerox = 0 /\ route.usd > InternalMaxUsd) => route.ratio >= 10
    /\ route.zerox > 0 => /\ 10 * route.asked <= route.zerox
                          /\ route.zerox < 10 * route.asked + 10

\* The depth that was read is the book's until it moves.
RouteInv ==
    /\ book \in Nat /\ moves \in Nat /\ route \in RouteRecords
    /\ route.step = "read" => /\ route.amount > 0
                              /\ moves = 0 => route.read <= book
    /\ (route.step \in {"quote", "done"} /\ route.decision # "failed") => Fits

LEMMA NoRouteTyped == NoRoute \in RouteRecords
  BY DEF NoRoute, RouteRecords, RouteSteps, Decisions

LEMMA StartRoute ==
    ASSUME RouteInv, NEW a \in OrderAmounts,
           \/ \E f \in BOOLEAN : RouteInstantSwap(a, f)
           \/ \E usd \in UsdValues, r \in Ratios, f \in BOOLEAN :
                 RouteOrder(a, usd, r, f)
    PROVE  RouteInv'
<1>1. a \in Nat /\ a > 0
  OBVIOUS
<1>2. ASSUME NEW f \in BOOLEAN, RouteInstantSwap(a, f)
      PROVE  RouteInv'
  <2>1. moves' = 0 /\ book' = book /\ book \in Nat
    BY <1>2 DEF RouteInstantSwap, RouteInv
  <2>2. CASE f
    <3>1. route' = [step |-> "quote", amount |-> a, ratio |-> 6, read |-> 0,
                    usd |-> 0, decision |-> "zerox", internal |-> 0,
                    zerox |-> 10 * a, asked |-> a]
      BY <1>2, <2>2 DEF RouteInstantSwap, NoRoute
    <3>2. route' \in RouteRecords
      BY <1>1, <3>1 DEF RouteRecords, RouteSteps, Decisions
    <3>3. Fits'
      BY <1>1, <2>1, <3>1 DEF Fits
    <3> QED
      BY <2>1, <3>1, <3>2, <3>3 DEF RouteInv
  <2>3. CASE ~f
    <3>1. route' = [step |-> "read", amount |-> a, ratio |-> 6, read |-> 0,
                    usd |-> 0, decision |-> "none", internal |-> 0,
                    zerox |-> 0, asked |-> 0]
      BY <1>2, <2>3 DEF RouteInstantSwap, NoRoute
    <3>2. route' \in RouteRecords
      BY <1>1, <3>1 DEF RouteRecords, RouteSteps, Decisions
    <3> QED
      BY <1>1, <2>1, <3>1, <3>2 DEF RouteInv
  <2> QED
    BY <2>2, <2>3
<1>3. ASSUME NEW usd \in UsdValues, NEW r \in Ratios, NEW f \in BOOLEAN,
             RouteOrder(a, usd, r, f)
      PROVE  RouteInv'
  <2>1. moves' = 0 /\ book' = book /\ book \in Nat /\ usd \in Nat /\ r \in Nat
    BY <1>3 DEF RouteOrder, RouteInv
  <2>2. PICK depth \in {0, book} :
           route' = [step |-> "read", amount |-> a, ratio |-> r, read |-> depth,
                     usd |-> usd, decision |-> "none", internal |-> 0,
                     zerox |-> 0, asked |-> 0]
    BY <1>3 DEF RouteOrder, NoRoute
  <2>3. route' \in RouteRecords
    BY <1>1, <2>1, <2>2 DEF RouteRecords, RouteSteps, Decisions
  <2> QED
    BY <1>1, <2>1, <2>2, <2>3 DEF RouteInv
<1> QED
  BY <1>2, <1>3

LEMMA DecideKeeps ==
    ASSUME RouteInv, Decide
    PROVE  RouteInv'
<1> DEFINE whole == 10 * route.amount
           internal == InternalFill(route.read, route.amount, route.ratio)
           external == whole - internal
<1>1. /\ route \in RouteRecords /\ route.step = "read"
      /\ book \in Nat /\ moves \in Nat
      /\ route.amount > 0 /\ (moves = 0 => route.read <= book)
      /\ UNCHANGED <<book, moves>>
  BY DEF RouteInv, Decide
<1>2. /\ route.amount \in Nat /\ route.read \in Nat /\ route.ratio \in Nat
      /\ route.usd \in Nat /\ route.amount # 0
  BY <1>1 DEF RouteRecords
<1>3. route.amount * route.ratio \in Nat
  BY <1>2
<1>4. /\ internal \in Nat /\ internal <= 10 * route.read
      /\ internal <= route.amount * route.ratio
  <2>1. internal = Min({10 * route.read, route.amount * route.ratio})
    BY DEF InternalFill
  <2>2. 10 * route.read \in Nat
    BY <1>2
  <2> HIDE DEF internal
  <2>3. \A a, b \in Nat : Min({a, b}) \in {a, b} /\ Min({a, b}) <= a /\ Min({a, b}) <= b
    BY MinOfTwo
  <2> QED
    BY <1>3, <2>1, <2>2, <2>3
<1>5. ASSUME NEW decision \in Decisions \ {"failed"}, NEW i \in Nat, NEW z \in Nat,
             NEW n \in Nat \cup {-1}, route' = Parts(decision, i, z, n),
             i + z = whole, i <= 10 * route.read,
             (z = 0 /\ route.usd > InternalMaxUsd) => route.ratio >= 10,
             z > 0 => 10 * n <= z /\ z < 10 * n + 10
      PROVE  RouteInv'
  <2>1. /\ route' \in RouteRecords /\ route'.step \in {"quote", "done"}
        /\ route'.internal = i /\ route'.zerox = z /\ route'.asked = n
        /\ route'.usd = route.usd /\ route'.amount = route.amount
        /\ route'.ratio = route.ratio
    BY <1>1, <1>5 DEF Parts, RouteRecords, RouteSteps
  <2>2. Fits'
    BY <1>1, <1>2, <1>5, <2>1 DEF Fits
  <2> QED
    BY <1>1, <2>1, <2>2 DEF RouteInv
<1>6. CASE /\ route.read >= route.amount
           /\ route.usd <= InternalMaxUsd \/ route.usd = 0
  <2>1. route' = Parts("internal", whole, 0, -1)
    BY <1>6 DEF Decide
  <2> QED
    BY <1>2, <1>5, <1>6, <2>1 DEF Decisions
<1>7. CASE /\ ~(/\ route.read >= route.amount
                /\ route.usd <= InternalMaxUsd \/ route.usd = 0)
           /\ route.read <= 0
  <2>1. route' = Parts("zerox", 0, whole, route.amount)
    BY <1>7 DEF Decide
  <2>2. whole \in Nat /\ 0 <= 10 * route.read /\ whole # 0
        /\ 10 * route.amount <= whole /\ whole < 10 * route.amount + 10
    BY <1>2
  <2> HIDE DEF whole
  <2> QED
    BY <1>2, <1>5, <2>1, <2>2 DEF Decisions
<1>8. CASE /\ ~(/\ route.read >= route.amount
                /\ route.usd <= InternalMaxUsd \/ route.usd = 0)
           /\ ~(route.read <= 0)
           /\ external <= 0
  <2>1. route' = Parts("internal", whole, 0, -1)
    BY <1>8 DEF Decide
  <2>2. whole <= internal /\ whole \in Nat
    BY <1>2, <1>4, <1>8
  <2>3. route.ratio >= 10
    BY <1>2, <1>3, <1>4, <2>2, RatioAtLeastTen
  <2> HIDE DEF internal
  <2> QED
    BY <1>2, <1>4, <1>5, <2>1, <2>2, <2>3 DEF Decisions
<1>9. CASE /\ ~(/\ route.read >= route.amount
                /\ route.usd <= InternalMaxUsd \/ route.usd = 0)
           /\ ~(route.read <= 0)
           /\ ~(external <= 0)
  <2>1. route' = Parts("split", internal, external, external \div 10)
    BY <1>9 DEF Decide
  <2>2. external \in Nat /\ external > 0 /\ internal + external = whole
    BY <1>2, <1>4, <1>9
  <2> HIDE DEF internal, external
  <2>3. external \div 10 \in Nat /\ 10 * (external \div 10) <= external
        /\ external < 10 * (external \div 10) + 10
    BY <2>2
  <2> DEFINE n == external \div 10
  <2>4. /\ route' = Parts("split", internal, external, n)
        /\ n \in Nat /\ 10 * n <= external /\ external < 10 * n + 10
    BY <2>1, <2>3
  <2>5. "split" \in Decisions \ {"failed"} /\ external # 0
    BY <2>2 DEF Decisions
  <2> HIDE DEF n, whole
  <2> QED
    BY <1>4, <1>5, <2>2, <2>4, <2>5
<1> QED
  BY <1>6, <1>7, <1>8, <1>9

LEMMA RouteStep == RouteInv /\ [RouteNext]_routeVars => RouteInv'
<1> SUFFICES ASSUME RouteInv, [RouteNext]_routeVars PROVE RouteInv'
  OBVIOUS
<1>1. CASE UNCHANGED routeVars
  BY <1>1 DEF routeVars, RouteInv, Fits
<1>2. ASSUME NEW depth \in BookDepths, BookMoves(depth)
      PROVE  RouteInv'
  BY <1>2 DEF BookMoves, RouteInv, Fits
<1>3. ASSUME NEW ok \in BOOLEAN, QuoteAnswered(ok)
      PROVE  RouteInv'
  <2>1. /\ book \in Nat /\ moves \in Nat /\ route \in RouteRecords
        /\ route.step = "quote" /\ (route.decision # "failed" => Fits)
        /\ UNCHANGED <<book, moves>>
    BY <1>3 DEF QuoteAnswered, RouteInv
  <2>2. CASE ok
    <3>1. route' = [route EXCEPT !.step = "done"]
      BY <1>3, <2>2 DEF QuoteAnswered
    <3> QED
      BY <2>1, <3>1 DEF RouteInv, Fits, RouteRecords, RouteSteps
  <2>3. CASE ~ok
    <3>1. route' = [NoRoute EXCEPT !.step = "done", !.decision = "failed"]
      BY <1>3, <2>3 DEF QuoteAnswered
    <3> QED
      BY <2>1, <3>1 DEF RouteInv, NoRoute, RouteRecords, RouteSteps, Decisions
  <2> QED
    BY <2>2, <2>3
<1>4. CASE TakeRoute
  BY <1>4, NoRouteTyped DEF TakeRoute, RouteInv, NoRoute
<1> QED
  BY <1>1, <1>2, <1>3, <1>4, StartRoute, DecideKeeps DEF RouteNext

\* Whatever the order, the depths and the ratio: every unit of a routed order
\* goes somewhere, the internal part fits the book that was read, a capped
\* order stays inside only by its ratio or for want of a value, and the quote
\* is for the external part less a fraction of a unit.
THEOREM EveryRouteFits == RouteSpec => []RoutesFit
<1>1. RouteInit => RouteInv
  BY NoRouteTyped DEF RouteInit, RouteInv, NoRoute
<1>2. RouteInv => RoutesFit
  BY DEF RouteInv, RoutesFit, Routed, Fits
<1> QED
  BY <1>1, <1>2, RouteStep, PTL DEF RouteSpec

\* Every route on its way and decided has its type.
LEMMA RouteTyped == RouteSpec => []RouteTypeOK
<1>1. RouteInit => RouteInv
  BY NoRouteTyped DEF RouteInit, RouteInv, NoRoute
<1>2. RouteInv => RouteTypeOK
  BY DEF RouteInv, RouteRecords, RouteTypeOK
<1> QED
  BY <1>1, <1>2, RouteStep, PTL DEF RouteSpec

----------------------------------------------------------------------------
(* RiskLimits                                                              *)

\* A key on which no checks overlapped has at most one check, and that read the
\* total there is now.
RiskInv ==
    /\ RiskTypeOK
    /\ DailyLimitUnlessOverlapping
    /\ \A k \in DailyKeys \ overlapping, c \in checking :
          c.key = k => /\ c.used = dailyUsd[k]
                       /\ \A d \in checking : d.key = k => d = c

LEMMA StartCheckKeeps ==
    ASSUME RiskInv, NEW u \in RiskUsers, NEW allowed \in BOOLEAN,
           NEW usd \in UsdEstimates, StartCheck(u, allowed, usd)
    PROVE  RiskInv'
<1> DEFINE key == <<u, today>>
           new == [id |-> checks + 1, key |-> key, usd |-> usd,
                   used |-> dailyUsd[key]]
<1>1. /\ checks < MaxChecks /\ checks' = checks + 1
      /\ UNCHANGED <<today, dailyUsd, admitted>>
  BY DEF StartCheck
<1>2. key \in DailyKeys /\ checks + 1 \in 1..MaxChecks /\ dailyUsd[key] \in Nat
      /\ usd \in Nat
  <2>1. /\ today \in Days /\ checks \in Nat
        /\ dailyUsd \in [DailyKeys -> Nat]
    BY DEF RiskInv, RiskTypeOK
  <2>2. key \in DailyKeys
    BY <2>1 DEF DailyKeys
  <2>3. checks + 1 \in 1..MaxChecks
    BY <1>1, <2>1
  <2> QED
    BY <2>1, <2>2, <2>3
<1>3. new \in Checks /\ new.key = key /\ new.used = dailyUsd[key]
  BY <1>2 DEF Checks
<1>4. CASE UNCHANGED <<checking, overlapping>>
  BY <1>1, <1>4 DEF RiskInv, RiskTypeOK, DailyLimitUnlessOverlapping
<1>5. CASE /\ checking' = checking \cup {new}
           /\ overlapping' = IF \E c \in checking : c.key = key
                             THEN overlapping \cup {key} ELSE overlapping
  <2> HIDE DEF new, key
  <2>1. RiskTypeOK'
    BY <1>1, <1>2, <1>3, <1>5 DEF RiskInv, RiskTypeOK
  <2>2. overlapping \subseteq overlapping'
        /\ (key \notin overlapping' => \A c \in checking : c.key # key)
    BY <1>5
  <2>3. DailyLimitUnlessOverlapping'
    BY <1>1, <2>2 DEF RiskInv, DailyLimitUnlessOverlapping
  <2>4. ASSUME NEW k \in DailyKeys \ overlapping', NEW c \in checking', c.key = k
        PROVE  c.used = dailyUsd'[k] /\ \A d \in checking' : d.key = k => d = c
    BY <1>1, <1>3, <1>5, <2>2, <2>4 DEF RiskInv
  <2> QED
    BY <2>1, <2>3, <2>4 DEF RiskInv
<1> QED
  BY <1>1, <1>4, <1>5 DEF StartCheck

LEMMA EndCheckKeeps ==
    ASSUME RiskInv, NEW c \in checking, EndCheck(c)
    PROVE  RiskInv'
<1>1. /\ checking' = checking \ {c} /\ UNCHANGED <<today, overlapping, checks>>
  BY DEF EndCheck
<1>2. /\ dailyUsd \in [DailyKeys -> Nat] /\ admitted \in [DailyKeys -> Nat]
      /\ c.key \in DailyKeys /\ c.usd \in Nat /\ c.used \in Nat
  BY DEF RiskInv, RiskTypeOK, Checks
<1>3. CASE UNCHANGED <<dailyUsd, admitted>>
  BY <1>1, <1>3 DEF RiskInv, RiskTypeOK, DailyLimitUnlessOverlapping
<1>4. CASE /\ c.used + c.usd <= MaxDailyUsd
           /\ dailyUsd' = [dailyUsd EXCEPT ![c.key] = c.used + c.usd]
           /\ admitted' = [admitted EXCEPT ![c.key] = @ + c.usd]
  <2>1. /\ dailyUsd' \in [DailyKeys -> Nat] /\ admitted' \in [DailyKeys -> Nat]
        /\ dailyUsd'[c.key] = c.used + c.usd
        /\ admitted'[c.key] = admitted[c.key] + c.usd
        /\ \A k \in DailyKeys \ {c.key} :
              dailyUsd'[k] = dailyUsd[k] /\ admitted'[k] = admitted[k]
    BY <1>2, <1>4
  <2>2. RiskTypeOK'
    BY <1>1, <2>1 DEF RiskInv, RiskTypeOK
  <2>3. c.key \notin overlapping =>
           /\ admitted[c.key] = dailyUsd[c.key] /\ c.used = dailyUsd[c.key]
           /\ \A d \in checking' : d.key # c.key
    BY <1>1, <1>2 DEF RiskInv, DailyLimitUnlessOverlapping
  <2>4. DailyLimitUnlessOverlapping'
    BY <1>1, <1>2, <1>4, <2>1, <2>3 DEF RiskInv, DailyLimitUnlessOverlapping
  <2>5. ASSUME NEW k \in DailyKeys \ overlapping', NEW d \in checking', d.key = k
        PROVE  d.used = dailyUsd'[k] /\ \A e \in checking' : e.key = k => e = d
    BY <1>1, <2>1, <2>3, <2>5 DEF RiskInv
  <2> QED
    BY <2>2, <2>4, <2>5 DEF RiskInv
<1> QED
  BY <1>3, <1>4 DEF EndCheck, WithinDay

LEMMA RiskStep == RiskInv /\ [RiskNext]_riskVars => RiskInv'
<1> SUFFICES ASSUME RiskInv, [RiskNext]_riskVars PROVE RiskInv'
  OBVIOUS
<1>1. CASE UNCHANGED riskVars
  BY <1>1 DEF riskVars, RiskInv, RiskTypeOK, DailyLimitUnlessOverlapping
<1>2. CASE NextDay
  BY <1>2 DEF NextDay, RiskInv, RiskTypeOK, DailyLimitUnlessOverlapping, Days
<1> QED
  BY <1>1, <1>2, StartCheckKeeps, EndCheckKeeps DEF RiskNext

\* For any users, estimates and limits: a process lets a user's swaps of a day
\* through up to the limit, unless two of its checks overlapped.
THEOREM DailyLimitHolds == RiskSpec => []DailyLimitUnlessOverlapping
<1>1. RiskInit => RiskInv
  BY DEF RiskInit, RiskInv, RiskTypeOK, DailyLimitUnlessOverlapping, Days
<1>2. RiskInv => DailyLimitUnlessOverlapping
  BY DEF RiskInv
<1> QED
  BY <1>1, <1>2, RiskStep, PTL DEF RiskSpec

\* The totals of a process, and the checks in it, have their types.
LEMMA RiskTyped == RiskSpec => []RiskTypeOK
<1>1. RiskInit => RiskInv
  BY DEF RiskInit, RiskInv, RiskTypeOK, DailyLimitUnlessOverlapping, Days
<1>2. RiskInv => RiskTypeOK
  BY DEF RiskInv
<1> QED
  BY <1>1, <1>2, RiskStep, PTL DEF RiskSpec

----------------------------------------------------------------------------
(* PrivateRelay                                                            *)

LEMMA OneMore ==
    ASSUME NEW T, NEW s \in Seq(T), NEW e \in T
    PROVE  /\ Append(s, e) \in Seq(T) /\ Len(Append(s, e)) = Len(s) + 1
           /\ DOMAIN Append(s, e) = DOMAIN s \cup {Len(s) + 1}
           /\ \A i \in DOMAIN s : Append(s, e)[i] = s[i]
           /\ Append(s, e)[Len(s) + 1] = e
  OBVIOUS

\* Nothing was given before the method that is tried next.
RelayInv ==
    /\ RelayTypeOK
    /\ ResultsWereGiven
    /\ relay.method # "done" => /\ relay.tx \in RawTxs
                                /\ \A tx \in RawTxs : ~Given(tx)
                                /\ Len(outcomes) = IF relay.method = "raw" THEN 1 ELSE 0

LEMMA TryKeeps ==
    ASSUME RelayInv, NEW outcome \in Outcomes, TryMethod(outcome)
    PROVE  RelayInv'
<1>1. /\ relay.method \in {"private", "raw"} /\ relay.tx \in RawTxs
      /\ \A tx \in RawTxs : ~Given(tx)
      /\ Len(outcomes) = IF relay.method = "raw" THEN 1 ELSE 0
      /\ outcomes \in Seq(Outcomes) /\ submissions' = submissions
      /\ outcomes' = Append(outcomes, outcome)
  BY DEF RelayInv, RelayTypeOK, Methods, TryMethod
<1>2. /\ outcomes' \in Seq(Outcomes) /\ Len(outcomes') = Len(outcomes) + 1
      /\ \A tx \in RawTxs : Given(tx)' <=> outcome = tx
  <2>1. /\ outcomes' \in Seq(Outcomes) /\ Len(outcomes') = Len(outcomes) + 1
        /\ DOMAIN outcomes' = DOMAIN outcomes \cup {Len(outcomes) + 1}
        /\ \A i \in DOMAIN outcomes : outcomes'[i] = outcomes[i]
        /\ outcomes'[Len(outcomes) + 1] = outcome
    BY <1>1, OneMore
  <2> QED
    BY <1>1, <2>1 DEF Given
<1>3. /\ relay'.tx = relay.tx /\ relay'.result = outcome
      /\ relay'.method = MethodAfter(relay.method, outcome)
      /\ relay' \in [tx : RawTxs \cup {NoHash}, method : Methods,
                     result : RawTxs \cup {NoHash}]
  BY DEF RelayInv, RelayTypeOK, Methods, TryMethod, MethodAfter, Outcomes
<1>4. RelayTypeOK'
  BY <1>1, <1>2, <1>3 DEF RelayInv, RelayTypeOK
<1> HIDE DEF Given
<1>5. CASE outcome \in RawTxs
  <2>1. relay'.method = "done" /\ relay'.result # NoHash /\ Given(outcome)'
    BY <1>2, <1>3, <1>5 DEF MethodAfter
  <2> QED
    BY <1>3, <1>4, <2>1 DEF RelayInv, ResultsWereGiven
<1>6. CASE outcome = NoHash
  <2>1. \A tx \in RawTxs : ~Given(tx)'
    BY <1>2, <1>6
  <2>2. CASE relay.method = "private"
    <3>1. relay'.method = "raw" /\ Len(outcomes') = 1
      BY <1>1, <1>2, <1>3, <1>6, <2>2 DEF MethodAfter
    <3> QED
      BY <1>1, <1>3, <1>4, <2>1, <3>1 DEF RelayInv, ResultsWereGiven
  <2>3. CASE relay.method = "raw"
    <3>1. relay'.method = "done" /\ relay'.result = NoHash /\ Len(outcomes') = 2
      BY <1>1, <1>2, <1>3, <1>6, <2>3 DEF MethodAfter
    <3> QED
      BY <1>3, <1>4, <2>1, <3>1 DEF RelayInv, ResultsWereGiven
  <2> QED
    BY <1>1, <2>2, <2>3
<1> QED
  BY <1>5, <1>6 DEF Outcomes

LEMMA SubmitKeeps ==
    ASSUME RelayInv, NEW tx \in RawTxs, NEW on \in BOOLEAN, SubmitPrivate(tx, on)
    PROVE  RelayInv'
<1>1. /\ outcomes' = <<>> /\ submissions' = submissions + 1
      /\ relay' = [tx |-> tx, result |-> NoHash,
                   method |-> IF on THEN "private" ELSE "done"]
  BY DEF SubmitPrivate
<1>2. /\ \A x \in RawTxs : ~Given(x)'
      /\ Len(outcomes') = 0 /\ outcomes' \in Seq(Outcomes)
  BY <1>1 DEF Given
<1> QED
  BY <1>1, <1>2 DEF RelayInv, RelayTypeOK, ResultsWereGiven, Methods

LEMMA RelayStep == RelayInv /\ [RelayNext]_relayVars => RelayInv'
<1> SUFFICES ASSUME RelayInv, [RelayNext]_relayVars PROVE RelayInv'
  OBVIOUS
<1>1. CASE UNCHANGED relayVars
  BY <1>1 DEF relayVars, RelayInv, RelayTypeOK, ResultsWereGiven, Given
<1> QED
  BY <1>1, TryKeeps, SubmitKeeps DEF RelayNext

\* Whatever the endpoint does, what is returned is a result it gave, and nothing
\* is returned only after both methods gave none.
THEOREM ResultsAreGiven == RelaySpec => []ResultsWereGiven
<1>1. RelayInit => RelayInv
  BY DEF RelayInit, RelayInv, RelayTypeOK, ResultsWereGiven, Methods
<1>2. RelayInv => ResultsWereGiven
  BY DEF RelayInv
<1> QED
  BY <1>1, <1>2, RelayStep, PTL DEF RelaySpec

\* What is submitted, given and returned has its type.
LEMMA RelayTyped == RelaySpec => []RelayTypeOK
<1>1. RelayInit => RelayInv
  BY DEF RelayInit, RelayInv, RelayTypeOK, ResultsWereGiven, Methods
<1>2. RelayInv => RelayTypeOK
  BY DEF RelayInv
<1> QED
  BY <1>1, <1>2, RelayStep, PTL DEF RelaySpec

----------------------------------------------------------------------------
(* SwapApi                                                                 *)

USE ApiAssumption

LEMMA RowOf ==
    ASSUME NEW T, NEW s \in Seq(T), NEW i \in DOMAIN s
    PROVE  s[i] \in T
  OBVIOUS

LEMMA StatusRange ==
    ASSUME NEW r \in Requests
    PROVE  /\ Refusal(r) \in {0, 400, 401, 503}
           /\ \A v \in Views, code \in ErrorCodes \cup {0} : ErrorStatus(v, code) \in 400..599
<1>1. PublicRefusal(r) \in {0, 400}
  BY DEF PublicRefusal, Accepted
<1>2. ExecuteRefusal(r) \in {0, 400, 401, 503}
  BY DEF ExecuteRefusal, Accepted
<1>3. AsyncRefusal(r) \in {0, 400, 401, 503}
  BY DEF AsyncRefusal, Accepted
<1>4. PrepareRefusal(r) \in {0, 400, 401}
  BY DEF PrepareRefusal, Accepted
<1>5. Refusal(r) \in {0, 400, 401, 503}
  BY <1>1, <1>2, <1>3, <1>4 DEF Refusal
<1>6. \A v \in Views, code \in ErrorCodes \cup {0} : ErrorStatus(v, code) \in 400..599
  BY DEF ErrorStatus
<1> QED
  BY <1>5, <1>6

LEMMA ReplaceRow ==
    ASSUME NEW T, NEW s \in Seq(T), NEW n, NEW e, n \in DOMAIN s => e \in T
    PROVE  [s EXCEPT ![n] = e] \in Seq(T)
<1>1. DOMAIN s = 1..Len(s)
  OBVIOUS
<1>2. CASE n \in DOMAIN s
  BY <1>1, <1>2, ExceptSeq
<1>3. CASE n \notin DOMAIN s
  <2>1. [s EXCEPT ![n] = e] = [i \in DOMAIN s |-> s[i]]
    BY <1>3
  <2>2. [i \in DOMAIN s |-> s[i]] = s
    BY <1>1
  <2> QED
    BY <2>1, <2>2
<1> QED
  BY <1>2, <1>3

----------------------------------------------------------------------------
(* What is typed on the way of a request: the request itself, what 0x is    *)
(* asked and the quote it gave.                                            *)

ServingInv ==
    /\ stage # "idle" => request \in Requests
    /\ stage = "wait" => asked \in Terms
    /\ stage = "create" => quote \in Quotes

ApiInv == ApiTypeOK /\ ServingInv

LEMMA TermsTyped ==
    ASSUME NEW r \in Requests
    PROVE  [chain |-> r.chain, sell |-> r.sell, buy |-> r.buy,
            taker |-> TakerOf(r.view, r.chain)] \in Terms
<1>1. TakerOf(r.view, r.chain) \in {KeeperAddress, Safe, User}
  BY DEF TakerOf
<1> QED
  BY <1>1 DEF Terms, Requests

LEMMA Responding ==
    ASSUME ApiInv, NEW status \in {0, 200, 202} \cup 400..599, Respond(status),
           UNCHANGED <<rows, requests>>
    PROVE  ApiInv'
<1>1. /\ stage' = "idle" /\ request' = NoRequest /\ asked' = NoTerms
      /\ quote' = NoQuote /\ answer' = status
  BY DEF Respond
<1>2. ApiTypeOK'
  BY <1>1 DEF ApiInv, ApiTypeOK, Stages
<1>3. ServingInv'
  BY <1>1 DEF ServingInv
<1> QED
  BY <1>2, <1>3 DEF ApiInv

LEMMA ReceiveKeeps ==
    ASSUME ApiInv, NEW r \in Requests, Receive(r)
    PROVE  ApiInv'
<1>1. /\ request' = r /\ stage' = "check" /\ requests' = requests + 1
      /\ UNCHANGED <<asked, quote, answer, rows>>
  BY DEF Receive
<1>2. ApiTypeOK'
  BY <1>1 DEF ApiInv, ApiTypeOK, Stages
<1>3. ServingInv'
  BY <1>1 DEF ServingInv
<1> QED
  BY <1>2, <1>3 DEF ApiInv

LEMMA CheckKeeps ==
    ASSUME ApiInv, Check
    PROVE  ApiInv'
<1>1. request \in Requests
  BY DEF ApiInv, ServingInv, Check
<1>2. CASE Refusal(request) # Accepted
  <2>1. Respond(Refusal(request)) /\ UNCHANGED <<rows, requests>>
    BY <1>2 DEF Check
  <2>2. Refusal(request) \in {0, 200, 202} \cup 400..599
    BY <1>1, StatusRange
  <2> QED
    BY <2>1, <2>2, Responding
<1>3. CASE Refusal(request) = Accepted
  <2>1. stage' = "ask" /\ UNCHANGED <<request, asked, quote, answer, rows, requests>>
    BY <1>3 DEF Check
  <2>2. ApiTypeOK'
    BY <2>1 DEF ApiInv, ApiTypeOK, Stages
  <2>3. ServingInv'
    BY <1>1, <2>1 DEF ServingInv
  <2> QED
    BY <2>2, <2>3 DEF ApiInv
<1> QED
  BY <1>2, <1>3

LEMMA AskKeeps ==
    ASSUME ApiInv, AskZeroX
    PROVE  ApiInv'
<1>1. request \in Requests
  BY DEF ApiInv, ServingInv, AskZeroX
<1>2. /\ stage' = "wait"
      /\ UNCHANGED <<request, quote, answer, rows, requests>>
  BY DEF AskZeroX
<1>3. asked' \in Terms
  BY <1>1, TermsTyped DEF AskZeroX
<1>4. ApiTypeOK'
  BY <1>2, <1>3 DEF ApiInv, ApiTypeOK, Stages
<1>5. ServingInv'
  BY <1>1, <1>2, <1>3 DEF ServingInv
<1> QED
  BY <1>4, <1>5 DEF ApiInv

LEMMA AnswerKeeps ==
    ASSUME ApiInv, NEW json \in BOOLEAN, ZeroXAnswers(json)
    PROVE  ApiInv'
<1> DEFINE q == [terms |-> asked, transaction |-> json]
<1>1. request \in Requests /\ asked \in Terms
  BY DEF ApiInv, ServingInv, ZeroXAnswers
<1>2. q \in Quotes
  BY <1>1 DEF Quotes
<1>3. UNCHANGED <<rows, requests>>
  BY DEF ZeroXAnswers
<1>5. CASE request.view = "execute_async"
  <2>1. quote' = q /\ stage' = "create" /\ UNCHANGED <<request, asked, answer>>
    BY <1>5 DEF ZeroXAnswers
  <2> HIDE DEF q
  <2>2. ApiTypeOK'
    BY <1>2, <1>3, <2>1 DEF ApiInv, ApiTypeOK, Stages
  <2>3. ServingInv'
    BY <1>1, <1>2, <2>1 DEF ServingInv
  <2> QED
    BY <2>2, <2>3 DEF ApiInv
<1>6. CASE request.view # "execute_async"
  <2>1. Respond(IF request.view = "execute" THEN 202 ELSE 200)
    BY <1>6 DEF ZeroXAnswers
  <2>2. CASE request.view = "execute"
    BY <1>3, <2>1, <2>2, Responding
  <2>3. CASE request.view # "execute"
    BY <1>3, <2>1, <2>3, Responding
  <2> QED
    BY <2>2, <2>3
<1> QED
  BY <1>5, <1>6

LEMMA FailKeeps ==
    ASSUME ApiInv, NEW code \in ErrorCodes \cup {0}, ZeroXFails(code)
    PROVE  ApiInv'
<1>1. request \in Requests
  BY DEF ApiInv, ServingInv, ZeroXFails
<1>2. request.view \in Views
  BY <1>1 DEF Requests
<1>3. ErrorStatus(request.view, code) \in {0, 200, 202} \cup 400..599
  BY <1>1, <1>2, StatusRange
<1>4. Respond(ErrorStatus(request.view, code)) /\ UNCHANGED <<rows, requests>>
  BY DEF ZeroXFails
<1> QED
  BY <1>3, <1>4, Responding

LEMMA CreateKeeps ==
    ASSUME ApiInv, NEW ok \in BOOLEAN, CreateRow(ok)
    PROVE  ApiInv'
<1>1. request \in Requests /\ quote \in Quotes
  BY DEF ApiInv, ServingInv, CreateRow
<1>2. UNCHANGED requests
  BY DEF CreateRow
<1>3. CASE ok
  <2> DEFINE row == [request |-> request, quote |-> quote, published |-> FALSE]
  <2>1. /\ rows' = Append(rows, row) /\ stage' = "publish"
        /\ UNCHANGED <<request, asked, quote, answer>>
    BY <1>3 DEF CreateRow
  <2>2. row \in Rows
    BY <1>1 DEF Rows
  <2>3. rows \in Seq(Rows)
    BY DEF ApiInv, ApiTypeOK
  <2> HIDE DEF row
  <2>4. rows' \in Seq(Rows)
    BY <2>1, <2>2, <2>3
  <2>5. ApiTypeOK'
    BY <1>2, <2>1, <2>4 DEF ApiInv, ApiTypeOK, Stages
  <2>6. ServingInv'
    BY <1>1, <2>1 DEF ServingInv
  <2> QED
    BY <2>5, <2>6 DEF ApiInv
<1>4. CASE ~ok
  <2>1. Respond(500) /\ UNCHANGED rows
    BY <1>4 DEF CreateRow
  <2> QED
    BY <1>2, <2>1, Responding
<1> QED
  BY <1>3, <1>4

LEMMA PublishKeeps ==
    ASSUME ApiInv, NEW ok \in BOOLEAN, Publish(ok)
    PROVE  ApiInv'
<1> DEFINE n == Len(rows)
           row == [rows[n] EXCEPT !.published = ok]
<1>1. /\ rows' = [rows EXCEPT ![n] = row]
      /\ UNCHANGED requests
  BY DEF Publish
<1>2. /\ stage' = "idle" /\ request' = NoRequest /\ asked' = NoTerms
      /\ quote' = NoQuote /\ answer' \in {202, 500}
  BY DEF Publish, Respond
<1>3. rows \in Seq(Rows)
  BY DEF ApiInv, ApiTypeOK
<1>4. \A i \in DOMAIN rows : rows[i] \in Rows
  BY <1>3, RowOf
<1>5. n \in DOMAIN rows => row \in Rows
  BY <1>4 DEF Rows
<1> HIDE DEF n, row
<1>6. rows' \in Seq(Rows)
  BY <1>1, <1>3, <1>5, ReplaceRow
<1>7. ApiTypeOK'
  BY <1>1, <1>2, <1>6 DEF ApiInv, ApiTypeOK, Stages
<1>8. ServingInv'
  BY <1>2 DEF ServingInv
<1> QED
  BY <1>7, <1>8 DEF ApiInv

----------------------------------------------------------------------------
LEMMA ApiInitially == ApiInit => ApiInv
  BY DEF ApiInit, ApiInv, ApiTypeOK, ServingInv, Stages

LEMMA ApiStep == ApiInv /\ [ApiNext]_apiVars => ApiInv'
<1> SUFFICES ASSUME ApiInv, [ApiNext]_apiVars PROVE ApiInv'
  OBVIOUS
<1>1. CASE UNCHANGED apiVars
  <2>1. UNCHANGED <<request, stage, asked, quote, answer, rows, requests>>
    BY <1>1 DEF apiVars
  <2>2. ApiTypeOK'
    BY <2>1 DEF ApiInv, ApiTypeOK
  <2>3. ServingInv'
    BY <2>1 DEF ApiInv, ServingInv
  <2> QED
    BY <2>2, <2>3 DEF ApiInv
<1> QED
  BY <1>1, ReceiveKeeps, CheckKeeps, AskKeeps, CreateKeeps, PublishKeeps,
     AnswerKeeps, FailKeeps DEF ApiNext, Serve

\* Requests, quotes, answers and rows have their types.
THEOREM ApiTyped == ApiSpec => []ApiTypeOK
<1>1. ApiInv => ApiTypeOK
  BY DEF ApiInv
<1> QED
  BY <1>1, ApiInitially, ApiStep, PTL DEF ApiSpec
=============================================================================
