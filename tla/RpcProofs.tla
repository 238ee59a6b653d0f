------------------------------ MODULE RpcProofs -----------------------------
(***************************************************************************)
(* Proofs about RpcRouter, for all providers, thresholds and timeouts: its *)
(* types and what opens a circuit for any number of threads, and the       *)
(* consistency of the breaker for a process with one.                      *)
(***************************************************************************)
EXTENDS RpcRouter, FiniteSetTheorems, TLAPS

USE RouterAssumption

----------------------------------------------------------------------------
(* Types *)

HealthTypeOK ==
    /\ state \in [Providers -> States]
    /\ errors \in [Providers -> Nat]
    /\ age \in [Providers -> 0..Recovery \cup {None}]

BindTypeOK ==
    /\ client \in Providers \cup {None}
    /\ current \in Providers \cup {None}
    /\ failures \in [Providers -> Nat]

PCs == {"idle", "checked", "rank", "try", "bind", "bound", "h1", "h2", "h3",
        "h4", "h5", "s1", "s2", "s3", "s4", "e1", "e2", "e3", "e4", "e5"}

CallTypeOK ==
    /\ pc \in [Threads -> PCs]
    /\ w3 \in [Threads -> Providers \cup {None}]
    /\ caller \in [Threads -> Callers]
    /\ prov \in [Threads -> Providers]
    /\ todo \in [Threads -> SUBSET Providers]
    /\ ranked \in [Threads -> SUBSET Providers]
    /\ read \in [Threads -> Nat]

LEMMA TypeParts == TypeOK <=> HealthTypeOK /\ BindTypeOK /\ CallTypeOK
  BY DEF TypeOK, HealthTypeOK, BindTypeOK, CallTypeOK, PCs

\* The three ways a thread enters the router.
LEMMA EntryType ==
    ASSUME HealthTypeOK, BindTypeOK, CallTypeOK, NEW t \in Threads,
           Get(t) \/ Failover(t) \/ Use(t)
    PROVE  HealthTypeOK' /\ BindTypeOK' /\ CallTypeOK'
<1> USE DEF Goto, Calls, healthVars, bindVars
<1>1. HealthTypeOK'
  BY DEF Get, GetBound, GetUnbound, Failover, Use, HealthTypeOK
<1>2. BindTypeOK'
  BY DEF Get, GetBound, GetUnbound, Failover, Use, Fails, BindTypeOK
<1>3. CASE Get(t)
  <2>1. CallTypeOK'
    BY <1>3 DEF Get, GetBound, GetUnbound, CallTypeOK, BindTypeOK, PCs, Callers
  <2> QED
    BY <1>1, <1>2, <2>1
<1>4. CASE Failover(t)
  <2>1. CallTypeOK'
    BY <1>4 DEF Failover, CallTypeOK, BindTypeOK, PCs, Callers
  <2> QED
    BY <1>1, <1>2, <2>1
<1>5. CASE Use(t)
  <2>1. CallTypeOK'
    BY <1>5 DEF Use, CallTypeOK, BindTypeOK, PCs, Callers
  <2> QED
    BY <1>1, <1>2, <2>1
<1> QED
  BY <1>3, <1>4, <1>5

\* The code between two entry points.
LEMMA RunningType ==
    ASSUME HealthTypeOK, BindTypeOK, CallTypeOK, NEW t \in Threads, Running(t)
    PROVE  HealthTypeOK' /\ BindTypeOK' /\ CallTypeOK'
<1> USE DEF Goto, Step, Calls, P, healthVars, bindVars, callVars
<1>a. P(t) \in Providers
  BY DEF CallTypeOK
<1>1. CASE CheckState(t) \/ CheckOpenedAt(t) \/ CheckTime(t)
             \/ CheckTimeRaises(t) \/ SetHalfOpen(t) \/ ClearErrors(t)
  BY <1>1, <1>a DEF CheckState, CheckOpenedAt, CheckTime, CheckTimeRaises,
       SetHalfOpen, ClearErrors, HealthTypeOK, BindTypeOK, CallTypeOK, PCs,
       States
<1>2. CASE ReturnClient(t) \/ Rebuild(t) \/ RankNext(t) \/ RankOne(t)
             \/ RankDone(t)
  <2>1. HealthTypeOK' /\ BindTypeOK'
    BY <1>2 DEF ReturnClient, Rebuild, RankNext, RankOne, RankDone,
         HealthTypeOK, BindTypeOK
  <2>2. CASE ReturnClient(t) \/ Rebuild(t)
    BY <2>1, <2>2 DEF ReturnClient, Rebuild, BindTypeOK, CallTypeOK, PCs, Callers
  <2>3. CASE RankNext(t)
    BY <2>1, <2>3 DEF RankNext, BindTypeOK, CallTypeOK, PCs, Callers
  <2>4. CASE RankOne(t) \/ RankDone(t)
    BY <2>1, <2>4, <1>a DEF RankOne, RankDone, CallTypeOK, PCs, Callers
  <2> QED
    BY <1>2, <2>2, <2>3, <2>4
<1>3. CASE TryAnswers(t) \/ AllFailed(t) \/ BindClient(t) \/ BindProvider(t)
  BY <1>3, <1>a DEF TryAnswers, AllFailed, BindClient, BindProvider,
       HealthTypeOK, BindTypeOK, CallTypeOK, PCs, Callers
<1>4. CASE TryFails(t)
  BY <1>4 DEF TryFails, Fails, HealthTypeOK, BindTypeOK, CallTypeOK, PCs, Callers
<1>5. CASE ResetErrors(t) \/ TestHalfOpen(t) \/ SetClosed(t) \/ ClearOpenedAt(t)
  BY <1>5, <1>a DEF ResetErrors, TestHalfOpen, SetClosed, ClearOpenedAt,
       AfterSuccess, HealthTypeOK, BindTypeOK, CallTypeOK, PCs, States
<1>6. CASE ReadErrors(t) \/ WriteErrors(t) \/ TooManyErrors(t) \/ SetOpen(t)
  BY <1>6, <1>a DEF ReadErrors, WriteErrors, TooManyErrors, SetOpen,
       HealthTypeOK, BindTypeOK, CallTypeOK, PCs, States
<1>7. CASE FewErrors(t) \/ SetOpenedAt(t)
  <2>1. HealthTypeOK' /\ BindTypeOK'
    BY <1>7, <1>a DEF FewErrors, SetOpenedAt, ErrorRecorded, HealthTypeOK,
         BindTypeOK
  <2>2. AfterError(t) \in PCs
    BY DEF AfterError, PCs
  <2>3. CallTypeOK'
    BY <1>7, <2>2 DEF FewErrors, SetOpenedAt, ErrorRecorded, CallTypeOK, Callers
  <2> QED
    BY <2>1, <2>3
<1> QED
  BY <1>1, <1>2, <1>3, <1>4, <1>5, <1>6, <1>7 DEF Running

\* The type invariant is inductive.
LEMMA TypeStep ==
    ASSUME TypeOK, [Next]_vars
    PROVE  TypeOK'
<1> SUFFICES ASSUME HealthTypeOK, BindTypeOK, CallTypeOK
             PROVE  HealthTypeOK' /\ BindTypeOK' /\ CallTypeOK'
  BY TypeParts DEF TypeOK, HealthTypeOK, BindTypeOK, CallTypeOK, PCs
<1>1. CASE Tick
  BY <1>1 DEF Tick, HealthTypeOK, BindTypeOK, CallTypeOK, bindVars, threadVars,
       callVars
<1>2. CASE UNCHANGED vars
  BY <1>2 DEF vars, healthVars, bindVars, threadVars, callVars, HealthTypeOK,
       BindTypeOK, CallTypeOK
<1> QED
  BY <1>1, <1>2, EntryType, RunningType DEF Next

\* The types hold in every reachable state of the router, for any number of
\* threads between any two of whose attribute accesses another may run.
THEOREM RouterTyped == Spec => []TypeOK
<1>1. Init => TypeOK
  BY DEF Init, TypeOK, States, Callers
<1>2. TypeOK /\ [Next]_vars => TypeOK'
  BY TypeStep
<1> QED
  BY <1>1, <1>2, PTL DEF Spec

----------------------------------------------------------------------------
(* What opens a circuit *)

\* Sets that differ in one member at the most.
LEMMA OneMember ==
    ASSUME NEW S, NEW T, NEW x, IsFiniteSet(S),
           \A y : y # x => (y \in S <=> y \in T)
    PROVE  /\ IsFiniteSet(T)
           /\ Cardinality(S) \in Nat /\ Cardinality(T) \in Nat
           /\ x \in S /\ x \notin T => Cardinality(T) = Cardinality(S) - 1
           /\ x \notin S /\ x \in T => Cardinality(T) = Cardinality(S) + 1
           /\ (x \in S <=> x \in T) => Cardinality(T) = Cardinality(S)
<1>1. CASE x \in S /\ x \notin T
  <2>1. T = S \ {x}
    BY <1>1
  <2> QED
    BY <1>1, <2>1, FS_RemoveElement, FS_CardinalityType
<1>2. CASE x \notin S /\ x \in T
  <2>1. T = S \cup {x}
    BY <1>2
  <2> QED
    BY <1>2, <2>1, FS_AddElement, FS_CardinalityType
<1>3. CASE x \in S <=> x \in T
  <2>1. T = S
    BY <1>3
  <2> QED
    BY <1>3, <2>1, FS_CardinalityType
<1> QED
  BY <1>1, <1>2, <1>3

ErrorSteps == {"e1", "e2", "e3", "e4", "e5"}

\* The threads that have yet to count an error of p, and those that will count
\* the same failure once more when they are done.
Counting(p) == {t \in Threads : prov[t] = p /\ pc[t] \in {"e1", "e2"}}
CountingAgain(p) ==
    {t \in Threads : prov[t] = p /\ caller[t] = "again" /\ pc[t] \in ErrorSteps}

Owed(p) == Cardinality(Counting(p)) + Cardinality(CountingAgain(p))

\* The errors of p on record, in the registers of the threads or still to be
\* counted never exceed two for each failure.
Charged(p) ==
    /\ IsFiniteSet(Counting(p)) /\ IsFiniteSet(CountingAgain(p))
    /\ errors[p] + Owed(p) <= 2 * failures[p]
    /\ \A t \in Threads : pc[t] = "e2" /\ prov[t] = p =>
          read[t] + Owed(p) <= 2 * failures[p]
    /\ \A t \in Threads : pc[t] = "e4" /\ prov[t] = p =>
          2 * failures[p] >= MaxErrors
    /\ state[p] = "open" => 2 * failures[p] >= MaxErrors

Adds(b) == IF b THEN 1 ELSE 0

\* How many errors of p thread t has still to count.
Owes(t, p) == Adds(prov[t] = p /\ pc[t] \in {"e1", "e2"})
              + Adds(prov[t] = p /\ caller[t] = "again" /\ pc[t] \in ErrorSteps)

\* A step of one thread changes what is owed by what that thread owes.
LEMMA OwedMoves ==
    ASSUME NEW p \in Providers, NEW t \in Threads,
           IsFiniteSet(Counting(p)), IsFiniteSet(CountingAgain(p)),
           \A u \in Threads \ {t} :
              pc'[u] = pc[u] /\ prov'[u] = prov[u] /\ caller'[u] = caller[u]
    PROVE  /\ IsFiniteSet(Counting(p))' /\ IsFiniteSet(CountingAgain(p))'
           /\ Owed(p) \in Nat /\ Owed(p)' \in Nat
           /\ Owed(p)' = Owed(p) + Owes(t, p)' - Owes(t, p)
<1>1. \A y : y # t => (y \in Counting(p) <=> y \in Counting(p)')
  BY DEF Counting
<1>2. \A y : y # t => (y \in CountingAgain(p) <=> y \in CountingAgain(p)')
  BY DEF CountingAgain
<1>3. /\ t \in Counting(p) <=> prov[t] = p /\ pc[t] \in {"e1", "e2"}
      /\ t \in Counting(p)' <=> prov'[t] = p /\ pc'[t] \in {"e1", "e2"}
      /\ t \in CountingAgain(p) <=>
            prov[t] = p /\ caller[t] = "again" /\ pc[t] \in ErrorSteps
      /\ t \in CountingAgain(p)' <=>
            prov'[t] = p /\ caller'[t] = "again" /\ pc'[t] \in ErrorSteps
  BY DEF Counting, CountingAgain, ErrorSteps
<1> DEFINE A == Counting(p)   B == Counting(p)'
           C == CountingAgain(p)   D == CountingAgain(p)'
<1>4. /\ Owes(t, p) = Adds(t \in A) + Adds(t \in C)
      /\ Owes(t, p)' = Adds(t \in B) + Adds(t \in D)
      /\ Owed(p) = Cardinality(A) + Cardinality(C)
      /\ Owed(p)' = Cardinality(B) + Cardinality(D)
  BY <1>3 DEF Owes, Owed, Adds
<1>5. \A y : y # t => (y \in A <=> y \in B)
  BY <1>1
<1>6. \A y : y # t => (y \in C <=> y \in D)
  BY <1>2
<1>7. IsFiniteSet(A) /\ IsFiniteSet(C)
  OBVIOUS
<1> HIDE DEF A, B, C, D
<1>8. /\ IsFiniteSet(B) /\ Cardinality(A) \in Nat /\ Cardinality(B) \in Nat
      /\ Cardinality(B) = Cardinality(A) + Adds(t \in B) - Adds(t \in A)
  BY <1>5, <1>7, OneMember DEF Adds
<1>9. /\ IsFiniteSet(D) /\ Cardinality(C) \in Nat /\ Cardinality(D) \in Nat
      /\ Cardinality(D) = Cardinality(C) + Adds(t \in D) - Adds(t \in C)
  BY <1>6, <1>7, OneMember DEF Adds
<1>10. IsFiniteSet(B) /\ IsFiniteSet(D)
  BY <1>8, <1>9
<1>11. Owed(p) \in Nat /\ Owed(p)' \in Nat
       /\ Owed(p)' = Owed(p) + Owes(t, p)' - Owes(t, p)
  BY <1>4, <1>8, <1>9 DEF Adds
<1> QED
  BY <1>10, <1>11 DEF B, D

ThreadStep(t) == Get(t) \/ Failover(t) \/ Use(t) \/ Running(t)

\* A step of a thread leaves the registers of the others alone.
LEMMA ThreadFrame ==
    ASSUME CallTypeOK, NEW t \in Threads, ThreadStep(t), NEW u \in Threads \ {t}
    PROVE  /\ pc'[u] = pc[u] /\ prov'[u] = prov[u] /\ caller'[u] = caller[u]
           /\ read'[u] = read[u]
<1> USE DEF CallTypeOK, Goto, Step, Calls, callVars
<1>1. CASE Get(t) \/ Failover(t) \/ Use(t)
  BY <1>1 DEF Get, GetBound, GetUnbound, Failover, Use
<1>2. CASE Running(t)
  BY <1>2 DEF Running, CheckState, CheckOpenedAt, CheckTime, CheckTimeRaises,
       SetHalfOpen, ClearErrors, ReturnClient, Rebuild, RankNext, RankOne,
       RankDone, TryAnswers, TryFails, AllFailed, BindClient, BindProvider,
       ResetErrors, TestHalfOpen, SetClosed, ClearOpenedAt, ReadErrors,
       WriteErrors, TooManyErrors, FewErrors, SetOpen, SetOpenedAt,
       ErrorRecorded
<1> QED
  BY <1>1, <1>2 DEF ThreadStep

\* A step that leaves a circuit closed if it was, raises no count, and owes no
\* more than before or than the failures it reports, keeps the account.
LEMMA ChargedStays ==
    ASSUME NEW p \in Providers, NEW t \in Threads, TypeOK, TypeOK',
           Charged(p), ThreadStep(t),
           errors'[p] \in {errors[p], 0},
           failures'[p] >= failures[p],
           Owes(t, p)' <= Owes(t, p) + 2 * (failures'[p] - failures[p]),
           state'[p] = "open" => state[p] = "open",
           pc'[t] \notin {"e2", "e4"} \/ prov'[t] # p
    PROVE  Charged(p)'
<1> USE DEF TypeOK
<1>1. \A u \in Threads \ {t} :
         pc'[u] = pc[u] /\ prov'[u] = prov[u] /\ caller'[u] = caller[u]
         /\ read'[u] = read[u]
  BY ThreadFrame, TypeParts
<1>2. /\ IsFiniteSet(Counting(p))' /\ IsFiniteSet(CountingAgain(p))'
      /\ Owed(p) \in Nat /\ Owed(p)' \in Nat
      /\ Owed(p)' = Owed(p) + Owes(t, p)' - Owes(t, p)
  BY <1>1, OwedMoves DEF Charged
<1>3. Owes(t, p) \in Int /\ Owes(t, p)' \in Int
  BY DEF Owes, Adds
<1>a. failures[p] \in Nat /\ failures'[p] \in Nat /\ errors[p] \in Nat
  OBVIOUS
<1>4. Owed(p)' <= Owed(p) + 2 * failures'[p] - 2 * failures[p]
  BY <1>2, <1>3, <1>a
<1>5. errors'[p] + Owed(p)' <= 2 * failures'[p]
  BY <1>2, <1>4, <1>a DEF Charged
<1>6. ASSUME NEW u \in Threads, pc'[u] = "e2", prov'[u] = p
      PROVE  read'[u] + Owed(p)' <= 2 * failures'[p]
  BY <1>1, <1>2, <1>4, <1>6, <1>a DEF Charged
<1>7. ASSUME NEW u \in Threads, pc'[u] = "e4", prov'[u] = p
      PROVE  2 * failures'[p] >= MaxErrors
  BY <1>1, <1>7, <1>a DEF Charged
<1>8. state'[p] = "open" => 2 * failures'[p] >= MaxErrors
  BY <1>a DEF Charged
<1> QED
  BY <1>2, <1>5, <1>6, <1>7, <1>8 DEF Charged

LEMMA ChargedByThread ==
    ASSUME NEW p \in Providers, NEW t \in Threads, TypeOK, TypeOK',
           Charged(p), ThreadStep(t)
    PROVE  Charged(p)'
<1> USE DEF Goto, Step, Calls, P
<1>a. /\ HealthTypeOK /\ BindTypeOK /\ CallTypeOK
      /\ HealthTypeOK' /\ BindTypeOK' /\ CallTypeOK'
  BY TypeParts DEF TypeOK, HealthTypeOK, BindTypeOK, CallTypeOK, PCs
<1>b. failures[p] \in Nat /\ errors[p] \in Nat /\ prov[t] \in Providers
  BY <1>a DEF HealthTypeOK, BindTypeOK, CallTypeOK
<1>1. CASE Get(t)
  <2>1. errors' = errors /\ state' = state /\ failures' = failures
    BY <1>1 DEF Get, GetBound, GetUnbound, healthVars
  <2>2. Owes(t, p)' = 0 /\ Owes(t, p) = 0 /\ pc'[t] \in {"h1", "rank"}
    BY <1>1, <1>a DEF Get, GetBound, GetUnbound, Owes, Adds, CallTypeOK,
         ErrorSteps
  <2> QED
    BY <2>1, <2>2, <1>b, ChargedStays DEF ThreadStep
<1>2. CASE Failover(t) \/ Use(t)
  <2>1. errors' = errors /\ state' = state
    BY <1>2 DEF Failover, Use, healthVars
  <2>2. Owes(t, p) = 0 /\ pc'[t] \in {"s1", "e1"} /\ caller'[t] # "again"
    BY <1>2, <1>a DEF Failover, Use, Owes, Adds, CallTypeOK, ErrorSteps
  <2>3. Owes(t, p)' = Adds(prov'[t] = p /\ pc'[t] = "e1")
    BY <2>2 DEF Owes, Adds
  <2>4. failures'[p] = failures[p] + Adds(prov'[t] = p /\ pc'[t] = "e1")
    BY <1>2, <1>a DEF Failover, Use, Fails, Adds, BindTypeOK, CallTypeOK
  <2>5. /\ failures'[p] >= failures[p]
        /\ Owes(t, p)' <= Owes(t, p) + 2 * (failures'[p] - failures[p])
    BY <2>2, <2>3, <2>4, <1>b DEF Adds
  <2> QED
    BY <1>2, <2>1, <2>2, <2>5, ChargedStays DEF ThreadStep
<1>3. CASE \/ CheckState(t) \/ CheckOpenedAt(t) \/ CheckTime(t)
           \/ CheckTimeRaises(t) \/ SetHalfOpen(t) \/ ClearErrors(t)
           \/ ReturnClient(t) \/ Rebuild(t) \/ RankNext(t) \/ RankOne(t)
           \/ RankDone(t) \/ TryAnswers(t) \/ AllFailed(t) \/ BindClient(t)
           \/ BindProvider(t) \/ ResetErrors(t) \/ TestHalfOpen(t)
           \/ SetClosed(t) \/ ClearOpenedAt(t)
  <2>1. /\ pc[t] \notin ErrorSteps /\ pc'[t] \notin ErrorSteps
        /\ failures' = failures
    BY <1>3, <1>a DEF CheckState, CheckOpenedAt, CheckTime, CheckTimeRaises,
         SetHalfOpen, ClearErrors, ReturnClient, Rebuild, RankNext, RankOne,
         RankDone, TryAnswers, AllFailed, BindClient, BindProvider,
         ResetErrors, TestHalfOpen, SetClosed, ClearOpenedAt, AfterSuccess,
         CallTypeOK, ErrorSteps
  <2>2. errors'[p] \in {errors[p], 0} /\ (state'[p] = "open" => state[p] = "open")
    BY <1>3, <1>a DEF CheckState, CheckOpenedAt, CheckTime, CheckTimeRaises,
         SetHalfOpen, ClearErrors, ReturnClient, Rebuild, RankNext, RankOne,
         RankDone, TryAnswers, AllFailed, BindClient, BindProvider,
         ResetErrors, TestHalfOpen, SetClosed, ClearOpenedAt, healthVars,
         HealthTypeOK
  <2>3. Owes(t, p)' = 0 /\ Owes(t, p) = 0
    BY <2>1 DEF Owes, Adds, ErrorSteps
  <2>4. Running(t)
    BY <1>3 DEF Running
  <2> QED
    BY <2>1, <2>2, <2>3, <2>4, <1>b, ChargedStays DEF ThreadStep, ErrorSteps
<1>4. CASE TryFails(t)
  <2>1. errors' = errors /\ state' = state /\ Running(t)
    BY <1>4 DEF TryFails, healthVars, Running
  <2>2. Owes(t, p) = 0 /\ pc'[t] = "e1"
    BY <1>4, <1>a DEF TryFails, Owes, Adds, CallTypeOK, ErrorSteps
  <2>3. /\ failures'[p] = failures[p] + Adds(prov'[t] = p)
        /\ caller'[t] = "again"
    BY <1>4, <1>a DEF TryFails, Fails, Adds, BindTypeOK, CallTypeOK
  <2>4. Owes(t, p)' = 2 * Adds(prov'[t] = p)
    BY <2>2, <2>3 DEF Owes, Adds, ErrorSteps
  <2>5. /\ failures'[p] >= failures[p]
        /\ Owes(t, p)' <= Owes(t, p) + 2 * (failures'[p] - failures[p])
    BY <2>2, <2>3, <2>4, <1>b DEF Adds
  <2> QED
    BY <2>1, <2>2, <2>5, ChargedStays DEF ThreadStep
<1>5. CASE FewErrors(t) \/ SetOpenedAt(t)
  <2>1. errors' = errors /\ state' = state /\ failures' = failures /\ Running(t)
    BY <1>5 DEF FewErrors, SetOpenedAt, ErrorRecorded, healthVars, Running
  <2>2. pc[t] \in {"e3", "e5"} /\ prov' = prov /\ pc'[t] = AfterError(t)
    BY <1>5, <1>a DEF FewErrors, SetOpenedAt, ErrorRecorded, CallTypeOK
  <2>3. caller'[t] = IF caller[t] = "again" THEN "try" ELSE caller[t]
    BY <1>5, <1>a DEF FewErrors, SetOpenedAt, ErrorRecorded, CallTypeOK
  <2>4. /\ pc'[t] = "e1" => caller[t] = "again"
        /\ pc'[t] \in {"e1", "try", "rank", "idle"}
    BY <2>2 DEF AfterError
  <2>5. Owes(t, p)' <= Owes(t, p) /\ Owes(t, p) \in Nat /\ Owes(t, p)' \in Nat
    BY <2>2, <2>3, <2>4 DEF Owes, Adds, ErrorSteps
  <2> QED
    BY <2>1, <2>4, <2>5, <1>b, ChargedStays DEF ThreadStep
<1>6. CASE SetOpen(t) \/ ReadErrors(t) \/ WriteErrors(t) \/ TooManyErrors(t)
  <2>1. \A u \in Threads \ {t} :
           pc'[u] = pc[u] /\ prov'[u] = prov[u] /\ caller'[u] = caller[u]
           /\ read'[u] = read[u]
    BY <1>6, <1>a, ThreadFrame DEF Running, ThreadStep
  <2>2. /\ IsFiniteSet(Counting(p))' /\ IsFiniteSet(CountingAgain(p))'
        /\ Owed(p) \in Nat /\ Owed(p)' \in Nat
        /\ Owed(p)' = Owed(p) + Owes(t, p)' - Owes(t, p)
    BY <2>1, OwedMoves DEF Charged
  <2>3. failures' = failures /\ prov' = prov /\ caller' = caller
    BY <1>6 DEF SetOpen, ReadErrors, WriteErrors, TooManyErrors, callVars
  <2>4. CASE SetOpen(t)
    <3>1. /\ pc[t] = "e4" /\ pc'[t] = "e5" /\ errors' = errors /\ read' = read
          /\ state'[p] = "open" => state[p] = "open" \/ prov[t] = p
      BY <2>4, <1>a DEF SetOpen, callVars, CallTypeOK, HealthTypeOK
    <3>2. Owes(t, p)' = Owes(t, p) /\ Owes(t, p) \in Nat
      BY <3>1, <2>3 DEF Owes, Adds, ErrorSteps
    <3>3. Owed(p)' = Owed(p)
      BY <2>2, <3>2
    <3> QED
      BY <2>1, <2>2, <2>3, <3>1, <3>3 DEF Charged
  <2>5. CASE ReadErrors(t)
    <3>1. /\ pc[t] = "e1" /\ pc'[t] = "e2" /\ errors' = errors
          /\ state' = state /\ read'[t] = errors[prov[t]]
      BY <2>5, <1>a DEF ReadErrors, healthVars, CallTypeOK
    <3>2. Owes(t, p)' = Owes(t, p) /\ Owes(t, p) \in Nat
      BY <3>1, <2>3 DEF Owes, Adds, ErrorSteps
    <3>3. Owed(p)' = Owed(p)
      BY <2>2, <3>2
    <3> QED
      BY <2>1, <2>2, <2>3, <3>1, <3>3 DEF Charged
  <2>6. CASE WriteErrors(t)
    <3>1. /\ pc[t] = "e2" /\ pc'[t] = "e3" /\ read' = read /\ state' = state
          /\ read[t] \in Nat
          /\ errors' = [errors EXCEPT ![prov[t]] = read[t] + 1]
      BY <2>6, <1>a DEF WriteErrors, callVars, CallTypeOK
    <3>2. /\ errors'[p] = IF prov[t] = p THEN read[t] + 1 ELSE errors[p]
      BY <3>1, <1>a DEF HealthTypeOK
    <3>3. Owes(t, p)' = Owes(t, p) - Adds(prov[t] = p) /\ Owes(t, p) \in Nat
      BY <3>1, <2>3 DEF Owes, Adds, ErrorSteps
    <3>4. Owed(p)' = Owed(p) - Adds(prov[t] = p)
      BY <2>2, <3>3 DEF Adds
    <3>5. Owed(p)' <= Owed(p)
      BY <2>2, <3>4 DEF Adds
    <3>6. errors'[p] + Owed(p)' <= 2 * failures'[p]
      BY <2>2, <2>3, <3>1, <3>2, <3>4, <1>b DEF Charged, Adds
    <3>7. \A u \in Threads : pc'[u] = "e2" /\ prov'[u] = p =>
             read'[u] + Owed(p)' <= 2 * failures'[p]
      <4> SUFFICES ASSUME NEW u \in Threads, pc'[u] = "e2", prov'[u] = p
                   PROVE  read[u] + Owed(p)' <= 2 * failures[p]
        BY <2>3, <3>1
      <4>1. u # t /\ pc[u] = "e2" /\ prov[u] = p /\ read[u] \in Nat
        BY <2>1, <3>1, <1>a DEF CallTypeOK
      <4>2. read[u] + Owed(p) <= 2 * failures[p]
        BY <4>1 DEF Charged
      <4> QED
        BY <4>1, <4>2, <3>5, <2>2, <1>b
    <3> QED
      BY <2>1, <2>2, <2>3, <3>1, <3>6, <3>7 DEF Charged
  <2>7. CASE TooManyErrors(t)
    <3>1. /\ pc[t] = "e3" /\ pc'[t] = "e4" /\ errors' = errors /\ read' = read
          /\ state' = state /\ errors[prov[t]] >= MaxErrors
      BY <2>7, <1>a DEF TooManyErrors, callVars, healthVars, CallTypeOK
    <3>2. Owes(t, p)' = Owes(t, p) /\ Owes(t, p) \in Nat
      BY <3>1, <2>3 DEF Owes, Adds, ErrorSteps
    <3>3. Owed(p)' = Owed(p)
      BY <2>2, <3>2
    <3>4. prov[t] = p => 2 * failures[p] >= MaxErrors
      BY <3>1, <2>2, <1>b DEF Charged
    <3> QED
      BY <2>1, <2>2, <2>3, <3>1, <3>3, <3>4 DEF Charged
  <2> QED
    BY <1>6, <2>4, <2>5, <2>6, <2>7
<1> QED
  BY <1>1, <1>2, <1>3, <1>4, <1>5, <1>6 DEF ThreadStep, Running

LEMMA ChargedStep ==
    ASSUME NEW p \in Providers, TypeOK, TypeOK', Charged(p), [Next]_vars
    PROVE  Charged(p)'
<1>1. ASSUME NEW t \in Threads, ThreadStep(t) PROVE Charged(p)'
  BY <1>1, ChargedByThread
<1>2. CASE Tick \/ UNCHANGED vars
  <2>1. UNCHANGED <<state, errors, failures, pc, caller, prov, read>>
    BY <1>2 DEF Tick, vars, healthVars, bindVars, threadVars, callVars
  <2> QED
    BY <2>1 DEF Charged, Counting, CountingAgain, Owed
<1> QED
  BY <1>1, <1>2 DEF Next, ThreadStep

\* A circuit opens only for a provider with half as many failures as open one,
\* however many threads read and write its counter in whatever order: a lost
\* update forgets errors and never makes one up.
THEOREM OpenedByFailures == Spec => []OpensOnlyAfterFailures
<1> DEFINE Account == \A p \in Providers : Charged(p)
<1>1. Init => Account
  <2> SUFFICES ASSUME Init, NEW p \in Providers PROVE Charged(p)
    OBVIOUS
  <2>1. Counting(p) = {} /\ CountingAgain(p) = {}
    BY DEF Init, Counting, CountingAgain, ErrorSteps
  <2>2. Owed(p) = 0 /\ IsFiniteSet(Counting(p)) /\ IsFiniteSet(CountingAgain(p))
    BY <2>1, FS_EmptySet DEF Owed
  <2> QED
    BY <2>2 DEF Init, Charged
<1>2. TypeOK /\ TypeOK' /\ [Next]_vars /\ Account => Account'
  BY ChargedStep
<1>3. Account => OpensOnlyAfterFailures
  BY DEF Charged, OpensOnlyAfterFailures
<1> HIDE DEF Account
<1> QED
  BY <1>1, <1>2, <1>3, RouterTyped, PTL DEF Spec

----------------------------------------------------------------------------
(* The breaker of a process with one thread *)

OneThread == \A s, t \in Threads : s = t

\* The attributes of p agree.
Agrees(p) ==
    /\ state[p] = "open" => age[p] # None
    /\ state[p] # "open" => errors[p] < MaxErrors
    /\ state[p] = "closed" => age[p] = None

\* A thread at one of these has written some attributes and not the others.
Halfway == {"h5", "s3", "s4", "e3", "e4", "e5"}

\* What a thread has seen or written of p before its next access.
Partial(t, p) ==
    /\ pc[t] \in {"h2", "h3", "h4"} => state[p] = "open"
    /\ pc[t] = "h5" => state[p] = "half_open"
    /\ pc[t] \in {"s2", "s3", "s4"} => errors[p] = 0
    /\ pc[t] = "s3" => state[p] = "half_open"
    /\ pc[t] = "s4" => state[p] = "closed"
    /\ pc[t] \in {"e3", "e4"} => /\ state[p] = "open" => age[p] # None
                                 /\ state[p] = "closed" => age[p] = None
    /\ pc[t] = "e5" => state[p] = "open"

Breaker(p) ==
    /\ (\A t \in Threads : prov[t] = p => pc[t] \notin Halfway) => Agrees(p)
    /\ \A t \in Threads : prov[t] = p => Partial(t, p)

\* The same, said of the only thread.
BreakerOf(t, p) ==
    /\ (prov[t] = p => pc[t] \notin Halfway) => Agrees(p)
    /\ prov[t] = p => Partial(t, p)

LEMMA OnlyThread ==
    ASSUME OneThread, NEW t \in Threads, NEW p \in Providers
    PROVE  (Breaker(p) <=> BreakerOf(t, p)) /\ (Breaker(p)' <=> BreakerOf(t, p)')
<1>1. Threads = {t}
  BY DEF OneThread
<1> QED
  BY <1>1 DEF Breaker, BreakerOf

\* A step that touches no health record and takes the thread to a place where
\* it has seen nothing yet.
LEMMA BreakerStays ==
    ASSUME NEW t \in Threads, NEW p \in Providers, BreakerOf(t, p),
           UNCHANGED healthVars, pc[t] \notin Halfway,
           pc'[t] \in {"idle", "checked", "rank", "try", "bind", "bound", "h1",
                       "s1", "e1", "e2"}
    PROVE  BreakerOf(t, p)'
  BY DEF BreakerOf, Agrees, Partial, Halfway, healthVars

LEMMA BreakerByThread ==
    ASSUME TypeOK, NEW t \in Threads, NEW p \in Providers, BreakerOf(t, p),
           ThreadStep(t)
    PROVE  BreakerOf(t, p)'
<1> USE DEF Goto, Step, Calls, P
<1>a. HealthTypeOK /\ BindTypeOK /\ CallTypeOK
  BY TypeParts
<1>1. CASE \/ Get(t) \/ Failover(t) \/ Use(t)
           \/ ReturnClient(t) \/ Rebuild(t) \/ RankNext(t) \/ RankOne(t)
           \/ RankDone(t) \/ TryAnswers(t) \/ TryFails(t) \/ AllFailed(t)
           \/ BindClient(t) \/ BindProvider(t) \/ ReadErrors(t)
           \/ CheckTimeRaises(t)
  <2>1. /\ UNCHANGED healthVars /\ pc[t] \notin Halfway
        /\ pc'[t] \in {"idle", "checked", "rank", "try", "bind", "bound", "h1",
                       "s1", "e1", "e2"}
    BY <1>1, <1>a DEF Get, GetBound, GetUnbound, Failover, Use, ReturnClient,
         Rebuild, RankNext, RankOne, RankDone, TryAnswers, TryFails, AllFailed,
         BindClient, BindProvider, ReadErrors, CheckTimeRaises, CallTypeOK,
         Halfway
  <2> QED
    BY <2>1, BreakerStays
<1>2. CASE \/ CheckState(t) \/ CheckOpenedAt(t) \/ CheckTime(t)
           \/ SetHalfOpen(t) \/ ClearErrors(t)
  BY <1>2, <1>a DEF CheckState, CheckOpenedAt, CheckTime, SetHalfOpen,
       ClearErrors, healthVars, callVars, BreakerOf, Agrees, Partial, Halfway,
       CallTypeOK, HealthTypeOK
<1>3. CASE ResetErrors(t) \/ TestHalfOpen(t)
  BY <1>3, <1>a DEF ResetErrors, TestHalfOpen, AfterSuccess, healthVars,
       callVars, BreakerOf, Agrees, Partial, Halfway, CallTypeOK, HealthTypeOK
<1>4. CASE SetClosed(t) \/ ClearOpenedAt(t)
  BY <1>4, <1>a DEF SetClosed, ClearOpenedAt, AfterSuccess, healthVars,
       callVars, BreakerOf, Agrees, Partial, Halfway, CallTypeOK, HealthTypeOK
<1>5. CASE WriteErrors(t) \/ TooManyErrors(t) \/ SetOpen(t)
  BY <1>5, <1>a DEF WriteErrors, TooManyErrors, SetOpen, healthVars, callVars,
       BreakerOf, Agrees, Partial, Halfway, CallTypeOK, HealthTypeOK
<1>6. CASE FewErrors(t) \/ SetOpenedAt(t)
  <2>1. /\ pc[t] \in {"e3", "e5"} /\ prov' = prov
        /\ pc'[t] \in {"e1", "try", "rank", "idle"}
    BY <1>6, <1>a DEF FewErrors, SetOpenedAt, ErrorRecorded, AfterError,
         CallTypeOK
  <2>2. CASE FewErrors(t)
    BY <2>1, <2>2, <1>a DEF FewErrors, ErrorRecorded, healthVars, BreakerOf,
         Agrees, Partial, Halfway, HealthTypeOK
  <2>3. CASE SetOpenedAt(t)
    <3>1. pc[t] = "e5" /\ state' = state /\ errors' = errors
          /\ age' = [age EXCEPT ![prov[t]] = 0] /\ 0 # None
      BY <2>3 DEF SetOpenedAt, ErrorRecorded
    <3> QED
      BY <2>1, <3>1, <1>a DEF BreakerOf, Agrees, Partial, Halfway, HealthTypeOK
  <2> QED
    BY <1>6, <2>2, <2>3
<1> QED
  BY <1>1, <1>2, <1>3, <1>4, <1>5, <1>6 DEF ThreadStep, Running

LEMMA BreakerStep ==
    ASSUME OneThread, TypeOK, NEW p \in Providers, Breaker(p), [Next]_vars
    PROVE  Breaker(p)'
<1>1. ASSUME NEW t \in Threads, ThreadStep(t) PROVE Breaker(p)'
  BY <1>1, BreakerByThread, OnlyThread
<1>2. CASE Tick
  <2>1. UNCHANGED <<state, errors, pc, prov>> /\ (age'[p] = None <=> age[p] = None)
    BY <1>2, TypeParts DEF Tick, HealthTypeOK, threadVars, callVars
  <2> QED
    BY <2>1 DEF Breaker, Agrees, Partial
<1>3. CASE UNCHANGED vars
  BY <1>3 DEF vars, healthVars, threadVars, callVars, Breaker, Agrees, Partial
<1> QED
  BY <1>1, <1>2, <1>3 DEF Next, ThreadStep

\* In a process with one thread the attributes of every breaker agree whenever
\* no update is under way.  With two they do not: OPEN may be left without an
\* opened_at.
THEOREM OneThreadAgrees ==
    ASSUME OneThread
    PROVE  Spec => []BreakerConsistent
<1> DEFINE Breakers == \A p \in Providers : Breaker(p)
<1>1. Init => Breakers
  BY DEF Init, Breaker, Agrees, Partial, Halfway
<1>2. TypeOK /\ [Next]_vars /\ Breakers => Breakers'
  BY BreakerStep
<1>3. Breakers => BreakerConsistent
  BY DEF Breaker, Agrees, Halfway, BreakerConsistent, Quiet
<1> HIDE DEF Breakers
<1> QED
  BY <1>1, <1>2, <1>3, RouterTyped, PTL DEF Spec
=============================================================================
