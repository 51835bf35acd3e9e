----------------------- MODULE FeedbackScalingProofs -----------------------
(***************************************************************************)
(* What holds of FeedbackScaling for any number of clients and workers and *)
(* any configuration of the feedback actor.                                *)
(***************************************************************************)
EXTENDS FeedbackScaling, FiniteSetTheorems, TLAPS

-----------------------------------------------------------------------------
(* Facts about the operators *)

\* Min of two integers is the smaller one.
LEMMA MinOfTwo ==
    ASSUME NEW a \in Int, NEW b \in Int
    PROVE  /\ Min({a, b}) \in Int
           /\ Min({a, b}) = IF a <= b THEN a ELSE b
<1>1. \E x \in {a, b} : \A y \in {a, b} : x =< y
  OBVIOUS
<1>2. /\ Min({a, b}) \in {a, b}
      /\ \A y \in {a, b} : Min({a, b}) =< y
  BY <1>1 DEF Min
<1> QED BY <1>2

\* Max of two integers is the larger one.
LEMMA MaxOfTwo ==
    ASSUME NEW a \in Int, NEW b \in Int
    PROVE  /\ Max({a, b}) \in Int
           /\ Max({a, b}) = IF a >= b THEN a ELSE b
<1>1. \E x \in {a, b} : \A y \in {a, b} : x >= y
  OBVIOUS
<1>2. /\ Max({a, b}) \in {a, b}
      /\ \A y \in {a, b} : Max({a, b}) >= y
  BY <1>1 DEF Max
<1> QED BY <1>2

\* No timestamp has to be known beyond Patience, which covers the sleep.
LEMMA PatienceCovers == Patience \in Nat /\ Patience >= SleepSeconds
BY MaxOfTwo, ScalingAssumption DEF Patience, WakeupInterval

\* Ages grow with time, but not beyond Patience.
LEMMA LaterGrows ==
    ASSUME NEW age \in 0 .. Patience, NEW d \in Nat
    PROVE  /\ Later(age, d) \in 0 .. Patience
           /\ Later(age, d) >= age
           /\ \A other \in 0 .. Patience : other <= age => Later(other, d) <= Later(age, d)
<1>1. \A a \in 0 .. Patience : Later(a, d) = IF a + d <= Patience THEN a + d ELSE Patience
  BY MinOfTwo, PatienceCovers DEF Later
<1> QED BY <1>1, PatienceCovers

\* Taking k clients away from a set of clients makes it smaller by k.
LEMMA PausedCount ==
    ASSUME NEW S, IsFiniteSet(S), NEW k, NEW T \in kSubset(k, S)
    PROVE  Cardinality(S \ T) = Cardinality(S) - k
<1>1. T \in SUBSET S /\ Cardinality(T) = k
  BY DEF kSubset
<1>2. S \cap T = T
  BY <1>1
<1> QED BY <1>1, <1>2, FS_Difference

\* Adding k further clients to a set of active clients makes it larger by k.
LEMMA UnpausedCount ==
    ASSUME NEW S, IsFiniteSet(S), NEW R \in SUBSET S, NEW k, NEW T \in kSubset(k, S \ R)
    PROVE  Cardinality(R \union T) = Cardinality(R) + k
<1>1. T \in SUBSET (S \ R) /\ Cardinality(T) = k
  BY DEF kSubset
<1>2. IsFiniteSet(R) /\ IsFiniteSet(T)
  <2>1. T \in SUBSET S
    BY <1>1
  <2> QED BY <2>1, FS_Subset
<1>3. R \cap T = {}
  BY <1>1
<1>4. Cardinality(R \union T) = Cardinality(R) + Cardinality(T) - Cardinality(R \cap T)
  BY <1>2, FS_Union
<1>5. Cardinality(R) \in Nat /\ Cardinality(T) \in Nat /\ Cardinality({}) = 0
  BY <1>2, FS_CardinalityType, FS_EmptySet
<1>6. Cardinality(R \cap T) = 0
  BY <1>3, <1>5
<1>7. Cardinality(R \union T) = Cardinality(R) + Cardinality(T)
  BY <1>4, <1>5, <1>6
<1> QED BY <1>1, <1>7

-----------------------------------------------------------------------------
(* The inductive invariant *)

\* The ages run side by side: the last scale-down of the step is never more
\* recent than the last error, and scaling up has waited for it.
AgesInv ==
    /\ quiet \in 0 .. Patience /\ since_error \in 0 .. Patience
    /\ since_error <= quiet
    /\ queue_lock => since_error = 0
    /\ state = "scaling_up" => quiet >= SleepSeconds

FInv == active \in SUBSET Clients /\ ActiveCounted /\ AgesInv

\* The invariant holds when the actor starts.
LEMMA InitFInv == Init => FInv
<1> SUFFICES ASSUME Init PROVE FInv
  OBVIOUS
<1>1. active \in SUBSET Clients /\ ActiveCounted
  BY FS_EmptySet DEF Init, ActiveCounted
<1>2. AgesInv
  BY PatienceCovers DEF Init, AgesInv
<1> QED BY <1>1, <1>2 DEF FInv

\* Steps that leave the actor alone
LEMMA OthersFInv ==
    ASSUME FInv, UNCHANGED actorVars
    PROVE  FInv'
BY DEF FInv, ActiveCounted, AgesInv, actorVars

\* Messages do not touch the clients.
LEMMA EnableFInv ==
    ASSUME FInv, EnableFeedbackScaling
    PROVE  FInv'
BY PatienceCovers DEF FInv, ActiveCounted, AgesInv, EnableFeedbackScaling, Available

\* receiveMsg_DisableFeedbackScaling and receiveMsg_ActorExitRequest preserve it.
LEMMA DisableFInv ==
    ASSUME FInv, DisableFeedbackScaling \/ ActorExitRequest
    PROVE  FInv'
BY DEF FInv, ActiveCounted, AgesInv, DisableFeedbackScaling, ActorExitRequest, Available

\* A wake-up that advances both ages keeps them in order.
LEMMA WakeupAges ==
    ASSUME FInv, NEW d \in Nat, Wakeup(d), since_error' = Later(since_error, d),
           queue_lock' = queue_lock
    PROVE  /\ quiet' \in 0 .. Patience /\ since_error' \in 0 .. Patience
           /\ since_error' <= quiet' /\ quiet' >= quiet
           /\ ~queue_lock'
BY LaterGrows, PatienceCovers DEF FInv, AgesInv, Wakeup, Available, Later

\* Wake-ups that change no client preserve it; the neutral one may decide to scale
\* up only when the last error, hence the last scale-down, is old enough.
LEMMA IdleWakeupFInv ==
    ASSUME FInv, NEW d \in Nat, WakeupDisabled(d) \/ WakeupAsleep(d) \/ WakeupNeutral(d)
    PROVE  FInv'
<1>1. CASE WakeupDisabled(d)
  BY <1>1, WakeupAges DEF FInv, ActiveCounted, AgesInv, WakeupDisabled, AgesAdvance
<1>2. CASE WakeupAsleep(d)
  <2>1. state' # "scaling_up"
    BY <1>2 DEF WakeupAsleep
  <2> QED BY <1>2, <2>1, WakeupAges DEF FInv, ActiveCounted, AgesInv, WakeupAsleep
<1>3. CASE WakeupNeutral(d)
  <2>1. state' = "scaling_up" => since_error' >= SleepSeconds
    BY <1>3 DEF WakeupNeutral
  <2>2. /\ quiet' \in 0 .. Patience /\ since_error' \in 0 .. Patience
        /\ since_error' <= quiet' /\ ~queue_lock'
    BY <1>3, WakeupAges DEF WakeupNeutral, AgesAdvance
  <2>3. AgesInv'
    BY <2>1, <2>2, PatienceCovers, ScalingAssumption DEF AgesInv
  <2> QED BY <1>3, <2>3 DEF FInv, ActiveCounted, WakeupNeutral
<1> QED BY <1>1, <1>2, <1>3

\* The wake-up that finds errors preserves it.
LEMMA ErrorsFInv ==
    ASSUME FInv, NEW d \in Nat, WakeupWithErrors(d)
    PROVE  FInv'
<1>1. quiet' \in 0 .. Patience
  BY LaterGrows DEF FInv, AgesInv, WakeupWithErrors, Wakeup, Later
<1> QED BY <1>1, PatienceCovers DEF FInv, ActiveCounted, AgesInv, WakeupWithErrors

\* scale_down preserves it: the count goes down with the dictionaries.
LEMMA ScaleDownFInv ==
    ASSUME FInv, ScaleDown
    PROVE  FInv'
<1> DEFINE n == Min({ClientsToPause, Cardinality(active)})
<1>1. PICK paused \in kSubset(n, active) :
            /\ active' = active \ paused
            /\ total_active_client_count' = total_active_client_count - n
  BY DEF ScaleDown
<1> HIDE DEF n
<1>2. IsFiniteSet(active)
  BY FS_Subset, ClientsAssumption DEF FInv
<1>3. ActiveCounted'
  BY <1>1, <1>2, PausedCount DEF FInv, ActiveCounted
<1>4. AgesInv'
  BY PatienceCovers DEF FInv, AgesInv, ScaleDown
<1> QED BY <1>1, <1>3, <1>4 DEF FInv

\* The loop of scale_up keeps the count in step with the dictionaries.
LEMMA UnpauseCounts ==
    ASSUME FInv, NEW n, Unpause(n)
    PROVE  active' \in SUBSET Clients /\ ActiveCounted'
<1> DEFINE k == Min({n, Cardinality(Clients \ active)})
<1>1. PICK unpaused \in kSubset(k, Clients \ active) :
            /\ active' = active \union unpaused
            /\ total_active_client_count' = total_active_client_count + k
  BY DEF Unpause
<1> HIDE DEF k
<1>2. Cardinality(active') = Cardinality(active) + k
  BY <1>1, UnpausedCount, ClientsAssumption DEF FInv
<1>3. active' \in SUBSET Clients
  BY <1>1 DEF FInv, kSubset
<1> QED BY <1>1, <1>2, <1>3 DEF FInv, ActiveCounted

\* scale_up preserves the invariant, and happens only after the sleep.
LEMMA ScaleUpFInv ==
    ASSUME FInv, NEW d \in Nat, WakeupScaleUp(d) \/ WakeupAtCeiling(d)
    PROVE  FInv' /\ quiet' >= SleepSeconds
<1>1. ScaleUpFinally(d)
  BY DEF WakeupScaleUp, WakeupAtCeiling
<1>2. active' \in SUBSET Clients /\ ActiveCounted'
  <2>1. CASE \E n : Unpause(n)
    BY <2>1, UnpauseCounts
  <2>2. CASE UNCHANGED <<active, total_active_client_count>>
    BY <2>2 DEF FInv, ActiveCounted
  <2> QED BY <2>1, <2>2 DEF WakeupScaleUp, WakeupAtCeiling
<1>3. /\ quiet' \in 0 .. Patience /\ since_error' \in 0 .. Patience
      /\ since_error' <= quiet' /\ quiet' >= quiet /\ ~queue_lock'
  BY <1>1, WakeupAges DEF ScaleUpFinally
<1>4. quiet >= SleepSeconds /\ quiet \in Nat
  BY <1>1 DEF FInv, AgesInv, ScaleUpFinally
<1>5. AgesInv'
  BY <1>1, <1>3 DEF AgesInv, ScaleUpFinally
<1> QED BY <1>2, <1>3, <1>4, <1>5, ScalingAssumption, PatienceCovers DEF FInv

\* Every step preserves the invariant.
LEMMA StepFInv ==
    ASSUME FInv, [Next]_vars
    PROVE  FInv'
<1>1. ASSUME NEW d \in WakeupInterval .. MaxDelay
      PROVE  d \in Nat
  BY <1>1, ScalingAssumption DEF WakeupInterval
<1>2. CASE FeedbackWakeup
  BY <1>1, <1>2, IdleWakeupFInv, ErrorsFInv, ScaleUpFInv DEF FeedbackWakeup
<1>3. CASE ScaleDown
  BY <1>3, ScaleDownFInv
<1>4. CASE EnableFeedbackScaling
  BY <1>4, EnableFInv
<1>5. CASE DisableFeedbackScaling \/ ActorExitRequest
  BY <1>5, DisableFInv
<1>6. CASE UNCHANGED actorVars
  BY <1>6, OthersFInv
<1>7. CASE \E c \in Clients : StartRequest(c) \/ RequestSucceeds(c) \/ RequestFails(c)
  BY <1>6, <1>7 DEF StartRequest, RequestSucceeds, RequestFails
<1>8. CASE \E w \in Workers : WorkerReachesJoinPoint(w)
  BY <1>6, <1>8 DEF WorkerReachesJoinPoint
<1>9. CASE UNCHANGED vars
  BY <1>6, <1>9 DEF vars
<1> QED BY <1>2, <1>3, <1>4, <1>5, <1>7, <1>8, <1>9 DEF Next, FeedbackActor

\* The invariant of the feedback actor holds in every reachable state.
THEOREM FeedbackInvariance == Spec => []FInv
<1>1. Init => FInv
  BY InitFInv
<1>2. FInv /\ [Next]_vars => FInv'
  BY StepFInv
<1> QED BY <1>1, <1>2, PTL DEF Spec

-----------------------------------------------------------------------------
(* The theorems *)

\* total_active_client_count never drifts away from the client states that
\* scale_up and scale_down change, over any number of steps and errors.
THEOREM CountNeverDrifts == Spec => []ActiveCounted
<1>1. FInv => ActiveCounted
  BY DEF FInv
<1> QED BY <1>1, FeedbackInvariance, PTL

\* handle_state and scale_up unpause nobody before the sleep after the last
\* scale-down of the step is over.
THEOREM RecoveryWaits == Spec => RecoveryAfterSleep
<1>1. FInv /\ [Next]_vars => [active' \ active # {} => quiet' >= SleepSeconds]_vars
  <2> SUFFICES ASSUME FInv, Next, active' \ active # {}
               PROVE  quiet' >= SleepSeconds
    OBVIOUS
  <2>1. CASE \E d \in WakeupInterval .. MaxDelay : WakeupScaleUp(d) \/ WakeupAtCeiling(d)
    <3>1. PICK d \in WakeupInterval .. MaxDelay : WakeupScaleUp(d) \/ WakeupAtCeiling(d)
      BY <2>1
    <3>2. d \in Nat
      BY ScalingAssumption DEF WakeupInterval
    <3> QED BY <3>1, <3>2, ScaleUpFInv
  <2>2. CASE active' \subseteq active
    BY <2>2
  <2>3. CASE ScaleDown
    BY <2>2, <2>3 DEF ScaleDown
  <2>4. CASE \E d \in WakeupInterval .. MaxDelay :
                WakeupDisabled(d) \/ WakeupAsleep(d) \/ WakeupWithErrors(d) \/ WakeupNeutral(d)
    BY <2>2, <2>4 DEF WakeupDisabled, WakeupAsleep, WakeupWithErrors, WakeupNeutral
  <2>5. CASE EnableFeedbackScaling \/ DisableFeedbackScaling \/ ActorExitRequest
    BY <2>2, <2>5 DEF EnableFeedbackScaling, DisableFeedbackScaling, ActorExitRequest
  <2>6. CASE \E c \in Clients : StartRequest(c) \/ RequestSucceeds(c) \/ RequestFails(c)
    BY <2>2, <2>6 DEF StartRequest, RequestSucceeds, RequestFails, actorVars
  <2>7. CASE \E w \in Workers : WorkerReachesJoinPoint(w)
    BY <2>2, <2>7 DEF WorkerReachesJoinPoint, actorVars
  <2> QED BY <2>1, <2>3, <2>4, <2>5, <2>6, <2>7 DEF Next, FeedbackActor, FeedbackWakeup
<1> QED BY <1>1, FeedbackInvariance, PTL DEF Spec, RecoveryAfterSleep

\* math.ceil never rounds a scale-down of somebody to a scale-down of nobody.
LEMMA SomebodyToPause ==
    ASSUME FInv, active # {}, ScaleDownPct > 0
    PROVE  Min({ClientsToPause, Cardinality(active)}) \in Nat \ {0}
<1>1. IsFiniteSet(active)
  BY FS_Subset, ClientsAssumption DEF FInv
<1>2. Cardinality(active) \in Nat \ {0}
  BY <1>1, FS_CardinalityType, FS_EmptySet
<1>3. \A t \in Nat \ {0}, p \in 1 .. 100 : t * p \in Nat \ {0}
  OBVIOUS
<1>4. \A x \in Nat \ {0} : (x + 99) \div 100 \in Nat \ {0}
  OBVIOUS
<1>5. ScaleDownPct \in 1 .. 100
  BY ScalingAssumption
<1>6. total_active_client_count * ScaleDownPct \in Nat \ {0}
  BY <1>2, <1>3, <1>5 DEF FInv, ActiveCounted
<1>7. ClientsToPause \in Nat \ {0}
  BY <1>4, <1>6 DEF ClientsToPause
<1> QED BY <1>2, <1>7, MinOfTwo

\* Every scale-down that starts with active clients pauses at least one of
\* them, for every configured percentage above zero.
THEOREM ScaleDownIsEffective == Spec => ErrorsLowerLoad
<1>1. ASSUME FInv, Next, queue_lock, active # {}, ScaleDownPct > 0, ~queue_lock'
      PROVE  active' \subseteq active /\ active' # active
  <2>1. ScaleDown
    <3>1. ~FeedbackWakeup
      BY <1>1 DEF FeedbackWakeup, WakeupDisabled, WakeupAsleep, WakeupWithErrors, WakeupNeutral,
                  WakeupScaleUp, WakeupAtCeiling, ScaleUpFinally, Wakeup, Available
    <3>2. ~(EnableFeedbackScaling \/ DisableFeedbackScaling \/ ActorExitRequest)
      BY <1>1 DEF EnableFeedbackScaling, DisableFeedbackScaling, ActorExitRequest, Available
    <3>3. ~(\E c \in Clients : StartRequest(c) \/ RequestSucceeds(c) \/ RequestFails(c))
      BY <1>1 DEF StartRequest, RequestSucceeds, RequestFails, actorVars
    <3>4. ~(\E w \in Workers : WorkerReachesJoinPoint(w))
      BY <1>1 DEF WorkerReachesJoinPoint, actorVars
    <3> QED BY <1>1, <3>1, <3>2, <3>3, <3>4 DEF Next, FeedbackActor
  <2> DEFINE n == Min({ClientsToPause, Cardinality(active)})
  <2>2. PICK paused \in kSubset(n, active) : active' = active \ paused
    BY <2>1 DEF ScaleDown
  <2>3. n \in Nat \ {0}
    BY <1>1, SomebodyToPause
  <2> HIDE DEF n
  <2>4. paused \in SUBSET active /\ paused # {}
    <3>1. paused \in SUBSET active /\ Cardinality(paused) = n
      BY DEF kSubset
    <3> QED BY <2>3, <3>1, FS_EmptySet
  <2> QED BY <2>2, <2>4
<1>2. FInv /\ [Next]_vars =>
        [queue_lock /\ active # {} /\ ScaleDownPct > 0 /\ ~queue_lock'
            => active' \subseteq active /\ active' # active]_vars
  BY <1>1
<1> QED BY <1>2, FeedbackInvariance, PTL DEF Spec, ErrorsLowerLoad
=============================================================================
