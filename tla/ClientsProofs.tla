--------------------------- MODULE ClientsProofs ----------------------------
(***************************************************************************)
(* What holds of the executors of a worker (LoadGeneration) for any number *)
(* of clients, any tasks and any interleaving with the feedback actor: the *)
(* schedule is kept at every step, and errors have the consequences that   *)
(* on_error and redline testing ask for; and of the runners they call      *)
(* (SolrOperations) for any scripts and any faults.                        *)
(***************************************************************************)
EXTENDS LoadGeneration, SolrOperations, FiniteSetTheorems, TLAPS

-----------------------------------------------------------------------------
(* The inductive invariant, client by client *)

Kind(c) == LoopControl(Task(c)).kind
Warmup(c) == LoopControl(Task(c)).warmup
Length(c) == LoopControl(Task(c)).length

\* No request goes out before its time, the loop control lags behind the clock, and an invocation
\* has the sample type that the loop control still says.
RequestsInTime(c) ==
    /\ ex[c].now <= clock
    /\ ex[c].pc \in {"request", "skip"} => ex[c].expected <= ex[c].begin /\ ex[c].begin <= clock
    /\ ex[c].pc \in {"waiting", "request", "skip"} => ex[c].type = SampleType(Task(c), ex[c])

\* What a sample says of times, of the warm-up, which is over once there is another type, and of errors
IsGood(c, sample) ==
    /\ sample.latency >= sample.service /\ sample.processing >= sample.service
    /\ sample.type = "Normal" => SampleType(Task(c), ex[c]) = "Normal"
    /\ ~ sample.success /\ Task(c).on_error = "abort" /\ ~ scenario.redline => sample.answer = "timeout"

\* The next throttled request is due an interval after those that went out.
RateInTime(c) ==
    /\ ex[c].throttled * Task(c).interval <= clock
    /\ ex[c].current_weight # 0 => Task(c).interval > 0
    /\ ex[c].current_weight = 0 => ex[c].throttled = 0
    /\ ex[c].pc = "waiting" =>
          /\ ex[c].expected = 0 <=> ex[c].current_weight = 0
          /\ ex[c].expected > 0 => (ex[c].throttled + 1) * Task(c).interval <= ex[c].expected
    /\ ex[c].pc \in {"rampup", "next", "request", "skip"} => ex[c].throttled * Task(c).interval <= ex[c].expected

\* The iterations that were begun are those that are counted and the one that is under way; the
\* warm-up comes first.
InOrder(c) ==
    LET begun == ex[c].warm + ex[c].measured
    IN  Kind(c) = "iterations" =>
          /\ ex[c].pc \in {"rampup", "next", "waiting"} => begun = ex[c].it
          /\ ex[c].pc \in {"request", "skip"} => begun = ex[c].it + 1
          /\ ex[c].warm <= Warmup(c) /\ (ex[c].measured > 0 => ex[c].warm = Warmup(c))
          /\ Length(c) # None =>
                /\ ex[c].pc \in {"rampup", "next"} => ex[c].it <= Warmup(c) + Length(c)
                /\ ex[c].pc \in {"waiting", "request", "skip"} => ex[c].it < Warmup(c) + Length(c)

\* One client's part of IterationsAreExact
Exact(c) ==
    /\ ex[c].pc = "done" /\ Kind(c) = "iterations" /\ Length(c) # None
    /\ ~ cancel /\ ex[c].params # 0 /\ ~ Task(c).runner_completes
    /\ ~ complete \/ (Task(c).completes_parent /\ ~ scenario.redline)
    => ex[c].warm = Warmup(c) /\ ex[c].measured = Length(c)

\* Clients are paused in redline testing only.
PausedInRedline(c) == ~ enabled[c] \/ ~ ex[c].client_state \/ ex[c].pc = "skip" => scenario.redline

ClientInv(c) ==
    /\ RequestsInTime(c) /\ RateInTime(c) /\ InOrder(c) /\ Exact(c)
    /\ PausedInRedline(c) /\ IsGood(c, last[c])

LoadInv == LoadTypeOK /\ RedlineSurvivesFailures /\ \A c \in Clients : ClientInv(c)

-----------------------------------------------------------------------------
(* Constants and schedules *)

LEMMA OneMore ==
    ASSUME NEW a \in Nat, NEW b \in Nat
    PROVE  a * b \in Nat /\ (a + 1) * b = a * b + b
  OBVIOUS

LEMMA AtLeastOnce ==
    ASSUME NEW a \in Nat, a # 0, NEW b \in Nat
    PROVE  a * b \in Nat /\ a * b >= b
  OBVIOUS

LEMMA TaskTyped ==
    ASSUME LoadTypeOK, NEW c \in Clients
    PROVE  /\ Task(c) \in TaskDefinitions
           /\ scenario.redline \in BOOLEAN /\ scenario.timed \in BOOLEAN
           /\ scenario \in [redline : BOOLEAN, timed : BOOLEAN, tasks : [Clients -> TaskDefinitions]]
<1>1. scenario \in [redline : BOOLEAN, timed : BOOLEAN, tasks : [Clients -> TaskDefinitions]]
  BY LoadAssumption DEF LoadTypeOK
<1> QED
  BY <1>1 DEF Task

LEMMA LoadConstants ==
    /\ ErrorQueueSize \in Nat /\ MaxTime \in Nat /\ BaseTimeout \in Nat \ {0} /\ Weights \subseteq Nat \ {0}
  BY LoadAssumption

\* A loop control has a kind, a warm-up and a length, and one that counts iterations has at least one.
LEMMA ControlTyped ==
    ASSUME NEW t \in TaskDefinitions
    PROVE  /\ LoopControl(t).kind \in {"time", "iterations"}
           /\ LoopControl(t).warmup \in Nat /\ LoopControl(t).length \in Optional
           /\ LoopControl(t).kind = "iterations" => LoopControl(t).length # 0
<1>1. /\ t.iterations \in Optional /\ t.warmup_iterations \in Optional
      /\ t.warmup_time_period \in Optional /\ t.time_period \in Optional /\ t.params \in Optional
  BY DEF TaskDefinitions
<1>2. \A n \in Optional : OrZero(n) \in Nat /\ (OrZero(n) > 0 => n = OrZero(n) /\ n # 0)
  BY DEF OrZero, Optional, None
<1>3. CASE RequiresTimePeriodSchedule(t)
  <2>1. LoopControl(t) = [kind |-> "time", warmup |-> OrZero(t.warmup_time_period), length |-> t.time_period]
    BY <1>3 DEF LoopControl
  <2> QED
    BY <1>1, <1>2, <2>1
<1>4. CASE ~ RequiresTimePeriodSchedule(t)
  <2> DEFINE length == IF OrZero(t.iterations) > 0 THEN t.iterations ELSE IF t.params = None THEN 1 ELSE None
  <2>1. LoopControl(t) = [kind |-> "iterations", warmup |-> OrZero(t.warmup_iterations), length |-> length]
    BY <1>4 DEF LoopControl
  <2>2. length \in Optional /\ length # 0
    BY <1>1, <1>2 DEF Optional, None
  <2> HIDE DEF length
  <2> QED
    BY <1>1, <1>2, <2>1, <2>2
<1> QED
  BY <1>3, <1>4

\* Time and iterations only go forward, and the warm-up with them.
LEMMA WarmupPasses ==
    ASSUME NEW t \in TaskDefinitions, NEW e \in Executors, NEW f \in Executors,
           e.now <= f.now, e.it <= f.it
    PROVE  /\ SampleType(t, e) \in {"Warmup", "Normal"}
           /\ SampleType(t, e) = "Normal" => SampleType(t, f) = "Normal"
           /\ e.now = f.now /\ e.it = f.it => SampleType(t, e) = SampleType(t, f)
<1>1. LoopControl(t).warmup \in Nat
  BY ControlTyped
<1>2. e.now \in Nat /\ f.now \in Nat /\ e.it \in Nat /\ f.it \in Nat
  BY DEF Executors
<1> QED
  BY <1>1, <1>2 DEF SampleType

LEMMA SampleTypeCounts ==
    ASSUME NEW t \in TaskDefinitions, NEW e \in Executors, LoopControl(t).kind = "iterations"
    PROVE  SampleType(t, e) = "Warmup" <=> e.it < LoopControl(t).warmup
  BY DEF SampleType

\* A weight above zero throttles, and only one with a target throughput does.
LEMMA WeightTyped ==
    ASSUME NEW t \in TaskDefinitions, NEW e \in Executors, NEW weight \in Nat
    PROVE  /\ WeightAfter(t, e, weight) \in Nat
           /\ WeightAfter(t, e, weight) = 0 => e.current_weight = 0
           /\ t.interval = 0 => WeightAfter(t, e, weight) = e.current_weight
<1>1. e.current_weight \in Nat /\ t.interval \in Nat
  BY DEF Executors, TaskDefinitions
<1> QED
  BY <1>1 DEF WeightAfter

\* The next throttled request is due after an interval at least.
LEMMA NextAfterInterval ==
    ASSUME NEW t \in TaskDefinitions, NEW e \in Executors
    PROVE  /\ NextScheduled(t, e) \in Nat
           /\ t.interval # 0 /\ e.current_weight # 0 => NextScheduled(t, e) >= e.expected + t.interval
           /\ t.interval = 0 \/ e.current_weight = 0 => NextScheduled(t, e) = 0
<1>1. e.current_weight \in Nat /\ t.interval \in Nat /\ e.expected \in Nat
  BY DEF Executors, TaskDefinitions
<1>2. CASE t.interval = 0 \/ e.current_weight = 0
  BY <1>1, <1>2 DEF NextScheduled
<1>3. CASE ~ (t.interval = 0 \/ e.current_weight = 0)
  <2>1. NextScheduled(t, e) = e.expected + e.current_weight * t.interval
    BY <1>3 DEF NextScheduled
  <2>2. e.current_weight * t.interval \in Nat /\ e.current_weight * t.interval >= t.interval
    BY <1>1, <1>3, AtLeastOnce
  <2> QED
    BY <1>1, <1>3, <2>1, <2>2
<1> QED
  BY <1>2, <1>3

-----------------------------------------------------------------------------
(* Steps of one client *)

LEMMA ExecutorTyped ==
    ASSUME LoadTypeOK, NEW c \in Clients
    PROVE  ex[c] \in Executors /\ last[c] \in Samples /\ enabled[c] \in BOOLEAN /\ clock \in Nat
  BY LoadConstants DEF LoadTypeOK

LEMMA OneExecutor ==
    ASSUME LoadTypeOK, NEW c \in Clients, NEW r \in Executors, ex' = [ex EXCEPT ![c] = r]
    PROVE  ex' \in [Clients -> Executors] /\ ex'[c] = r /\ \A d \in Clients \ {c} : ex'[d] = ex[d]
  BY DEF LoadTypeOK

LEMMA OneSample ==
    ASSUME LoadTypeOK, NEW c \in Clients, NEW s \in Samples, last' = [last EXCEPT ![c] = s]
    PROVE  last' \in [Clients -> Samples] /\ last'[c] = s /\ \A d \in Clients \ {c} : last'[d] = last[d]
  BY DEF LoadTypeOK

\* A step that takes time, at most, and no part of the client's, or that gives it up
Aside(c) ==
    /\ scenario' = scenario /\ clock' \in Nat /\ clock <= clock' /\ last'[c] = last[c]
    /\ complete => complete'
    /\ cancel => cancel'
    /\ enabled'[c] = enabled[c] \/ scenario.redline
    /\ ex'[c] = ex[c] \/ \E p \in {"raised", "abandoned"} : ex'[c] = [ex[c] EXCEPT !.pc = p]

LEMMA TaskStays ==
    ASSUME scenario' = scenario, NEW c
    PROVE  Task(c)' = Task(c) /\ Kind(c)' = Kind(c) /\ Warmup(c)' = Warmup(c) /\ Length(c)' = Length(c)
  BY DEF Task, Kind, Warmup, Length

LEMMA AsideKeeps ==
    ASSUME LoadTypeOK, NEW c \in Clients, ClientInv(c), Aside(c)
    PROVE  ClientInv(c)'
<1>1. ex[c] \in Executors /\ last[c] \in Samples /\ clock \in Nat /\ Task(c) \in TaskDefinitions
  BY ExecutorTyped, TaskTyped
<1>2. /\ Task(c)' = Task(c) /\ Kind(c)' = Kind(c) /\ Warmup(c)' = Warmup(c) /\ Length(c)' = Length(c)
      /\ scenario' = scenario /\ last'[c] = last[c] /\ clock' \in Nat /\ clock <= clock'
  BY TaskStays DEF Aside
<1>3. PICK p \in Ended \union {"rampup", "waiting", "request", "skip", "next"} :
        ex'[c] = [ex[c] EXCEPT !.pc = p] /\ (p = ex[c].pc \/ p \in {"raised", "abandoned"})
  BY <1>1 DEF Aside, Executors, Ended
<1>4. /\ ex'[c].pc = p /\ ex'[c].now = ex[c].now /\ ex'[c].it = ex[c].it /\ ex'[c].expected = ex[c].expected
      /\ ex'[c].type = ex[c].type /\ ex'[c].client_state = ex[c].client_state /\ ex'[c].params = ex[c].params
      /\ ex'[c].current_weight = ex[c].current_weight /\ ex'[c].begin = ex[c].begin /\ ex'[c].warm = ex[c].warm
      /\ ex'[c].measured = ex[c].measured /\ ex'[c].throttled = ex[c].throttled /\ ex'[c] \in Executors
  BY <1>1, <1>3 DEF Executors
<1>5. /\ ex[c].now \in Nat /\ ex[c].begin \in Nat /\ ex[c].throttled \in Nat /\ Task(c).interval \in Nat
  BY <1>1 DEF Executors, TaskDefinitions
<1>6. ex[c].throttled * Task(c).interval \in Nat
  BY <1>5, OneMore
<1>7. SampleType(Task(c), ex'[c]) = SampleType(Task(c), ex[c])
  BY <1>4 DEF SampleType
<1>8. RequestsInTime(c)'
  BY <1>1, <1>2, <1>3, <1>4, <1>5, <1>7 DEF ClientInv, RequestsInTime
<1>9. RateInTime(c)'
  <2>1. ex'[c].throttled * Task(c)'.interval = ex[c].throttled * Task(c).interval
    BY <1>2, <1>4
  <2>2. (ex'[c].throttled + 1) * Task(c)'.interval = (ex[c].throttled + 1) * Task(c).interval
    BY <1>2, <1>4
  <2>3. RateInTime(c)
    BY DEF ClientInv
  <2>4. ex'[c].throttled * Task(c)'.interval <= clock'
    BY <1>1, <1>2, <1>6, <2>1, <2>3 DEF RateInTime
  <2> QED
    BY <1>2, <1>3, <1>4, <2>1, <2>2, <2>3, <2>4 DEF RateInTime
<1>10. InOrder(c)'
  BY <1>2, <1>3, <1>4 DEF ClientInv, InOrder
<1>11. Exact(c)'
  BY <1>2, <1>3, <1>4 DEF ClientInv, Exact, Aside
<1>12. PausedInRedline(c)'
  BY <1>2, <1>3, <1>4 DEF ClientInv, PausedInRedline, Aside
<1>13. IsGood(c, last[c])'
  BY <1>2, <1>7 DEF ClientInv, IsGood
<1> QED
  BY <1>8, <1>9, <1>10, <1>11, <1>12, <1>13 DEF ClientInv

-----------------------------------------------------------------------------
(* Each action, for the client that takes it *)

LEMMA RampUpMoves ==
    ASSUME LoadTypeOK, NEW c \in Clients, ClientInv(c), RampUp(c)
    PROVE  ex' \in [Clients -> Executors] /\ ClientInv(c)' /\ \A d \in Clients \ {c} : ex'[d] = ex[d]
<1>1. ex[c] \in Executors /\ clock \in Nat /\ Task(c) \in TaskDefinitions /\ ex[c].pc = "rampup"
  BY ExecutorTyped, TaskTyped DEF RampUp
<1> DEFINE r == [ex[c] EXCEPT !.pc = "next"]
<1>2. r \in Executors /\ ex' = [ex EXCEPT ![c] = r]
  BY <1>1 DEF Executors, RampUp
<1>3. ex' \in [Clients -> Executors] /\ ex'[c] = r /\ \A d \in Clients \ {c} : ex'[d] = ex[d]
  <2> HIDE DEF r
  <2> QED
    BY <1>2, OneExecutor
<1>4. /\ ex'[c].pc = "next" /\ ex'[c].now = ex[c].now /\ ex'[c].it = ex[c].it /\ ex'[c].expected = ex[c].expected
      /\ ex'[c].type = ex[c].type /\ ex'[c].client_state = ex[c].client_state /\ ex'[c].params = ex[c].params
      /\ ex'[c].current_weight = ex[c].current_weight /\ ex'[c].begin = ex[c].begin /\ ex'[c].warm = ex[c].warm
      /\ ex'[c].measured = ex[c].measured /\ ex'[c].throttled = ex[c].throttled
  BY <1>1, <1>3 DEF Executors
<1> HIDE DEF r
<1>5. /\ Task(c)' = Task(c) /\ Kind(c)' = Kind(c) /\ Warmup(c)' = Warmup(c) /\ Length(c)' = Length(c)
      /\ UNCHANGED <<scenario, clock, complete, cancel, enabled, last>>
  BY TaskStays DEF RampUp
<1>6. SampleType(Task(c), ex'[c]) = SampleType(Task(c), ex[c])
  BY <1>4 DEF SampleType
<1>7. RequestsInTime(c)'
  BY <1>1, <1>4, <1>5 DEF ClientInv, RequestsInTime
<1>8. RateInTime(c)'
  BY <1>1, <1>4, <1>5 DEF ClientInv, RateInTime
<1>9. InOrder(c)'
  BY <1>1, <1>4, <1>5 DEF ClientInv, InOrder
<1>10. Exact(c)' /\ PausedInRedline(c)'
  BY <1>1, <1>4, <1>5 DEF ClientInv, Exact, PausedInRedline
<1>11. IsGood(c, last[c])'
  BY <1>5, <1>6 DEF ClientInv, IsGood
<1> QED
  BY <1>3, <1>7, <1>8, <1>9, <1>10, <1>11 DEF ClientInv

LEMMA InvocationMoves ==
    ASSUME LoadTypeOK, NEW c \in Clients, ClientInv(c), Invocation(c)
    PROVE  ex' \in [Clients -> Executors] /\ ClientInv(c)' /\ \A d \in Clients \ {c} : ex'[d] = ex[d]
<1>1. ex[c] \in Executors /\ clock \in Nat /\ Task(c) \in TaskDefinitions /\ ex[c].pc = "next" /\ enabled[c] \in BOOLEAN
  BY ExecutorTyped, TaskTyped DEF Invocation
<1> DEFINE left == IF ex[c].params = None THEN None ELSE ex[c].params - 1
           scheduled == NextScheduled(Task(c), ex[c])
           type == SampleType(Task(c), ex[c])
           r == [ex[c] EXCEPT !.pc = "waiting", !.expected = scheduled, !.type = type,
                              !.client_state = enabled[c], !.params = left]
<1>2. left \in Optional
  BY <1>1 DEF Invocation, HasNext, Executors, Optional, None
<1>3. scheduled \in Nat /\ type \in {"Warmup", "Normal"}
  BY <1>1, NextAfterInterval, WarmupPasses DEF Executors
<1>4. ex' = [ex EXCEPT ![c] = r]
  BY DEF Invocation
<1>5. r \in Executors
  <2> HIDE DEF left, scheduled, type
  <2> QED
    BY <1>1, <1>2, <1>3 DEF Executors
<1>6. ex' \in [Clients -> Executors] /\ ex'[c] = r /\ \A d \in Clients \ {c} : ex'[d] = ex[d]
  <2> HIDE DEF r
  <2> QED
    BY <1>4, <1>5, OneExecutor
<1>7. /\ ex'[c].pc = "waiting" /\ ex'[c].now = ex[c].now /\ ex'[c].it = ex[c].it /\ ex'[c].expected = scheduled
      /\ ex'[c].type = type /\ ex'[c].client_state = enabled[c]
      /\ ex'[c].current_weight = ex[c].current_weight /\ ex'[c].begin = ex[c].begin /\ ex'[c].warm = ex[c].warm
      /\ ex'[c].measured = ex[c].measured /\ ex'[c].throttled = ex[c].throttled
  <2> HIDE DEF left, scheduled, type
  <2> QED
    BY <1>1, <1>6 DEF Executors
<1>8. /\ Task(c)' = Task(c) /\ Kind(c)' = Kind(c) /\ Warmup(c)' = Warmup(c) /\ Length(c)' = Length(c)
      /\ UNCHANGED <<scenario, clock, complete, cancel, enabled, last>>
  BY TaskStays DEF Invocation
<1> HIDE DEF left, r
<1>9. SampleType(Task(c), ex'[c]) = SampleType(Task(c), ex[c])
  BY <1>7 DEF SampleType
<1>10. RequestsInTime(c)'
  BY <1>1, <1>7, <1>8, <1>9 DEF ClientInv, RequestsInTime
<1>11. RateInTime(c)'
  <2>1. RateInTime(c) /\ ex[c].throttled \in Nat /\ Task(c).interval \in Nat /\ ex[c].expected \in Nat
        /\ ex[c].current_weight \in Nat
    BY <1>1 DEF ClientInv, Executors, TaskDefinitions
  <2>2. /\ ex[c].throttled * Task(c).interval \in Nat
        /\ (ex[c].throttled + 1) * Task(c).interval = ex[c].throttled * Task(c).interval + Task(c).interval
    BY <2>1, OneMore
  <2>3. ex[c].throttled * Task(c).interval <= ex[c].expected
    BY <1>1, <2>1 DEF RateInTime
  <2>4. scheduled = 0 <=> ex[c].current_weight = 0
    <3>1. ex[c].current_weight # 0 => Task(c).interval > 0
      BY <2>1 DEF RateInTime
    <3> QED
      BY <1>1, <2>1, <3>1, NextAfterInterval
  <2>5. scheduled > 0 => scheduled >= ex[c].expected + Task(c).interval
    BY <1>1, <2>1, NextAfterInterval
  <2>6. scheduled > 0 => (ex[c].throttled + 1) * Task(c).interval <= scheduled
    <3> HIDE DEF scheduled
    <3> QED
      BY <1>3, <2>1, <2>2, <2>3, <2>5
  <2> HIDE DEF scheduled
  <2> QED
    BY <1>7, <1>8, <2>1, <2>4, <2>6 DEF RateInTime
<1>12. InOrder(c)'
  <2>1. InOrder(c) /\ ex[c].it \in Nat /\ Warmup(c) \in Nat /\ Length(c) \in Optional
    BY <1>1, ControlTyped DEF ClientInv, Executors, Warmup, Length
  <2>2. Kind(c) = "iterations" /\ Length(c) # None => ex[c].it < Warmup(c) + Length(c)
    BY <1>1, <2>1 DEF Invocation, HasNext, Infinite, ControlCompleted, Kind, Warmup, Length, Optional, None
  <2> QED
    BY <1>1, <1>7, <1>8, <2>1, <2>2 DEF InOrder
<1>13. Exact(c)' /\ PausedInRedline(c)'
  BY <1>1, <1>7, <1>8 DEF ClientInv, Exact, PausedInRedline
<1>14. IsGood(c, last[c])'
  BY <1>8, <1>9 DEF ClientInv, IsGood
<1> QED
  BY <1>6, <1>10, <1>11, <1>12, <1>13, <1>14 DEF ClientInv

LEMMA BeginMoves ==
    ASSUME LoadTypeOK, NEW c \in Clients, ClientInv(c), Begin(c)
    PROVE  ex' \in [Clients -> Executors] /\ ClientInv(c)' /\ \A d \in Clients \ {c} : ex'[d] = ex[d]
<1>1. ex[c] \in Executors /\ clock \in Nat /\ Task(c) \in TaskDefinitions /\ ex[c].pc = "waiting" /\ clock >= ex[c].expected
  BY ExecutorTyped, TaskTyped DEF Begin, ScheduledTimeReached
<1>2. /\ ex[c].warm \in Nat /\ ex[c].measured \in Nat /\ ex[c].throttled \in Nat /\ ex[c].expected \in Nat
      /\ ex[c].client_state \in BOOLEAN /\ ex[c].it \in Nat /\ ex[c].now \in Nat
      /\ Task(c).interval \in Nat
  BY <1>1 DEF Executors, TaskDefinitions
<1> DEFINE p == IF ex[c].client_state THEN "request" ELSE "skip"
           w == IF ex[c].type = "Warmup" THEN ex[c].warm + 1 ELSE ex[c].warm
           m == IF ex[c].type = "Warmup" THEN ex[c].measured ELSE ex[c].measured + 1
           n == IF ex[c].expected > 0 THEN ex[c].throttled + 1 ELSE ex[c].throttled
           r == [ex[c] EXCEPT !.pc = p, !.begin = clock, !.warm = w, !.measured = m, !.throttled = n]
<1>3. p \in {"request", "skip"} /\ w \in Nat /\ m \in Nat /\ n \in Nat
  BY <1>2
<1>4. ex' = [ex EXCEPT ![c] = r]
  BY DEF Begin
<1>5. r \in Executors
  <2> HIDE DEF p, w, m, n
  <2> QED
    BY <1>1, <1>3 DEF Executors
<1>6. ex' \in [Clients -> Executors] /\ ex'[c] = r /\ \A d \in Clients \ {c} : ex'[d] = ex[d]
  <2> HIDE DEF r
  <2> QED
    BY <1>4, <1>5, OneExecutor
<1>7. /\ ex'[c].pc = p /\ ex'[c].now = ex[c].now /\ ex'[c].it = ex[c].it /\ ex'[c].expected = ex[c].expected
      /\ ex'[c].type = ex[c].type /\ ex'[c].client_state = ex[c].client_state
      /\ ex'[c].current_weight = ex[c].current_weight /\ ex'[c].begin = clock /\ ex'[c].warm = w
      /\ ex'[c].measured = m /\ ex'[c].throttled = n
  <2> HIDE DEF p, w, m, n
  <2> QED
    BY <1>1, <1>6 DEF Executors
<1>8. /\ Task(c)' = Task(c) /\ Kind(c)' = Kind(c) /\ Warmup(c)' = Warmup(c) /\ Length(c)' = Length(c)
      /\ UNCHANGED <<scenario, clock, complete, cancel, enabled, last>>
  BY TaskStays DEF Begin
<1> HIDE DEF r
<1>9. SampleType(Task(c), ex'[c]) = SampleType(Task(c), ex[c])
  BY <1>7 DEF SampleType
<1>10. RequestsInTime(c)'
  <2>1. RequestsInTime(c)
    BY DEF ClientInv
  <2> HIDE DEF p, w, m, n
  <2> QED
    BY <1>1, <1>2, <1>3, <1>7, <1>8, <1>9, <2>1 DEF RequestsInTime
<1>11. RateInTime(c)'
  <2>1. RateInTime(c)
    BY DEF ClientInv
  <2>2. n * Task(c).interval <= ex[c].expected
    <3>1. CASE ex[c].expected > 0
      <4>1. n = ex[c].throttled + 1
        BY <3>1
      <4> QED
        BY <1>1, <2>1, <3>1, <4>1 DEF RateInTime
    <3>2. CASE ex[c].expected = 0
      <4>1. n = 0
        BY <1>1, <2>1, <3>2 DEF RateInTime
      <4> QED
        BY <1>2, <3>2, <4>1
    <3> QED
      BY <1>2, <3>1, <3>2
  <2>3. ex[c].current_weight = 0 => n = 0
    BY <1>1, <1>2, <2>1 DEF RateInTime
  <2>4. n * Task(c).interval \in Nat
    <3> HIDE DEF n
    <3> QED
      BY <1>2, <1>3, OneMore
  <2> HIDE DEF p, w, m, n
  <2>5. n * Task(c).interval <= clock
    BY <1>1, <1>2, <2>2, <2>4
  <2> QED
    BY <1>2, <1>3, <1>7, <1>8, <2>1, <2>2, <2>3, <2>5 DEF RateInTime
<1>12. InOrder(c)'
  <2> SUFFICES ASSUME Kind(c) = "iterations" PROVE InOrder(c)'
    BY <1>8 DEF InOrder
  <2>1. InOrder(c) /\ RequestsInTime(c) /\ Warmup(c) \in Nat /\ Length(c) \in Optional
    BY <1>1, ControlTyped DEF ClientInv, Warmup, Length
  <2>2. ex[c].type = "Warmup" <=> ex[c].it < Warmup(c)
    BY <1>1, <2>1, SampleTypeCounts DEF RequestsInTime, Kind, Warmup
  <2>3. w + m = ex[c].it + 1 /\ w <= Warmup(c) /\ (m > 0 => w = Warmup(c))
    BY <1>1, <1>2, <2>1, <2>2 DEF InOrder
  <2> HIDE DEF p, w, m, n
  <2> QED
    BY <1>1, <1>3, <1>7, <1>8, <2>1, <2>3 DEF InOrder
<1>13. PausedInRedline(c)'
  <2> HIDE DEF w, m, n
  <2> QED
    BY <1>1, <1>2, <1>7, <1>8 DEF ClientInv, PausedInRedline
<1>14. Exact(c)'
  <2> HIDE DEF p, w, m, n
  <2> QED
    BY <1>3, <1>7 DEF Exact
<1>15. IsGood(c, last[c])'
  BY <1>8, <1>9 DEF ClientInv, IsGood
<1> QED
  BY <1>6, <1>10, <1>11, <1>12, <1>13, <1>14, <1>15 DEF ClientInv

-----------------------------------------------------------------------------
(* The end of a request or of a skipped one *)

LEMMA ContinuesMoves ==
    ASSUME LoadTypeOK, NEW c \in Clients, ClientInv(c), ex[c].pc \in {"request", "skip"},
           NEW weight \in Nat, Continues(c, weight), IsGood(c, last'[c]),
           UNCHANGED <<scenario, clock, enabled>>
    PROVE  ex' \in [Clients -> Executors] /\ ClientInv(c)' /\ \A d \in Clients \ {c} : ex'[d] = ex[d]
<1>1. ex[c] \in Executors /\ clock \in Nat /\ Task(c) \in TaskDefinitions
  BY ExecutorTyped, TaskTyped
<1>2. /\ ex[c].it \in Nat /\ ex[c].now \in Nat /\ ex[c].begin \in Nat /\ ex[c].current_weight \in Nat
      /\ ex[c].throttled \in Nat /\ Task(c).interval \in Nat
  BY <1>1 DEF Executors, TaskDefinitions
<1> DEFINE after == WeightAfter(Task(c), ex[c], weight)
           r == [ex[c] EXCEPT !.pc = "next", !.it = ex[c].it + 1, !.now = clock, !.current_weight = after]
<1>3. /\ after \in Nat
      /\ after = 0 => ex[c].current_weight = 0
      /\ Task(c).interval = 0 => after = ex[c].current_weight
  BY <1>1, WeightTyped
<1>4. ex' = [ex EXCEPT ![c] = r]
  BY DEF Continues
<1> HIDE DEF after
<1>5. r \in Executors
  <2> DEFINE next == ex[c].it + 1
  <2>1. next \in Nat /\ r = [ex[c] EXCEPT !.pc = "next", !.it = next, !.now = clock, !.current_weight = after]
    BY <1>2
  <2> HIDE DEF next, r
  <2> QED
    BY <1>1, <1>3, <2>1 DEF Executors
<1>6. ex' \in [Clients -> Executors] /\ ex'[c] = r /\ \A d \in Clients \ {c} : ex'[d] = ex[d]
  <2> HIDE DEF r
  <2> QED
    BY <1>4, <1>5, OneExecutor
<1>7. /\ ex'[c].pc = "next" /\ ex'[c].now = clock /\ ex'[c].it = ex[c].it + 1 /\ ex'[c].expected = ex[c].expected
      /\ ex'[c].type = ex[c].type /\ ex'[c].client_state = ex[c].client_state
      /\ ex'[c].current_weight = after /\ ex'[c].begin = ex[c].begin /\ ex'[c].warm = ex[c].warm
      /\ ex'[c].measured = ex[c].measured /\ ex'[c].throttled = ex[c].throttled
  BY <1>1, <1>6 DEF Executors
<1>8. Task(c)' = Task(c) /\ Kind(c)' = Kind(c) /\ Warmup(c)' = Warmup(c) /\ Length(c)' = Length(c)
  BY TaskStays
<1> HIDE DEF r
<1>9. RequestsInTime(c)'
  BY <1>1, <1>7 DEF RequestsInTime
<1>10. RateInTime(c)'
  <2>1. RateInTime(c) /\ ex[c].throttled * Task(c).interval <= ex[c].expected
    BY DEF ClientInv, RateInTime
  <2> QED
    BY <1>2, <1>3, <1>7, <1>8, <2>1 DEF RateInTime
<1>11. InOrder(c)'
  <2>1. InOrder(c) /\ Warmup(c) \in Nat /\ Length(c) \in Optional
    BY <1>1, ControlTyped DEF ClientInv, Warmup, Length
  <2> SUFFICES ASSUME Kind(c) = "iterations" PROVE InOrder(c)'
    BY <1>8 DEF InOrder
  <2>2. /\ ex[c].warm + ex[c].measured = ex[c].it + 1
        /\ ex[c].warm <= Warmup(c) /\ (ex[c].measured > 0 => ex[c].warm = Warmup(c))
        /\ Length(c) # None => ex[c].it < Warmup(c) + Length(c)
    BY <2>1 DEF InOrder
  <2>3. Length(c) # None => ex[c].it + 1 <= Warmup(c) + Length(c)
    BY <1>2, <2>1, <2>2 DEF Optional
  <2> QED
    BY <1>7, <1>8, <2>2, <2>3 DEF InOrder
<1>12. Exact(c)' /\ PausedInRedline(c)'
  BY <1>7, <1>8 DEF ClientInv, Exact, PausedInRedline
<1>13. IsGood(c, last[c])'
  <2>1. ex'[c] \in Executors /\ ex[c].now <= ex'[c].now /\ ex[c].it <= ex'[c].it
    BY <1>1, <1>2, <1>6, <1>7 DEF ClientInv, RequestsInTime
  <2>2. SampleType(Task(c), ex[c]) = "Normal" => SampleType(Task(c), ex'[c]) = "Normal"
    BY <1>1, <2>1, WarmupPasses
  <2> QED
    BY <1>8, <2>2 DEF IsGood
<1> QED
  BY <1>6, <1>9, <1>10, <1>11, <1>12, <1>13 DEF ClientInv

\* A client that ends keeps its counts; whether they are exact depends on how it ends.
LEMMA EndsMoves ==
    ASSUME LoadTypeOK, NEW c \in Clients, ClientInv(c), ClientEnds(c), IsGood(c, last'[c]),
           UNCHANGED <<scenario, clock, enabled, cancel>>,
           \/ ~ (Kind(c) = "iterations" /\ Length(c) # None /\ ~ cancel /\ ex[c].params # 0
                   /\ ~ Task(c).runner_completes
                   /\ (~ complete' \/ (Task(c).completes_parent /\ ~ scenario.redline)))
           \/ ex[c].warm = Warmup(c) /\ ex[c].measured = Length(c)
    PROVE  ex' \in [Clients -> Executors] /\ ClientInv(c)' /\ \A d \in Clients \ {c} : ex'[d] = ex[d]
<1>1. ex[c] \in Executors /\ clock \in Nat /\ Task(c) \in TaskDefinitions
  BY ExecutorTyped, TaskTyped
<1> DEFINE r == [ex[c] EXCEPT !.pc = "done"]
<1>2. r \in Executors /\ ex' = [ex EXCEPT ![c] = r]
  BY <1>1 DEF Executors, ClientEnds, Ended
<1>3. ex' \in [Clients -> Executors] /\ ex'[c] = r /\ \A d \in Clients \ {c} : ex'[d] = ex[d]
  <2> HIDE DEF r
  <2> QED
    BY <1>2, OneExecutor
<1>4. /\ ex'[c].pc = "done" /\ ex'[c].now = ex[c].now /\ ex'[c].it = ex[c].it /\ ex'[c].expected = ex[c].expected
      /\ ex'[c].type = ex[c].type /\ ex'[c].client_state = ex[c].client_state /\ ex'[c].params = ex[c].params
      /\ ex'[c].current_weight = ex[c].current_weight /\ ex'[c].begin = ex[c].begin /\ ex'[c].warm = ex[c].warm
      /\ ex'[c].measured = ex[c].measured /\ ex'[c].throttled = ex[c].throttled
  BY <1>1, <1>3 DEF Executors
<1> HIDE DEF r
<1>5. Task(c)' = Task(c) /\ Kind(c)' = Kind(c) /\ Warmup(c)' = Warmup(c) /\ Length(c)' = Length(c)
  BY TaskStays
<1>6. SampleType(Task(c), ex'[c]) = SampleType(Task(c), ex[c])
  BY <1>4 DEF SampleType
<1>7. RequestsInTime(c)' /\ RateInTime(c)' /\ InOrder(c)'
  BY <1>4, <1>5 DEF ClientInv, RequestsInTime, RateInTime, InOrder
<1>8. Exact(c)'
  BY <1>4, <1>5 DEF Exact
<1>9. PausedInRedline(c)'
  BY <1>4, <1>5 DEF ClientInv, PausedInRedline
<1>10. IsGood(c, last[c])'
  BY <1>5, <1>6 DEF IsGood
<1> QED
  BY <1>3, <1>7, <1>8, <1>9, <1>10 DEF ClientInv

LEMMA SamplesStayGood == ASSUME NEW c \in Clients, ClientInv(c) PROVE IsGood(c, last[c])
  BY DEF ClientInv

LEMMA ScheduleEndsMoves ==
    ASSUME LoadTypeOK, NEW c \in Clients, ClientInv(c), ScheduleEnds(c)
    PROVE  ex' \in [Clients -> Executors] /\ ClientInv(c)' /\ \A d \in Clients \ {c} : ex'[d] = ex[d]
<1>1. ex[c] \in Executors /\ Task(c) \in TaskDefinitions /\ ex[c].pc = "next"
  BY ExecutorTyped, TaskTyped DEF ScheduleEnds
<1>2. /\ Warmup(c) \in Nat /\ Length(c) \in Optional /\ (Kind(c) = "iterations" => Length(c) # 0)
      /\ ex[c].it \in Nat /\ ex[c].warm \in Nat /\ ex[c].measured \in Nat
  BY <1>1, ControlTyped DEF Warmup, Length, Kind, Executors
<1>3. ASSUME Kind(c) = "iterations", Length(c) # None, ~ cancel, ex[c].params # 0
      PROVE  ex[c].warm = Warmup(c) /\ ex[c].measured = Length(c)
  <2>1. ex[c].it >= Warmup(c) + Length(c)
    BY <1>3 DEF ScheduleEnds, HasNext, Infinite, ControlCompleted, Kind, Warmup, Length
  <2>2. /\ ex[c].warm + ex[c].measured = ex[c].it /\ ex[c].it <= Warmup(c) + Length(c)
        /\ ex[c].warm <= Warmup(c) /\ (ex[c].measured > 0 => ex[c].warm = Warmup(c))
    BY <1>1, <1>3 DEF ClientInv, InOrder
  <2> QED
    BY <1>2, <1>3, <2>1, <2>2 DEF Optional, None
<1> QED
  BY <1>3, EndsMoves, SamplesStayGood DEF ScheduleEnds

LEMMA SkipEndsMoves ==
    ASSUME LoadTypeOK, NEW c \in Clients, ClientInv(c), SkipEnds(c)
    PROVE  ex' \in [Clients -> Executors] /\ ClientInv(c)' /\ \A d \in Clients \ {c} : ex'[d] = ex[d]
<1>1. ex[c].pc = "skip" /\ scenario.redline /\ last' = last /\ UNCHANGED <<scenario, clock, enabled, cancel>>
  BY DEF SkipEnds, ClientInv, PausedInRedline
<1>2. IsGood(c, last'[c])
  BY <1>1, SamplesStayGood
<1>3. CASE complete
  <2>1. ClientEnds(c) /\ complete'
    BY <1>3, TaskTyped DEF SkipEnds, ClientEnds, SignalsCompletion
  <2> QED
    BY <1>1, <1>2, <2>1, EndsMoves
<1>4. CASE ~ complete
  <2>1. Continues(c, 0)
    BY <1>4 DEF SkipEnds
  <2> QED
    BY <1>1, <1>2, <2>1, ContinuesMoves
<1> QED
  BY <1>3, <1>4

\* What an executor records of a request that has ended
LEMMA SampleIsGood ==
    ASSUME LoadTypeOK, NEW c \in Clients, ClientInv(c), ex[c].pc = "request",
           NEW answer \in {"success", "failure", "transport", "connection", "timeout"},
           answer \in {"success", "timeout"} \/ Task(c).on_error # "abort" \/ scenario.redline
    PROVE  Sample(c, answer) \in Samples /\ IsGood(c, Sample(c, answer))
<1>1. ex[c] \in Executors /\ clock \in Nat /\ Task(c) \in TaskDefinitions
  BY ExecutorTyped, TaskTyped
<1>2. /\ ex[c].begin \in Nat /\ ex[c].expected \in Nat /\ ex[c].expected <= ex[c].begin /\ ex[c].begin <= clock
      /\ ex[c].type \in {"none", "Warmup", "Normal"} /\ ex[c].type = SampleType(Task(c), ex[c])
  BY <1>1 DEF Executors, ClientInv, RequestsInTime
<1> DEFINE start == RequestStart(c, answer)
           late == IF ex[c].expected > 0 THEN clock - ex[c].expected ELSE clock - start
<1>3. start \in Nat /\ start >= ex[c].begin /\ start <= clock
  BY <1>1, <1>2 DEF RequestStart
<1>4. Sample(c, answer) = [type |-> ex[c].type, success |-> answer = "success", answer |-> answer,
                           service |-> clock - start, latency |-> late, processing |-> clock - ex[c].begin]
  BY DEF Sample
<1> HIDE DEF start
<1>5. late \in Int /\ late >= clock - start /\ clock - ex[c].begin >= clock - start
  BY <1>1, <1>2, <1>3
<1> HIDE DEF late
<1>6. /\ Sample(c, answer).type = ex[c].type /\ Sample(c, answer).answer = answer
      /\ Sample(c, answer).success = (answer = "success")
      /\ Sample(c, answer).service = clock - start /\ Sample(c, answer).latency = late
      /\ Sample(c, answer).processing = clock - ex[c].begin
  BY <1>4
<1>7. Sample(c, answer) \in Samples
  <2>1. (answer = "success") \in BOOLEAN /\ clock - start \in Int /\ clock - ex[c].begin \in Int
    BY <1>1, <1>2, <1>3
  <2> QED
    BY <1>2, <1>4, <1>5, <2>1 DEF Samples
<1> QED
  BY <1>2, <1>5, <1>6, <1>7 DEF IsGood

-----------------------------------------------------------------------------
(* Every step keeps the invariant *)

LEMMA OneClientKeeps ==
    ASSUME LoadInv, NEW c \in Clients, ClientInv(c)',
           ex' \in [Clients -> Executors], \A d \in Clients \ {c} : ex'[d] = ex[d],
           last' \in [Clients -> Samples], \A d \in Clients \ {c} : last'[d] = last[d],
           UNCHANGED <<scenario, clock, enabled, cancel, failure>>,
           complete' \in BOOLEAN, complete => complete', errors' \in 0 .. ErrorQueueSize
    PROVE  LoadInv'
<1>1. LoadTypeOK /\ RedlineSurvivesFailures
  BY DEF LoadInv
<1>2. LoadTypeOK' /\ RedlineSurvivesFailures'
  BY <1>1 DEF LoadTypeOK, RedlineSurvivesFailures
<1>3. ASSUME NEW d \in Clients PROVE ClientInv(d)'
  <2>1. CASE d = c
    BY <2>1
  <2>2. CASE d # c
    <3>1. clock \in Nat
      BY <1>1, ExecutorTyped
    <3>2. Aside(d)
      BY <2>2, <3>1 DEF Aside
    <3> QED
      BY <1>1, <3>2, AsideKeeps DEF LoadInv
  <2> QED
    BY <2>1, <2>2
<1> QED
  BY <1>2, <1>3 DEF LoadInv

\* An exception gives up all coroutines of the gather; their samples and counts stay.
LEMMA RaiseKeeps ==
    ASSUME LoadInv, NEW c \in Clients, NEW why \in {"answer", "KeyError", "exception", "unit"},
           scenario.redline => why # "answer", ExecutorRaises(c, why),
           UNCHANGED <<scenario, clock, enabled, cancel, last>>, errors' \in 0 .. ErrorQueueSize
    PROVE  LoadInv'
<1>1. LoadTypeOK /\ Task(c) \in TaskDefinitions
  BY TaskTyped DEF LoadInv
<1>2. ex' = [d \in Clients |-> IF d = c THEN [ex[d] EXCEPT !.pc = "raised"]
                               ELSE IF ex[d].pc \in Ended THEN ex[d] ELSE [ex[d] EXCEPT !.pc = "abandoned"]]
      /\ failure' = why /\ complete' = (complete \/ Task(c).completes_parent)
  BY DEF ExecutorRaises, SignalsCompletion
<1>3. ASSUME NEW d \in Clients
      PROVE  ex'[d] \in Executors /\ (ex'[d] = ex[d] \/ \E p \in {"raised", "abandoned"} : ex'[d] = [ex[d] EXCEPT !.pc = p])
  <2>1. ex[d] \in Executors
    BY <1>1, ExecutorTyped
  <2>2. PICK p \in {"same", "raised", "abandoned"} :
          ex'[d] = IF p = "same" THEN ex[d] ELSE [ex[d] EXCEPT !.pc = p]
    BY <1>2
  <2>3. [ex[d] EXCEPT !.pc = "raised"] \in Executors /\ [ex[d] EXCEPT !.pc = "abandoned"] \in Executors
    BY <2>1 DEF Executors, Ended
  <2> QED
    BY <2>1, <2>2, <2>3
<1>4. complete' \in BOOLEAN /\ (complete => complete')
  BY <1>1, <1>2 DEF LoadTypeOK, TaskDefinitions
<1>5. LoadTypeOK'
  <2>1. ex' \in [Clients -> Executors]
    BY <1>2, <1>3
  <2> QED
    BY <1>1, <1>2, <1>4, <2>1 DEF LoadTypeOK
<1>6. RedlineSurvivesFailures'
  BY <1>2 DEF RedlineSurvivesFailures
<1>7. ASSUME NEW d \in Clients PROVE ClientInv(d)'
  <2>1. clock \in Nat
    BY <1>1, ExecutorTyped
  <2>2. Aside(d)
    BY <1>3, <1>4, <2>1 DEF Aside
  <2> QED
    BY <1>1, <2>2, AsideKeeps DEF LoadInv
<1> QED
  BY <1>5, <1>6, <1>7 DEF LoadInv

LEMMA ProcessResultsKeeps ==
    ASSUME LoadInv, NEW c \in Clients, ex[c].pc = "request",
           NEW answer \in {"success", "failure", "transport", "connection", "timeout"},
           answer \in {"success", "timeout"} \/ Task(c).on_error # "abort" \/ scenario.redline,
           NEW weight \in Nat, NEW completed \in BOOLEAN, completed => Task(c).runner_completes,
           ProcessResults(c, answer, weight, completed), UNCHANGED <<scenario, cancel, clock, enabled>>
    PROVE  LoadInv'
<1>1. LoadTypeOK /\ ClientInv(c) /\ Task(c) \in TaskDefinitions
  BY TaskTyped DEF LoadInv
<1>2. errors' \in 0 .. ErrorQueueSize
  BY <1>1, LoadConstants DEF ProcessResults, ReportsError, LoadTypeOK
<1>3. CASE UnitMismatch(Task(c), ex[c], weight)
  <2>1. ExecutorRaises(c, "unit") /\ UNCHANGED last
    BY <1>3 DEF ProcessResults
  <2> QED
    BY <1>2, <2>1, RaiseKeeps
<1>4. CASE ~ UnitMismatch(Task(c), ex[c], weight)
  <2>1. /\ last' = [last EXCEPT ![c] = Sample(c, answer)]
        /\ IF completed \/ (complete /\ ~ Task(c).completes_parent)
           THEN ClientEnds(c) ELSE Continues(c, weight) /\ UNCHANGED complete
        /\ failure' = failure
    BY <1>4 DEF ProcessResults
  <2>2. Sample(c, answer) \in Samples /\ IsGood(c, Sample(c, answer))
    BY <1>1, SampleIsGood
  <2>3. last' \in [Clients -> Samples] /\ last'[c] = Sample(c, answer) /\ \A d \in Clients \ {c} : last'[d] = last[d]
    BY <1>1, <2>1, <2>2, OneSample
  <2>4. IsGood(c, last'[c])
    BY <2>2, <2>3
  <2>5. CASE completed \/ (complete /\ ~ Task(c).completes_parent)
    <3>1. ClientEnds(c) /\ complete' = (complete \/ Task(c).completes_parent)
      BY <2>1, <2>5 DEF ClientEnds, SignalsCompletion
    <3>2. complete' \in BOOLEAN /\ (complete => complete')
      BY <1>1, <3>1 DEF LoadTypeOK, TaskDefinitions
    <3>3. completed => Task(c).runner_completes
      OBVIOUS
    <3>4. ~ (~ Task(c).runner_completes /\ (~ complete' \/ (Task(c).completes_parent /\ ~ scenario.redline)))
      BY <2>5, <3>2, <3>3
    <3>5. ex' \in [Clients -> Executors] /\ ClientInv(c)' /\ \A d \in Clients \ {c} : ex'[d] = ex[d]
      BY <1>1, <2>4, <3>1, <3>4, EndsMoves
    <3> QED
      BY <1>2, <2>1, <2>3, <3>2, <3>5, OneClientKeeps
  <2>6. CASE ~ (completed \/ (complete /\ ~ Task(c).completes_parent))
    <3>1. Continues(c, weight) /\ complete' = complete
      BY <2>1, <2>6
    <3>2. ex' \in [Clients -> Executors] /\ ClientInv(c)' /\ \A d \in Clients \ {c} : ex'[d] = ex[d]
      BY <1>1, <2>4, <3>1, ContinuesMoves
    <3>3. complete' \in BOOLEAN /\ (complete => complete')
      BY <1>1, <3>1 DEF LoadTypeOK
    <3> QED
      BY <1>2, <2>1, <2>3, <3>2, <3>3, OneClientKeeps
  <2> QED
    BY <2>5, <2>6
<1> QED
  BY <1>3, <1>4

LEMMA RequestEndsKeeps ==
    ASSUME LoadInv, NEW c \in Clients, RequestEnds(c)
    PROVE  LoadInv'
<1>1. LoadTypeOK /\ Task(c) \in TaskDefinitions /\ ex[c].pc = "request" /\ UNCHANGED <<scenario, cancel, clock, enabled>>
  BY TaskTyped DEF LoadInv, RequestEnds
<1>2. PICK a \in Answers(Task(c)) :
        IF Raises(Task(c), a.answer)
        THEN /\ ExecutorRaises(c, IF a.answer \in {"KeyError", "exception"} THEN a.answer ELSE "answer")
             /\ UNCHANGED <<errors, last>>
        ELSE ProcessResults(c, a.answer, a.weight, a.completed)
  BY DEF RequestEnds
<1>3. /\ a.answer \in {"success", "failure", "transport", "connection", "KeyError", "exception"}
      /\ a.weight \in Nat /\ a.completed \in BOOLEAN /\ (a.completed => Task(c).runner_completes)
  <2> DEFINE flags == IF Task(c).runner_completes THEN BOOLEAN ELSE {FALSE}
  <2>1. flags \subseteq BOOLEAN /\ \A b \in flags : b => Task(c).runner_completes
    BY <1>1 DEF TaskDefinitions
  <2>2. \/ a \in [answer : {"success", "failure"}, weight : Weights, completed : flags]
        \/ a \in [answer : {"transport", "connection", "KeyError", "exception"}, weight : {0}, completed : {FALSE}]
    BY DEF Answers
  <2>3. Weights \subseteq Nat
    BY LoadConstants
  <2> HIDE DEF flags
  <2>4. CASE a \in [answer : {"success", "failure"}, weight : Weights, completed : flags]
    <3>1. a.answer \in {"success", "failure"} /\ a.weight \in Weights /\ a.completed \in flags
      BY <2>4
    <3> QED
      BY <2>1, <2>3, <3>1
  <2>5. CASE a \in [answer : {"transport", "connection", "KeyError", "exception"}, weight : {0}, completed : {FALSE}]
    <3>1. a.answer \in {"transport", "connection", "KeyError", "exception"} /\ a.weight = 0 /\ a.completed = FALSE
      BY <2>5
    <3>2. a.weight \in Nat
      BY <3>1
    <3>3. a.completed \in BOOLEAN /\ ~ a.completed
      BY <3>1
    <3>4. a.answer \in {"success", "failure", "transport", "connection", "KeyError", "exception"}
      BY <3>1
    <3> QED
      BY <3>2, <3>3, <3>4
  <2> QED
    BY <2>2, <2>4, <2>5
<1>4. CASE Raises(Task(c), a.answer)
  <2>1. PICK why \in {"answer", "KeyError", "exception"} :
          why = IF a.answer \in {"KeyError", "exception"} THEN a.answer ELSE "answer"
    BY <1>3
  <2>2. ExecutorRaises(c, why) /\ UNCHANGED <<errors, last>>
    BY <1>2, <1>4, <2>1
  <2>3. scenario.redline => why # "answer"
    BY <1>4, <2>1 DEF Raises
  <2>4. errors' \in 0 .. ErrorQueueSize
    BY <1>1, <2>2 DEF LoadTypeOK
  <2> QED
    BY <1>1, <2>2, <2>3, <2>4, RaiseKeeps
<1>5. CASE ~ Raises(Task(c), a.answer)
  <2>1. ProcessResults(c, a.answer, a.weight, a.completed)
    BY <1>2, <1>5
  <2>2. /\ a.answer \in {"success", "failure", "transport", "connection", "timeout"}
        /\ a.answer \in {"success", "timeout"} \/ Task(c).on_error # "abort" \/ scenario.redline
    BY <1>3, <1>5 DEF Raises
  <2> QED
    BY <1>1, <1>3, <2>1, <2>2, ProcessResultsKeeps
<1> QED
  BY <1>4, <1>5

\* Steps that are no client's
LEMMA OthersKeep ==
    ASSUME LoadInv, LoadTypeOK', RedlineSurvivesFailures', \A c \in Clients : Aside(c)
    PROVE  LoadInv'
  BY AsideKeeps DEF LoadInv

LEMMA LoadNextKeeps == LoadInv /\ [LoadNext]_loadVars => LoadInv'
<1> SUFFICES ASSUME LoadInv, [LoadNext]_loadVars PROVE LoadInv'
  OBVIOUS
<1>1. LoadTypeOK /\ RedlineSurvivesFailures /\ (\A c \in Clients : ClientInv(c)) /\ clock \in Nat
  BY LoadConstants DEF LoadInv, LoadTypeOK
<1>2. ASSUME NEW c \in Clients, RampUp(c) \/ Invocation(c) \/ Begin(c) PROVE LoadInv'
  <2>1. UNCHANGED <<scenario, cancel, clock, complete, enabled, errors, last, failure>>
    BY <1>2 DEF RampUp, Invocation, Begin
  <2>2. ex' \in [Clients -> Executors] /\ ClientInv(c)' /\ \A d \in Clients \ {c} : ex'[d] = ex[d]
    BY <1>1, <1>2, RampUpMoves, InvocationMoves, BeginMoves
  <2>3. complete' \in BOOLEAN /\ errors' \in 0 .. ErrorQueueSize /\ last' \in [Clients -> Samples]
    BY <1>1, <2>1 DEF LoadTypeOK
  <2> QED
    BY <2>1, <2>2, <2>3, OneClientKeeps
<1>3. ASSUME NEW c \in Clients, ScheduleEnds(c) \/ SkipEnds(c) PROVE LoadInv'
  <2>1. UNCHANGED <<scenario, cancel, clock, enabled, errors, last, failure>>
    BY <1>3 DEF ScheduleEnds, SkipEnds
  <2>2. ex' \in [Clients -> Executors] /\ ClientInv(c)' /\ \A d \in Clients \ {c} : ex'[d] = ex[d]
    BY <1>1, <1>3, ScheduleEndsMoves, SkipEndsMoves
  <2>3. complete' = complete \/ complete' = (complete \/ Task(c).completes_parent)
    BY <1>3 DEF ScheduleEnds, SkipEnds, ClientEnds, SignalsCompletion
  <2>4. complete' \in BOOLEAN /\ (complete => complete')
    BY <1>1, <2>3, TaskTyped DEF LoadTypeOK, TaskDefinitions
  <2>5. errors' \in 0 .. ErrorQueueSize /\ last' \in [Clients -> Samples]
    BY <1>1, <2>1 DEF LoadTypeOK
  <2> QED
    BY <2>1, <2>2, <2>4, <2>5, OneClientKeeps
<1>4. ASSUME NEW c \in Clients, RequestEnds(c) PROVE LoadInv'
  BY <1>4, RequestEndsKeeps
<1>5. ASSUME NEW c \in Clients, RequestTimesOut(c) PROVE LoadInv'
  <2>1. ex[c].pc = "request" /\ ProcessResults(c, "timeout", 0, FALSE) /\ UNCHANGED <<scenario, cancel, clock, enabled>>
    BY <1>5 DEF RequestTimesOut
  <2>2. 0 \in Nat
    OBVIOUS
  <2> QED
    BY <2>1, <2>2, ProcessResultsKeeps
<1>6. ASSUME NEW c \in Clients, SetClientState(c) PROVE LoadInv'
  <2>1. LoadTypeOK'
    BY <1>1, <1>6 DEF SetClientState, LoadTypeOK
  <2>2. RedlineSurvivesFailures'
    BY <1>1, <1>6 DEF SetClientState, RedlineSurvivesFailures
  <2>3. \A d \in Clients : Aside(d)
    BY <1>1, <1>6 DEF SetClientState, Aside
  <2> QED
    BY <2>1, <2>2, <2>3, OthersKeep
<1>7. ASSUME Cancel PROVE LoadInv'
  <2>1. LoadTypeOK' /\ RedlineSurvivesFailures'
    BY <1>1, <1>7 DEF Cancel, LoadTypeOK, RedlineSurvivesFailures
  <2>2. \A d \in Clients : Aside(d)
    BY <1>1, <1>7 DEF Cancel, Aside
  <2> QED
    BY <2>1, <2>2, OthersKeep
<1>8. ASSUME Tick PROVE LoadInv'
  <2>1. UNCHANGED <<scenario, cancel, complete, enabled, errors, ex, last, failure>> /\ clock' = clock + 1 /\ clock < MaxTime
    BY <1>8 DEF Tick
  <2>2. clock' \in 0 .. MaxTime
    BY <1>1, <2>1, LoadConstants
  <2>3. LoadTypeOK' /\ RedlineSurvivesFailures'
    BY <1>1, <2>1, <2>2 DEF LoadTypeOK, RedlineSurvivesFailures
  <2>4. \A d \in Clients : Aside(d)
    BY <1>1, <2>1 DEF Aside
  <2> QED
    BY <2>3, <2>4, OthersKeep
<1>9. ASSUME UNCHANGED loadVars PROVE LoadInv'
  <2>1. LoadTypeOK' /\ RedlineSurvivesFailures'
    BY <1>1, <1>9 DEF loadVars, LoadTypeOK, RedlineSurvivesFailures
  <2>2. \A d \in Clients : Aside(d)
    BY <1>1, <1>9 DEF loadVars, Aside
  <2> QED
    BY <2>1, <2>2, OthersKeep
<1> QED
  BY <1>2, <1>3, <1>4, <1>5, <1>6, <1>7, <1>8, <1>9 DEF LoadNext, Step

-----------------------------------------------------------------------------
(* What the invariant says of the properties *)

LEMMA LoadInitOK == LoadInit => LoadInv
<1> SUFFICES ASSUME LoadInit PROVE LoadInv
  OBVIOUS
<1>1. scenario \in [redline : BOOLEAN, timed : BOOLEAN, tasks : [Clients -> TaskDefinitions]]
  BY LoadAssumption DEF LoadInit
<1>2. ASSUME NEW c \in Clients
      PROVE  /\ ex[c] = [pc |-> "rampup", now |-> 0, it |-> 0, expected |-> 0, type |-> "none", client_state |-> TRUE,
                         params |-> Task(c).params, current_weight |-> 0, begin |-> 0,
                         warm |-> 0, measured |-> 0, throttled |-> 0]
             /\ last[c] = NoSample
             /\ Task(c) \in TaskDefinitions /\ enabled[c] = TRUE
             /\ ex[c] \in Executors /\ last[c] \in Samples
  <2>1. Task(c) \in TaskDefinitions
    BY <1>1 DEF Task
  <2>2. Task(c).params \in Optional
    BY <2>1 DEF TaskDefinitions
  <2>3. last[c] = NoSample /\ NoSample \in Samples
    BY DEF LoadInit, NoSample, Samples
  <2> QED
    BY <2>1, <2>2, <2>3 DEF LoadInit, Executors, Ended
<1>3. LoadTypeOK
  <2>1. ex \in [Clients -> Executors] /\ last \in [Clients -> Samples]
    BY <1>2 DEF LoadInit
  <2>2. enabled \in [Clients -> BOOLEAN] /\ complete \in BOOLEAN /\ cancel \in BOOLEAN
    BY DEF LoadInit
  <2>3. clock \in 0 .. MaxTime /\ errors \in 0 .. ErrorQueueSize
    BY LoadConstants DEF LoadInit
  <2> QED
    BY <2>1, <2>2, <2>3 DEF LoadInit, LoadTypeOK
<1>4. RedlineSurvivesFailures
  BY DEF LoadInit, RedlineSurvivesFailures
<1>5. ASSUME NEW c \in Clients PROVE ClientInv(c)
  <2>0. ex[c] = [pc |-> "rampup", now |-> 0, it |-> 0, expected |-> 0, type |-> "none", client_state |-> TRUE,
                 params |-> Task(c).params, current_weight |-> 0, begin |-> 0,
                 warm |-> 0, measured |-> 0, throttled |-> 0]
        /\ last[c] = NoSample
    BY <1>2
  <2>1. /\ ex[c].pc = "rampup" /\ ex[c].now = 0 /\ ex[c].it = 0 /\ ex[c].expected = 0 /\ ex[c].client_state = TRUE
        /\ ex[c].current_weight = 0 /\ ex[c].warm = 0 /\ ex[c].measured = 0 /\ ex[c].throttled = 0
    BY <2>0
  <2>2. last[c].type = "none" /\ last[c].success = TRUE /\ last[c].latency = 0 /\ last[c].service = 0 /\ last[c].processing = 0
    BY <2>0 DEF NoSample
  <2>3. clock = 0 /\ Task(c).interval \in Nat /\ 0 * Task(c).interval = 0
    BY <1>2 DEF LoadInit, TaskDefinitions
  <2>4. Warmup(c) \in Nat /\ Length(c) \in Optional
    BY <1>2, ControlTyped DEF Warmup, Length
  <2>5. RequestsInTime(c) /\ IsGood(c, last[c])
    BY <2>1, <2>2, <2>3 DEF RequestsInTime, IsGood
  <2>6. RateInTime(c)
    BY <2>1, <2>3 DEF RateInTime
  <2>7. InOrder(c)
    BY <2>1, <2>4 DEF InOrder, Optional, None
  <2>8. Exact(c) /\ PausedInRedline(c)
    BY <1>2, <2>1 DEF Exact, PausedInRedline
  <2> QED
    BY <2>5, <2>6, <2>7, <2>8 DEF ClientInv
<1> QED
  BY <1>3, <1>4, <1>5 DEF LoadInv

LEMMA ErrorsFollow == LoadInv => ErrorsHaveConsequences
  BY DEF LoadInv, ClientInv, IsGood, ErrorsHaveConsequences, OnlyTimeoutsSurviveAbort

\* Errors abort the benchmark when they are meant to, but for timeouts, and never end a redline
\* test, for any tasks, clients, answers and interleavings.
THEOREM ErrorsConsequential == LoadSpec => []ErrorsHaveConsequences
<1>1. LoadInit => LoadInv
  BY LoadInitOK
<1>2. LoadInv /\ [LoadNext]_loadVars => LoadInv'
  BY LoadNextKeeps
<1>3. LoadInv => ErrorsHaveConsequences
  BY ErrorsFollow
<1> QED
  BY <1>1, <1>2, <1>3, PTL DEF LoadSpec

\* Of two clients of a task the one with the lower index stops first.
LEMMA LaterStopsLater ==
    ASSUME NEW n \in Nat, NEW r \in Nat, NEW i \in Nat, NEW j \in Nat, i < j
    PROVE  r * ((n - 1) - j) \in Int /\ r * ((n - 1) - i) \in Int /\ r * ((n - 1) - j) <= r * ((n - 1) - i)
<1> DEFINE a == (n - 1) - j
           b == j - i
<1>1. a \in Int /\ b \in Nat /\ (n - 1) - i = a + b
  OBVIOUS
<1> HIDE DEF a, b
<1>2. r * a \in Int /\ r * b \in Nat /\ r * (a + b) = r * a + r * b
  BY <1>1
<1>3. r * a <= r * (a + b)
  BY <1>2
<1> QED
  BY <1>1, <1>2, <1>3 DEF a

LEMMA RampDownOrdered == LoadInv => RampDownInOrder
<1> SUFFICES ASSUME LoadInv, NEW c \in Clients, NEW d \in Clients, SameTask(c, d),
                    Kind(c) = "time", ~ Infinite(Task(c)), Task(c).client_index < Task(d).client_index,
                    ControlCompleted(Task(d), [ex[d] EXCEPT !.now = clock])
             PROVE  ControlCompleted(Task(c), [ex[c] EXCEPT !.now = clock])
  BY DEF RampDownInOrder, Kind
<1>1. LoadTypeOK /\ Task(c) \in TaskDefinitions /\ Task(d) \in TaskDefinitions /\ ex[c] \in Executors /\ ex[d] \in Executors
      /\ clock \in Nat
  BY TaskTyped, ExecutorTyped DEF LoadInv
<1>2. /\ Task(d).clients = Task(c).clients /\ Task(d).ramp_down_time_period = Task(c).ramp_down_time_period
      /\ LoopControl(Task(d)) = LoopControl(Task(c))
  <2>1. /\ Task(d).warmup_iterations = Task(c).warmup_iterations /\ Task(d).iterations = Task(c).iterations
        /\ Task(d).warmup_time_period = Task(c).warmup_time_period /\ Task(d).time_period = Task(c).time_period
        /\ Task(d).ramp_down_time_period = Task(c).ramp_down_time_period /\ Task(d).clients = Task(c).clients
        /\ Task(d).params = Task(c).params /\ Task(d).runner_completes = Task(c).runner_completes
    BY <1>1 DEF SameTask, TaskDefinitions
  <2> QED
    BY <2>1 DEF LoopControl, RequiresTimePeriodSchedule
<1> DEFINE n == Task(c).clients
           i == Task(c).client_index
           j == Task(d).client_index
           r == OrZero(Task(c).ramp_down_time_period)
           whole == (Warmup(c) + Length(c)) * n
<1>3. n \in Nat /\ i \in Nat /\ j \in Nat /\ i < j /\ r \in Nat
  BY <1>1 DEF TaskDefinitions, Optional, OrZero, None
<1>4. Warmup(c) \in Nat /\ Length(c) \in Int
  BY <1>1, ControlTyped DEF Warmup, Length, Optional, None
<1>5. whole \in Int
  BY <1>3, <1>4
<1>6. ScaledDuration(Task(c)) = whole - r * ((n - 1) - i) /\ ScaledDuration(Task(d)) = whole - r * ((n - 1) - j)
  BY <1>2 DEF ScaledDuration, Warmup, Length
<1>7. r * ((n - 1) - j) \in Int /\ r * ((n - 1) - i) \in Int /\ r * ((n - 1) - j) <= r * ((n - 1) - i)
  <2> HIDE DEF n, i, j, r
  <2> QED
    BY <1>3, LaterStopsLater
<1>8. [ex[c] EXCEPT !.now = clock].now = clock /\ [ex[d] EXCEPT !.now = clock].now = clock
  BY <1>1 DEF Executors
<1>9. clock * n \in Nat /\ clock * n >= ScaledDuration(Task(d))
  BY <1>1, <1>2, <1>3, <1>8 DEF ControlCompleted, Kind
<1>10. clock * n >= ScaledDuration(Task(c))
  <2> HIDE DEF n, i, j, r, whole
  <2> QED
    BY <1>5, <1>6, <1>7, <1>9
<1> QED
  BY <1>8, <1>10 DEF ControlCompleted, Kind

LEMMA ScheduleFollows ==
    LoadInv => LatencyCoversServiceTime /\ RateIsBounded /\ IterationsAreExact
<1> SUFFICES ASSUME LoadInv PROVE LatencyCoversServiceTime /\ RateIsBounded /\ IterationsAreExact
  OBVIOUS
<1>1. LatencyCoversServiceTime
  BY DEF LoadInv, ClientInv, IsGood, LatencyCoversServiceTime
<1>2. RateIsBounded
  BY DEF LoadInv, ClientInv, RateInTime, RateIsBounded
<1>3. IterationsAreExact
  BY DEF LoadInv, ClientInv, Exact, IterationsAreExact, Kind, Warmup, Length, Infinite
<1> QED
  BY <1>1, <1>2, <1>3

\* The only samples that a step takes are of requests, and have the type of the invocation.
LEMMA WarmupOver == LoadInv /\ [LoadNext]_loadVars => WarmupNeverReturns
<1> SUFFICES ASSUME LoadInv, [LoadNext]_loadVars, NEW c \in Clients, last[c].type = "Normal"
             PROVE  last'[c].type = "Normal"
  BY DEF WarmupNeverReturns
<1>1. LoadTypeOK /\ last \in [Clients -> Samples]
  BY DEF LoadInv, LoadTypeOK
<1>2. ASSUME NEW d \in Clients, NEW answer, ex[d].pc = "request", last' = [last EXCEPT ![d] = Sample(d, answer)]
      PROVE  last'[c].type = "Normal"
  <2>1. CASE c # d
    BY <1>1, <1>2, <2>1
  <2>2. CASE c = d
    <3>1. last'[c].type = ex[c].type
      BY <1>1, <1>2, <2>2 DEF Sample
    <3>2. ex[c].type = SampleType(Task(c), ex[c])
      BY <1>2, <2>2 DEF LoadInv, ClientInv, RequestsInTime
    <3>3. SampleType(Task(c), ex[c]) = "Normal"
      BY DEF LoadInv, ClientInv, IsGood
    <3> QED
      BY <3>1, <3>2, <3>3
  <2> QED
    BY <2>1, <2>2
<1>3. ASSUME NEW d \in Clients, NEW answer, NEW weight, NEW completed, ex[d].pc = "request",
             ProcessResults(d, answer, weight, completed)
      PROVE  last'[c].type = "Normal"
  <2>1. UNCHANGED last \/ last' = [last EXCEPT ![d] = Sample(d, answer)]
    BY <1>3 DEF ProcessResults
  <2> QED
    BY <1>2, <1>3, <2>1
<1>4. ASSUME NEW d \in Clients, RequestEnds(d) PROVE last'[c].type = "Normal"
  <2>1. ex[d].pc = "request" /\ \E a \in Answers(Task(d)) :
          UNCHANGED last \/ ProcessResults(d, a.answer, a.weight, a.completed)
    BY <1>4 DEF RequestEnds
  <2> QED
    BY <1>3, <2>1
<1>5. ASSUME NEW d \in Clients, RequestTimesOut(d) PROVE last'[c].type = "Normal"
  BY <1>3, <1>5 DEF RequestTimesOut
<1>6. ASSUME UNCHANGED last PROVE last'[c].type = "Normal"
  BY <1>6
<1>7. CASE \E d \in Clients : RampUp(d) \/ Invocation(d) \/ ScheduleEnds(d) \/ Begin(d) \/ SkipEnds(d) \/ SetClientState(d)
  <2>1. UNCHANGED last
    BY <1>7 DEF RampUp, Invocation, ScheduleEnds, Begin, SkipEnds, SetClientState
  <2> QED
    BY <1>6, <2>1
<1>8. CASE Cancel \/ Tick \/ UNCHANGED loadVars
  BY <1>6, <1>8 DEF Cancel, Tick, loadVars
<1> QED
  BY <1>4, <1>5, <1>7, <1>8 DEF LoadNext, Step

\* Every step keeps to the schedule, whatever the target throughput, the tasks, the number of
\* clients and the feedback actor's doings: requests in their time and not too many, exact
\* iterations, an ordered ramp-down and a warm-up that is not repeated.
THEOREM ScheduleKept == LoadSpec => ScheduleIsKept
<1>1. LoadInit => LoadInv
  BY LoadInitOK
<1>2. LoadInv /\ [LoadNext]_loadVars => LoadInv'
  BY LoadNextKeeps
<1>3. LoadInv => LoadTypeOK /\ LatencyCoversServiceTime /\ RateIsBounded /\ IterationsAreExact /\ RampDownInOrder
  BY ScheduleFollows, RampDownOrdered DEF LoadInv
<1>4. LoadInv /\ [LoadNext]_loadVars => WarmupNeverReturns
  BY WarmupOver
<1> QED
  BY <1>1, <1>2, <1>3, <1>4, PTL DEF LoadSpec, ScheduleIsKept

-----------------------------------------------------------------------------
(***************************************************************************)
(* The runners (SolrOperations): what they report is what Solr has         *)
(* accepted, and shows once it is committed, whatever happens to their     *)
(* calls.                                                                  *)
(***************************************************************************)
StepsOf(type) ==
    CASE type = "bulk-index" -> {"add", "commit"}
      [] type = "paginated-search" -> {"page"}
      [] type = "wait-for-merges" -> {"metrics"}
      [] type = "create-collection" -> {"upload", "create", "delete-configset"}
      [] type = "delete-collection" -> {"delete", "delete-configset"}
      [] OTHER -> Single

\* What the counters of operation p say, of which Solr has accepted so many documents
BulkFits(p, o, accepted) ==
    p.type = "bulk-index" =>
        /\ o.batch <= Len(p.batches) /\ o.total <= accepted
        /\ o.step = "add" => o.batch > 0

\* A search has read what lies before its cursor.
PagesFit(p, o, docs) ==
    p.type = "paginated-search" => o.total = o.seen /\ o.seen <= docs /\ o.from <= docs

\* A creation that cleans up has a reason.
ReasonFits(p, o) == p.type = "create-collection" /\ o.step = "delete-configset" => o.why \in Results

UnderWay(c) ==
    op[c].step # "idle" =>
        /\ op[c].at > 0 /\ op[c].step \in StepsOf(Current(c).type)
        /\ BulkFits(Current(c), op[c], added[c][op[c].at])
        /\ NothingDeleted => PagesFit(Current(c), op[c], solr.searchable[Current(c).name])
        /\ ReasonFits(Current(c), op[c])

\* Every operation that has ended has its report, which is honest.
Reported(c) ==
    /\ Len(results[c]) = IF op[c].step = "idle" THEN op[c].at ELSE op[c].at - 1
    /\ \A i \in 1 .. Len(results[c]) :
          /\ script[c][i].type = "bulk-index" => results[c][i].total <= added[c][i]
          /\ NothingDeleted /\ script[c][i].type = "paginated-search" /\ results[c][i].result = "ok" =>
                results[c][i].from <= results[c][i].total /\ results[c][i].total <= results[c][i].docs

\* A call belongs to an operation of its owner; a live one to the step that the owner is in; one
\* that nobody waits for has a thread.
CallFits(k) ==
    /\ k.at \in 1 .. Len(script[k.owner])
    /\ k.call \in StepsOf(script[k.owner][k.at].type) /\ k.name = script[k.owner][k.at].name
    /\ ~ k.live => k.running
    /\ k.live =>
          /\ op[k.owner].step # "idle" /\ op[k.owner].at = k.at /\ op[k.owner].step = k.call
          /\ k.call = "add" => k.count = Current(k.owner).batches[op[k.owner].batch]

OneLiveCall == \A j, k \in calls : j.live /\ k.live /\ j.owner = k.owner => j = k

\* No document is searchable that has not been accepted.
Behind(s) == \A n \in Names : s.searchable[n] <= s.docs[n]

PoolFits == IsFiniteSet(calls) /\ Cardinality({k \in calls : k.running}) <= PoolSize

OperationsInv ==
    /\ OperationsTypeOK
    /\ \A c \in Callers : UnderWay(c) /\ Reported(c)
    /\ \A k \in calls : CallFits(k)
    /\ OneLiveCall /\ PoolFits
    /\ Behind(solr)

-----------------------------------------------------------------------------
(* Operations *)

LEMMA OperationFields ==
    ASSUME NEW p \in Operation
    PROVE  /\ p.name \in Names
           /\ p.type = "bulk-index" => p.batches \in Seq(Nat \ {0}) /\ p.batches # <<>> /\ p.commit \in BOOLEAN
           /\ p.type = "paginated-search" => p.rows \in Nat \ {0}
           /\ p.type = "create-collection" => p.upload \in BOOLEAN /\ p.cleanup \in BOOLEAN
           /\ p.type = "composite" => p.child \in Single
           /\ p.type \in Single \union {"wait-for-merges", "composite", "bulk-index", "paginated-search",
                                        "create-collection", "delete-collection"}
<1>1. CASE p \in [type : Single \union {"wait-for-merges"}, name : Names]
  BY <1>1 DEF Single
<1>2. CASE p \in [type : {"composite"}, name : Names, child : Single]
  BY <1>2 DEF Single
<1>3. CASE p \in [type : {"bulk-index"}, name : Names, batches : Seq(Nat \ {0}) \ {<<>>}, commit : BOOLEAN]
  BY <1>3
<1>4. CASE p \in [type : {"paginated-search"}, name : Names, rows : Nat \ {0}]
  BY <1>4
<1>5. CASE p \in [type : {"create-collection"}, name : Names, upload : BOOLEAN, cleanup : BOOLEAN]
  BY <1>5
<1>6. CASE p \in [type : {"delete-collection"}, name : Names, ignore_missing : BOOLEAN, cleanup : BOOLEAN]
  BY <1>6
<1> QED
  BY <1>1, <1>2, <1>3, <1>4, <1>5, <1>6 DEF Operation

LEMMA ScriptIsSequence ==
    ASSUME script \in Scripts, NEW c \in Callers
    PROVE  /\ script[c] \in Seq(Operation) /\ Len(script[c]) \in Nat
           /\ \A i \in 1 .. Len(script[c]) : script[c][i] \in Operation
<1>1. script \in [Callers -> Seq(Operation)]
  BY SolrAssumption
<1>2. script[c] \in Seq(Operation)
  BY <1>1
<1> QED
  BY <1>2

LEMMA StepsAreSteps ==
    ASSUME NEW type
    PROVE  StepsOf(type) \subseteq Steps \ ({"idle"} \union Results)
  BY DEF StepsOf, Steps, Single, Results

LEMMA OnlyDeletionsDelete ==
    ASSUME NEW type, "delete" \in StepsOf(type)
    PROVE  type = "delete-collection"
  BY DEF StepsOf, Single

LEMMA OnlyBulksAdd ==
    ASSUME NEW type
    PROVE  "add" \in StepsOf(type) <=> type = "bulk-index"
  BY DEF StepsOf, Single

-----------------------------------------------------------------------------
(* The server *)

SolrAnswers == {"ok", "exists", "missing", "refused", "error", "lost", "late"}

\* Server t has all documents of s and shows all that s shows.
Larger(s, t) == \A n \in Names : s.docs[n] <= t.docs[n] /\ s.searchable[n] <= t.searchable[n]

\* What an answer a to a call may have done to server s
Sound(s, call, a) ==
    /\ a.solr \in Server /\ a.answer \in SolrAnswers /\ Behind(a.solr)
    /\ call.call # "delete" => Larger(s, a.solr)
    /\ call.call = "add" /\ a.answer = "ok" /\ call.count # 0 => a.solr # s

LEMMA UnreliableAnswers ==
    ASSUME NEW s, NEW t, NEW a \in Unreliable(s, t)
    PROVE  a.solr \in {s, t} /\ a.answer \in {"error", "lost", "late"}
  BY DEF Unreliable, Answer

\* A call that leaves the documents alone keeps what is searchable.
LEMMA SameDocuments ==
    ASSUME NEW s \in Server, Behind(s), NEW t, t.docs = s.docs, t.searchable = s.searchable
    PROVE  Behind(t) /\ Larger(s, t)
<1>1. \A n \in Names : s.docs[n] \in Nat /\ s.searchable[n] \in Nat
  BY DEF Server
<1> QED
  BY <1>1 DEF Behind, Larger

LEMMA UploadIsSound ==
    ASSUME NEW s \in Server, Behind(s), NEW call \in HttpCalls, call.call = "upload",
           NEW a \in upload_configset(s, call.name)
    PROVE  Sound(s, call, a)
<1> DEFINE new == [s EXCEPT !.configsets = @ \union {call.name}]
<1>1. new \in Server /\ new.docs = s.docs /\ new.searchable = s.searchable
  BY DEF Server, HttpCalls
<1>2. a \in {Answer(new, "ok")} \union Unreliable(s, new)
  BY DEF upload_configset
<1> HIDE DEF new
<1>4. a.solr \in {s, new} /\ a.answer \in SolrAnswers
  BY <1>2, UnreliableAnswers DEF SolrAnswers, Answer
<1>5. Behind(a.solr) /\ Larger(s, a.solr)
  BY <1>1, <1>4, SameDocuments
<1> QED
  BY <1>1, <1>4, <1>5 DEF Sound

LEMMA DeleteConfigsetIsSound ==
    ASSUME NEW s \in Server, Behind(s), NEW call \in HttpCalls, call.call = "delete-configset",
           NEW a \in delete_configset(s, call.name)
    PROVE  Sound(s, call, a)
<1> DEFINE new == [s EXCEPT !.configsets = @ \ {call.name}]
<1>1. new \in Server /\ new.docs = s.docs /\ new.searchable = s.searchable
  BY DEF Server, HttpCalls
<1>2. a \in {Answer(s, "refused")} \union {Answer(new, "ok")} \union Unreliable(s, new)
  BY DEF delete_configset
<1> HIDE DEF new
<1>4. a.solr \in {s, new} /\ a.answer \in SolrAnswers
  BY <1>2, UnreliableAnswers DEF SolrAnswers, Answer
<1>5. Behind(a.solr) /\ Larger(s, a.solr)
  BY <1>1, <1>4, SameDocuments
<1> QED
  BY <1>1, <1>4, <1>5 DEF Sound

LEMMA CreateIsSound ==
    ASSUME NEW s \in Server, Behind(s), NEW call \in HttpCalls, call.call = "create",
           NEW a \in create_collection(s, call.name)
    PROVE  Sound(s, call, a)
<1> DEFINE new == [s EXCEPT !.collections = @ \union {call.name}]
<1>1. new \in Server /\ new.docs = s.docs /\ new.searchable = s.searchable
  BY DEF Server, HttpCalls
<1>2. a \in {Answer(s, "exists")} \union {Answer(s, "refused")} \union {Answer(new, "ok")} \union Unreliable(s, new)
  BY DEF create_collection
<1> HIDE DEF new
<1>4. a.solr \in {s, new} /\ a.answer \in SolrAnswers
  BY <1>2, UnreliableAnswers DEF SolrAnswers, Answer
<1>5. Behind(a.solr) /\ Larger(s, a.solr)
  BY <1>1, <1>4, SameDocuments
<1> QED
  BY <1>1, <1>4, <1>5 DEF Sound

LEMMA DeleteIsSound ==
    ASSUME NEW s \in Server, Behind(s), NEW call \in HttpCalls, call.call = "delete",
           NEW a \in delete_collection(s, call.name)
    PROVE  Sound(s, call, a)
<1> DEFINE new == [s EXCEPT !.collections = @ \ {call.name}, !.docs[call.name] = 0, !.searchable[call.name] = 0]
<1>1. new \in Server /\ Behind(new)
  <2> DEFINE docs == [s.docs EXCEPT ![call.name] = 0]
             shown == [s.searchable EXCEPT ![call.name] = 0]
  <2>1. new = [s EXCEPT !.collections = @ \ {call.name}, !.docs = docs, !.searchable = shown]
    OBVIOUS
  <2>2. s.docs \in [Names -> Nat] /\ s.searchable \in [Names -> Nat] /\ call.name \in Names
    BY DEF Server, HttpCalls
  <2>3. docs \in [Names -> Nat] /\ shown \in [Names -> Nat] /\ \A n \in Names : shown[n] <= docs[n]
    BY <2>2 DEF Behind
  <2> HIDE DEF docs, shown
  <2>4. new \in Server /\ new.docs = docs /\ new.searchable = shown
    BY <2>1, <2>3 DEF Server
  <2> QED
    BY <2>3, <2>4 DEF Behind
<1>2. a \in {Answer(s, "missing")} \union {Answer(new, "ok")} \union Unreliable(s, new)
  BY DEF delete_collection
<1> HIDE DEF new
<1>3. a.solr \in {s, new} /\ a.answer \in SolrAnswers
  BY <1>2, UnreliableAnswers DEF SolrAnswers, Answer
<1> QED
  BY <1>1, <1>3 DEF Sound

LEMMA AddIsSound ==
    ASSUME NEW s \in Server, Behind(s), NEW call \in HttpCalls, call.call = "add",
           NEW a \in add(s, call.name, call.count)
    PROVE  Sound(s, call, a)
<1> DEFINE new == [s EXCEPT !.docs = [s.docs EXCEPT ![call.name] = s.docs[call.name] + call.count], !.merging = 1]
<1>1. /\ s.docs \in [Names -> Nat] /\ s.searchable \in [Names -> Nat]
      /\ call.count \in Nat /\ call.name \in Names
  BY DEF Server, HttpCalls
<1>2. /\ new \in Server /\ new.docs = [s.docs EXCEPT ![call.name] = s.docs[call.name] + call.count]
      /\ new.searchable = s.searchable
  <2> DEFINE docs == [s.docs EXCEPT ![call.name] = s.docs[call.name] + call.count]
  <2>1. docs \in [Names -> Nat]
    BY <1>1 DEF docs
  <2>2. new = [s EXCEPT !.docs = docs, !.merging = 1]
    OBVIOUS
  <2> HIDE DEF docs
  <2>3. new \in Server /\ new.docs = docs /\ new.searchable = s.searchable
    BY <2>1, <2>2 DEF Server
  <2> QED
    BY <2>3 DEF docs
<1>3. Behind(new) /\ Larger(s, new)
  <2>1. \A n \in Names : s.docs[n] <= new.docs[n] /\ new.docs[n] \in Nat
    BY <1>1, <1>2
  <2>2. \A n \in Names : new.searchable[n] = s.searchable[n] /\ s.searchable[n] \in Nat /\ s.docs[n] \in Nat
    BY <1>1, <1>2
  <2> HIDE DEF new
  <2> QED
    BY <2>1, <2>2 DEF Behind, Larger
<1>4. call.count # 0 => new.docs[call.name] # s.docs[call.name]
  BY <1>1, <1>2
<1>8. call.count # 0 => new # s
  BY <1>4
<1>5. a \in {Answer(s, "refused")} \union {Answer(new, "ok")} \union Unreliable(s, new)
  BY DEF add
<1> HIDE DEF new
<1>6. a.solr \in {s, new} /\ a.answer \in SolrAnswers /\ (a.answer = "ok" => a.solr = new)
  BY <1>5, UnreliableAnswers DEF SolrAnswers, Answer
<1>7. Behind(s) /\ Larger(s, s)
  BY SameDocuments
<1> QED
  <2>1. a.solr \in Server /\ Behind(a.solr) /\ Larger(s, a.solr)
    <3>1. CASE a.solr = s
      BY <1>7, <3>1
    <3>2. CASE a.solr = new
      BY <1>2, <1>3, <3>2
    <3> QED
      BY <1>6, <3>1, <3>2
  <2>2. a.answer = "ok" /\ call.count # 0 => a.solr # s
    BY <1>6, <1>8
  <2> QED
    BY <1>6, <2>1, <2>2 DEF Sound

LEMMA CommitIsSound ==
    ASSUME NEW s \in Server, Behind(s), NEW call \in HttpCalls, call.call \in {"commit", "optimize"},
           NEW a \in commit(s, call.name)
    PROVE  /\ Sound(s, call, a)
           /\ a.answer = "ok" => a.solr.searchable[call.name] = s.docs[call.name]
<1> DEFINE shown == [s.searchable EXCEPT ![call.name] = s.docs[call.name]]
           new == [s EXCEPT !.searchable = shown]
<1>1. s.docs \in [Names -> Nat] /\ s.searchable \in [Names -> Nat] /\ call.name \in Names
  BY DEF Server, HttpCalls
<1>2. /\ shown \in [Names -> Nat] /\ shown[call.name] = s.docs[call.name]
      /\ \A n \in Names : n # call.name => shown[n] = s.searchable[n]
  BY <1>1
<1>3. a \in {Answer(s, "refused")} \union {Answer(new, "ok")} \union Unreliable(s, new)
  BY DEF commit
<1> HIDE DEF shown
<1>4. new \in Server /\ new.searchable = shown /\ new.docs = s.docs
  BY <1>2 DEF Server
<1> HIDE DEF new
<1>5. Behind(new) /\ Larger(s, new)
  BY <1>1, <1>2, <1>4 DEF Behind, Larger
<1>6. a.solr \in {s, new} /\ a.answer \in SolrAnswers /\ (a.answer = "ok" => a.solr = new)
  BY <1>3, UnreliableAnswers DEF SolrAnswers, Answer
<1>7. a.solr \in Server /\ Behind(a.solr) /\ Larger(s, a.solr)
  <2>1. Larger(s, s)
    BY SameDocuments
  <2> QED
    BY <1>4, <1>5, <1>6, <2>1
<1> QED
  BY <1>2, <1>4, <1>6, <1>7 DEF Sound

LEMMA ReadIsSound ==
    ASSUME NEW s \in Server, Behind(s), NEW call, call.call # "add",
           NEW a \in {Answer(s, "refused"), Answer(s, "ok")} \union Unreliable(s, s)
    PROVE  Sound(s, call, a)
<1>1. a.solr = s /\ a.answer \in SolrAnswers
  BY UnreliableAnswers DEF SolrAnswers, Answer
<1>2. Larger(s, s)
  BY SameDocuments
<1> QED
  BY <1>1, <1>2 DEF Sound

\* An answer leaves a server, and only a deletion takes documents away.
LEMMA AnswersAreSound ==
    ASSUME NEW s \in Server, Behind(s), NEW call \in HttpCalls, NEW a \in Execute(s, call)
    PROVE  Sound(s, call, a)
<1>1. CASE call.call = "upload"
  BY <1>1, UploadIsSound DEF Execute
<1>2. CASE call.call = "delete-configset"
  BY <1>2, DeleteConfigsetIsSound DEF Execute
<1>3. CASE call.call = "create"
  BY <1>3, CreateIsSound DEF Execute
<1>4. CASE call.call = "delete"
  BY <1>4, DeleteIsSound DEF Execute
<1>5. CASE call.call = "add"
  BY <1>5, AddIsSound DEF Execute
<1>7. CASE call.call \in {"commit", "optimize"}
  BY <1>7, CommitIsSound DEF Execute
<1>6. CASE call.call \notin {"upload", "delete-configset", "create", "delete", "add", "commit", "optimize"}
  <2>1. a \in {Answer(s, "refused"), Answer(s, "ok")} \union Unreliable(s, s)
    BY <1>6 DEF Execute, get_node_metrics, request
  <2> QED
    BY <1>6, <2>1, ReadIsSound
<1> QED
  BY <1>1, <1>2, <1>3, <1>4, <1>5, <1>6, <1>7

-----------------------------------------------------------------------------
(* The runners *)

\* What a runner makes of its operation: another step of the same type, or a result.
Proceeds(p, o, r) ==
    /\ r \in Progress /\ r.at = o.at /\ r.step \in StepsOf(p.type) \union Results
    /\ ReasonFits(p, r)

LEMMA StepsAreProgress ==
    ASSUME NEW o \in Progress, NEW x \in Steps \union Results
    PROVE  /\ [o EXCEPT !.step = x] \in Progress
           /\ [o EXCEPT !.step = x].step = x /\ [o EXCEPT !.step = x].at = o.at
           /\ [o EXCEPT !.step = x].total = o.total /\ [o EXCEPT !.step = x].batch = o.batch
           /\ [o EXCEPT !.step = x].seen = o.seen /\ [o EXCEPT !.step = x].from = o.from
           /\ [o EXCEPT !.step = x].why = o.why
  BY DEF Progress

LEMMA CountersAreProgress ==
    ASSUME NEW o \in Progress, NEW n \in Nat
    PROVE  /\ [o EXCEPT !.total = n] \in Progress /\ [o EXCEPT !.errors = n] \in Progress
           /\ \A x \in Steps \union Results : [o EXCEPT !.step = x, !.batch = n] \in Progress
  BY DEF Progress

LEMMA RaisedEnds ==
    ASSUME NEW o \in Progress, NEW answer
    PROVE  /\ Raised(o, answer) \in Progress /\ Raised(o, answer).step \in Results \ {"ok", "failed"}
           /\ Raised(o, answer).at = o.at /\ Raised(o, answer).total = o.total
           /\ Raised(o, answer).batch = o.batch /\ Raised(o, answer).seen = o.seen
           /\ Raised(o, answer).from = o.from
<1>1. PICK x \in {"exception", "transport", "connection"} : Raised(o, answer) = [o EXCEPT !.step = x]
  BY DEF Raised, Ends
<1>2. x \in Steps \union Results /\ x \in Results \ {"ok", "failed"}
  BY DEF Results
<1> QED
  BY <1>1, <1>2, StepsAreProgress

LEMMA ResultsEnd ==
    ASSUME NEW o \in Progress, NEW x \in Results
    PROVE  /\ Ends(o, x) \in Progress /\ Ends(o, x).step = x /\ Ends(o, x).at = o.at
           /\ Ends(o, x).total = o.total /\ Ends(o, x).batch = o.batch
           /\ Ends(o, x).seen = o.seen /\ Ends(o, x).from = o.from
  BY StepsAreProgress DEF Ends

\* An operation that has ended proceeds.
LEMMA EndedProceeds ==
    ASSUME NEW p, NEW o, NEW r \in Progress, r.at = o.at, r.step \in Results
    PROVE  Proceeds(p, o, r)
<1>1. r.step # "delete-configset"
  BY DEF Results
<1> QED
  BY <1>1 DEF Proceeds, ReasonFits

LEMMA StepProceeds ==
    ASSUME NEW p, NEW o \in Progress, NEW x \in StepsOf(p.type), p.type = "create-collection" => x # "delete-configset"
    PROVE  Proceeds(p, o, [o EXCEPT !.step = x])
<1>1. x \in Steps \union Results
  BY StepsAreSteps
<1> QED
  BY <1>1, StepsAreProgress DEF Proceeds, ReasonFits

LEMMA BatchesProceed ==
    ASSUME NEW p \in Operation, p.type = "bulk-index", NEW o \in Progress, o.batch <= Len(p.batches)
    PROVE  /\ Proceeds(p, o, NextBatch(p, o)) /\ NextBatch(p, o).total = o.total
           /\ NextBatch(p, o).batch <= Len(p.batches)
           /\ NextBatch(p, o).step = "add" => NextBatch(p, o).batch > 0
<1>1. Len(p.batches) \in Nat /\ o.batch \in Nat
  BY OperationFields DEF Progress
<1>2. StepsOf(p.type) = {"add", "commit"}
  BY DEF StepsOf
<1>3. CASE o.batch < Len(p.batches)
  <2> DEFINE r == [o EXCEPT !.step = "add", !.batch = @ + 1]
  <2>1. NextBatch(p, o) = r
    BY <1>3 DEF NextBatch
  <2>2. "add" \in Steps
    BY DEF Steps
  <2>6. o.batch + 1 \in Nat
    BY <1>1
  <2>7. r \in Progress
    BY <2>2, <2>6, CountersAreProgress
  <2>3. r \in Progress /\ r.at = o.at /\ r.total = o.total /\ r.batch = o.batch + 1 /\ r.step = "add"
    BY <2>7 DEF Progress
  <2>4. ReasonFits(p, r)
    BY <2>3 DEF ReasonFits
  <2> HIDE DEF r
  <2>5. r.batch <= Len(p.batches) /\ r.batch > 0
    BY <1>1, <1>3, <2>3
  <2> QED
    BY <1>2, <2>1, <2>3, <2>4, <2>5 DEF Proceeds
<1>4. CASE ~ (o.batch < Len(p.batches)) /\ p.commit
  <2>1. NextBatch(p, o) = [o EXCEPT !.step = "commit"]
    BY <1>4 DEF NextBatch
  <2>2. "commit" \in Steps \union Results
    BY DEF Steps
  <2>3. Proceeds(p, o, [o EXCEPT !.step = "commit"])
    BY <1>2, StepProceeds
  <2> QED
    BY <2>1, <2>2, <2>3, StepsAreProgress
<1>5. CASE ~ (o.batch < Len(p.batches)) /\ ~ p.commit
  <2>1. PICK x \in {"ok", "failed"} : NextBatch(p, o) = Ends(o, x)
    BY <1>5 DEF NextBatch
  <2>2. x \in Results /\ x # "add"
    BY DEF Results
  <2>3. Proceeds(p, o, Ends(o, x))
    BY <2>2, ResultsEnd, EndedProceeds
  <2> QED
    BY <2>1, <2>2, <2>3, ResultsEnd
<1> QED
  BY <1>3, <1>4, <1>5

\* A bulk counts the batches that Solr has accepted.
LEMMA BulkProceeds ==
    ASSUME NEW p \in Operation, p.type = "bulk-index", NEW o \in Progress, o.step \in StepsOf(p.type),
           NEW n \in Nat, NEW m \in Nat, BulkFits(p, o, n), NEW answer,
           m >= n + (IF o.step = "add" /\ answer = "ok" THEN p.batches[o.batch] ELSE 0)
    PROVE  Proceeds(p, o, SolrBulkIndex(p, o, answer)) /\ BulkFits(p, SolrBulkIndex(p, o, answer), m)
<1>1. /\ p.batches \in Seq(Nat \ {0}) /\ Len(p.batches) \in Nat
      /\ o.batch \in Nat /\ o.total \in Nat /\ o.errors \in Nat
  BY OperationFields DEF Progress
<1>2. o.batch <= Len(p.batches) /\ o.total <= n
  BY DEF BulkFits
<1>3. CASE o.step = "add"
  <2>1. o.batch \in 1 .. Len(p.batches)
    BY <1>1, <1>3 DEF BulkFits
  <2>2. p.batches[o.batch] \in Nat
    BY <1>1, <2>1
  <2>3. PICK q \in Progress : /\ q.at = o.at /\ q.batch = o.batch /\ q.total <= m
                              /\ SolrBulkIndex(p, o, answer) = NextBatch(p, q)
    <3>1. CASE answer = "ok"
      <4> DEFINE q == [o EXCEPT !.total = @ + p.batches[o.batch]]
      <4>4. o.total + p.batches[o.batch] \in Nat
        BY <1>1, <2>2
      <4>5. q \in Progress
        BY <4>4, CountersAreProgress
      <4>1. q \in Progress /\ q.at = o.at /\ q.batch = o.batch /\ q.total = o.total + p.batches[o.batch]
        BY <4>5 DEF Progress
      <4>2. SolrBulkIndex(p, o, answer) = NextBatch(p, q)
        BY <1>3, <3>1 DEF SolrBulkIndex
      <4> HIDE DEF q
      <4>3. q.total <= m
        BY <1>1, <1>2, <1>3, <2>2, <3>1, <4>1
      <4> QED
        BY <4>1, <4>2, <4>3
    <3>2. CASE answer # "ok"
      <4> DEFINE q == [o EXCEPT !.errors = @ + p.batches[o.batch]]
      <4>4. o.errors + p.batches[o.batch] \in Nat
        BY <1>1, <2>2
      <4>5. q \in Progress
        BY <4>4, CountersAreProgress
      <4>1. q \in Progress /\ q.at = o.at /\ q.batch = o.batch /\ q.total = o.total
        BY <4>5 DEF Progress
      <4>2. SolrBulkIndex(p, o, answer) = NextBatch(p, q)
        BY <1>3, <3>2 DEF SolrBulkIndex
      <4> HIDE DEF q
      <4>3. q.total <= m
        BY <1>1, <1>2, <3>2, <4>1
      <4> QED
        BY <4>1, <4>2, <4>3
    <3> QED
      BY <3>1, <3>2
  <2>4. /\ Proceeds(p, q, NextBatch(p, q)) /\ NextBatch(p, q).total = q.total
        /\ NextBatch(p, q).batch <= Len(p.batches)
        /\ NextBatch(p, q).step = "add" => NextBatch(p, q).batch > 0
    BY <1>2, <2>3, BatchesProceed
  <2> QED
    BY <2>3, <2>4 DEF Proceeds, BulkFits
<1>4. CASE o.step # "add"
  <2>1. PICK r \in Progress : /\ r.at = o.at /\ r.total = o.total /\ r.batch = o.batch /\ r.step \in Results
                              /\ SolrBulkIndex(p, o, answer) = r
    <3>1. CASE answer = "ok"
      <4>1. PICK x \in {"ok", "failed"} : SolrBulkIndex(p, o, answer) = Ends(o, x)
        BY <1>4, <3>1 DEF SolrBulkIndex
      <4>2. x \in Results
        BY DEF Results
      <4> QED
        BY <4>1, <4>2, ResultsEnd
    <3>2. CASE answer # "ok"
      <4>1. SolrBulkIndex(p, o, answer) = Raised(o, answer)
        BY <1>4, <3>2 DEF SolrBulkIndex
      <4> QED
        BY <4>1, RaisedEnds
    <3> QED
      BY <3>1, <3>2
  <2>2. o.total <= m
    BY <1>1, <1>2, <1>4
  <2>3. r.step # "add"
    BY <2>1 DEF Results
  <2> QED
    BY <1>2, <2>1, <2>2, <2>3, EndedProceeds DEF BulkFits
<1> QED
  BY <1>3, <1>4

\* A page moves the cursor over what it has found, and the last one finds nothing.
LEMMA PagesProceed ==
    ASSUME NEW p \in Operation, p.type = "paginated-search", NEW o \in Progress, o.step \in StepsOf(p.type),
           NEW docs \in Nat, NEW there \in Nat, NEW answer
    PROVE  LET r == SolrPaginatedSearch(p, o, answer, docs)
           IN  /\ Proceeds(p, o, r)
               /\ PagesFit(p, o, there) /\ docs <= there =>
                     /\ PagesFit(p, r, there)
                     /\ r.step = "ok" /\ o.from <= docs => r.from <= r.total
<1>1. p.rows \in Nat \ {0} /\ o.seen \in Nat /\ o.total \in Nat /\ o.from \in Nat
  BY OperationFields DEF Progress
<1>2. o.step = "page"
  BY DEF StepsOf
<1> DEFINE left == IF docs > o.seen THEN docs - o.seen ELSE 0
           found == IF left < p.rows THEN left ELSE p.rows
           r == SolrPaginatedSearch(p, o, answer, docs)
<1> SUFFICES /\ Proceeds(p, o, r)
             /\ PagesFit(p, o, there) /\ docs <= there =>
                   /\ PagesFit(p, r, there)
                   /\ r.step = "ok" /\ o.from <= docs => r.from <= r.total
  OBVIOUS
<1>3. left \in Nat /\ found \in Nat /\ (found = 0 => docs <= o.seen) /\ (found # 0 => o.seen + found <= docs)
  BY <1>1
<1>4. CASE answer # "ok"
  <2>1. r = Raised(o, answer)
    BY <1>4 DEF SolrPaginatedSearch
  <2> HIDE DEF r
  <2>2. Proceeds(p, o, r)
    BY <2>1, RaisedEnds, EndedProceeds
  <2> QED
    BY <2>1, <2>2, RaisedEnds DEF PagesFit, r
<1>5. CASE answer = "ok" /\ found = 0
  <2>1. r = Ends(o, "ok")
    BY <1>5 DEF SolrPaginatedSearch
  <2>2. "ok" \in Results
    BY DEF Results
  <2> HIDE DEF r, found, left
  <2>3. Proceeds(p, o, r)
    BY <2>1, <2>2, ResultsEnd, EndedProceeds
  <2>4. r.total = o.total /\ r.seen = o.seen /\ r.from = o.from
    BY <2>1, <2>2, ResultsEnd
  <2>5. docs <= o.seen
    BY <1>3, <1>5
  <2>6. PagesFit(p, o, there) => PagesFit(p, r, there) /\ (o.from <= docs => r.from <= r.total)
    BY <1>1, <2>4, <2>5 DEF PagesFit
  <2> QED
    BY <2>3, <2>6 DEF r
<1>6. CASE answer = "ok" /\ found # 0
  <2>1. r = [o EXCEPT !.total = @ + found, !.seen = @ + found]
    BY <1>6 DEF SolrPaginatedSearch
  <2> HIDE DEF r, found, left
  <2>2. o.total + found \in Nat /\ o.seen + found \in Nat
    BY <1>1, <1>3
  <2>3. /\ r \in Progress /\ r.at = o.at /\ r.step = o.step /\ r.from = o.from /\ r.why = o.why
        /\ r.total = o.total + found /\ r.seen = o.seen + found
    <3>1. \A a, b \in Nat : [o EXCEPT !.total = a, !.seen = b] \in Progress
      BY DEF Progress
    <3>2. r \in Progress
      BY <2>1, <2>2, <3>1
    <3> QED
      BY <2>1, <3>2 DEF Progress
  <2>4. Proceeds(p, o, r)
    BY <1>2, <2>3 DEF Proceeds, ReasonFits
  <2>5. PagesFit(p, o, there) /\ docs <= there => PagesFit(p, r, there)
    <3>1. SUFFICES ASSUME o.total = o.seen, o.from <= there, docs <= there
                   PROVE  r.total = r.seen /\ r.seen <= there /\ r.from <= there
      BY DEF PagesFit
    <3>2. o.seen + found <= docs
      BY <1>3, <1>6
    <3> QED
      BY <1>1, <1>3, <2>2, <2>3, <3>1, <3>2
  <2>6. r.step # "ok"
    BY <1>2, <2>3
  <2> QED
    BY <2>4, <2>5, <2>6 DEF r
<1> QED
  BY <1>4, <1>5, <1>6

LEMMA MergesProceed ==
    ASSUME NEW p, p.type = "wait-for-merges", NEW o \in Progress, o.step \in StepsOf(p.type),
           NEW answer, NEW merging
    PROVE  Proceeds(p, o, SolrWaitForMerges(o, answer, merging))
<1>1. "ok" \in Results /\ "failed" \in Results
  BY DEF Results
<1>2. CASE answer # "ok"
  BY <1>2, RaisedEnds, EndedProceeds DEF SolrWaitForMerges
<1>3. CASE answer = "ok" /\ merging = 0
  <2>1. SolrWaitForMerges(o, answer, merging) = Ends(o, "ok")
    BY <1>3 DEF SolrWaitForMerges
  <2> QED
    BY <1>1, <2>1, ResultsEnd, EndedProceeds
<1>4. CASE answer = "ok" /\ merging # 0 /\ o.polls + 1 >= MaxPolls
  <2>1. SolrWaitForMerges(o, answer, merging) = Ends(o, "failed")
    BY <1>4 DEF SolrWaitForMerges
  <2> QED
    BY <1>1, <2>1, ResultsEnd, EndedProceeds
<1>5. CASE answer = "ok" /\ merging # 0 /\ ~ (o.polls + 1 >= MaxPolls)
  <2>1. SolrWaitForMerges(o, answer, merging) = [o EXCEPT !.polls = o.polls + 1]
    BY <1>5 DEF SolrWaitForMerges
  <2>2. \A n \in Nat : [o EXCEPT !.polls = n] \in Progress
    BY DEF Progress
  <2>3. o.polls \in Nat /\ o.polls + 1 \in Nat
    BY DEF Progress
  <2>4. [o EXCEPT !.polls = o.polls + 1] \in Progress
    BY <2>2, <2>3
  <2>5. [o EXCEPT !.polls = o.polls + 1].step = o.step /\ [o EXCEPT !.polls = o.polls + 1].at = o.at
    BY DEF Progress
  <2> QED
    BY <2>1, <2>4, <2>5 DEF Proceeds, ReasonFits
<1> QED
  BY <1>2, <1>3, <1>4, <1>5

LEMMA CreationProceeds ==
    ASSUME NEW p, p.type = "create-collection", NEW o \in Progress, o.step \in StepsOf(p.type),
           ReasonFits(p, o), NEW answer
    PROVE  Proceeds(p, o, SolrCreateCollection(p, o, answer))
<1> DEFINE r == SolrCreateCollection(p, o, answer)
<1>1. "ok" \in Results /\ o.step \in {"upload", "create", "delete-configset"}
  BY DEF Results, StepsOf
<1>2. CASE r = Raised(o, answer)
  BY <1>2, RaisedEnds, EndedProceeds
<1>3. CASE r = Ends(o, "ok")
  BY <1>1, <1>3, ResultsEnd, EndedProceeds
<1>4. CASE o.step = "delete-configset"
  <2>1. r = Ends(o, o.why)
    BY <1>4 DEF SolrCreateCollection
  <2>2. o.why \in Results
    BY <1>4 DEF ReasonFits
  <2> QED
    BY <2>1, <2>2, ResultsEnd, EndedProceeds
<1>5. CASE o.step = "upload" /\ answer = "ok"
  <2>1. r = [o EXCEPT !.step = "create"]
    BY <1>5 DEF SolrCreateCollection
  <2>2. "create" \in StepsOf(p.type)
    BY DEF StepsOf
  <2> QED
    BY <2>1, <2>2, StepProceeds
<1>6. CASE r = [o EXCEPT !.step = "delete-configset", !.why = Raised(o, answer).step]
  <2>1. Raised(o, answer).step \in Results
    BY RaisedEnds
  <2>2. \A x \in Results : [o EXCEPT !.step = "delete-configset", !.why = x] \in Progress
    BY DEF Progress, Steps
  <2>3. r \in Progress
    BY <1>6, <2>1, <2>2
  <2>4. r.step = "delete-configset" /\ r.why \in Results /\ r.at = o.at
    BY <1>6, <2>1, <2>3 DEF Progress
  <2>5. "delete-configset" \in StepsOf(p.type)
    BY DEF StepsOf
  <2> QED
    BY <2>3, <2>4, <2>5 DEF Proceeds, ReasonFits
<1> QED
  BY <1>1, <1>2, <1>3, <1>4, <1>5, <1>6 DEF SolrCreateCollection

LEMMA DeletionProceeds ==
    ASSUME NEW p, p.type = "delete-collection", NEW o \in Progress, o.step \in StepsOf(p.type), NEW answer
    PROVE  Proceeds(p, o, SolrDeleteCollection(p, o, answer))
<1> DEFINE r == SolrDeleteCollection(p, o, answer)
<1>1. "ok" \in Results /\ "delete-configset" \in StepsOf(p.type)
  BY DEF Results, StepsOf
<1>2. CASE r = Raised(o, answer)
  BY <1>2, RaisedEnds, EndedProceeds
<1>3. CASE r = Ends(o, "ok")
  BY <1>1, <1>3, ResultsEnd, EndedProceeds
<1>4. CASE r = [o EXCEPT !.step = "delete-configset"]
  BY <1>1, <1>4, StepProceeds
<1> QED
  BY <1>2, <1>3, <1>4 DEF SolrDeleteCollection

LEMMA OneCallProceeds ==
    ASSUME NEW p, NEW o \in Progress, NEW answer
    PROVE  /\ Proceeds(p, o, OneCall(o, answer)) /\ Proceeds(p, o, RawRequest(o, answer))
           /\ Proceeds(p, o, Composite(p, o, answer))
<1>1. "ok" \in Results /\ "exception" \in Results
  BY DEF Results
<1>2. Proceeds(p, o, Raised(o, answer))
  BY RaisedEnds, EndedProceeds
<1>3. Proceeds(p, o, Ends(o, "ok")) /\ Proceeds(p, o, Ends(o, "exception"))
  BY <1>1, ResultsEnd, EndedProceeds
<1> QED
  BY <1>2, <1>3 DEF OneCall, RawRequest, Composite

\* Every runner proceeds; bulks count no more than was accepted, searches no more than there is.
LEMMA RunnersProceed ==
    ASSUME NEW p \in Operation, NEW o \in Progress, o.step \in StepsOf(p.type),
           NEW docs \in Nat, NEW answer, ReasonFits(p, o),
           NEW n \in Nat, NEW m \in Nat, BulkFits(p, o, n),
           m >= n + (IF o.step = "add" /\ answer = "ok" THEN p.batches[o.batch] ELSE 0)
    PROVE  LET r == RunnerFor(p, o, answer, docs)
           IN  /\ Proceeds(p, o, r) /\ BulkFits(p, r, m)
               /\ \A there \in Nat :
                     PagesFit(p, o, there) /\ docs <= there =>
                        /\ PagesFit(p, r, there)
                        /\ p.type = "paginated-search" /\ r.step = "ok" /\ o.from <= docs => r.from <= r.total
<1> DEFINE r == RunnerFor(p, o, answer, docs)
<1> SUFFICES /\ Proceeds(p, o, r) /\ BulkFits(p, r, m)
             /\ \A there \in Nat :
                   PagesFit(p, o, there) /\ docs <= there =>
                      /\ PagesFit(p, r, there)
                      /\ p.type = "paginated-search" /\ r.step = "ok" /\ o.from <= docs => r.from <= r.total
  OBVIOUS
<1>1. CASE p.type = "bulk-index"
  <2>1. r = SolrBulkIndex(p, o, answer)
    BY <1>1 DEF RunnerFor
  <2> HIDE DEF r
  <2>2. \A there : PagesFit(p, r, there)
    BY <1>1 DEF PagesFit
  <2>3. Proceeds(p, o, r) /\ BulkFits(p, r, m)
    BY <1>1, <2>1, BulkProceeds
  <2> QED
    BY <1>1, <2>2, <2>3
<1>2. CASE p.type = "paginated-search"
  <2>1. r = SolrPaginatedSearch(p, o, answer, docs)
    BY <1>2 DEF RunnerFor
  <2> HIDE DEF r
  <2>2. BulkFits(p, r, m)
    BY <1>2 DEF BulkFits
  <2>3. ASSUME NEW there \in Nat
        PROVE  /\ Proceeds(p, o, r)
               /\ PagesFit(p, o, there) /\ docs <= there => PagesFit(p, r, there) /\ (r.step = "ok" /\ o.from <= docs => r.from <= r.total)
    BY <1>2, <2>1, PagesProceed
  <2>4. Proceeds(p, o, r)
    BY <2>3
  <2> QED
    BY <2>2, <2>3, <2>4
<1>3. CASE p.type \notin {"bulk-index", "paginated-search"}
  <2>1. Proceeds(p, o, r)
    <3>1. CASE p.type = "wait-for-merges"
      BY <3>1, MergesProceed DEF RunnerFor
    <3>2. CASE p.type = "create-collection"
      BY <3>2, CreationProceeds DEF RunnerFor
    <3>3. CASE p.type = "delete-collection"
      BY <3>3, DeletionProceeds DEF RunnerFor
    <3>4. CASE p.type \notin {"wait-for-merges", "create-collection", "delete-collection"}
      BY <1>3, <3>4, OneCallProceeds DEF RunnerFor
    <3> QED
      BY <3>1, <3>2, <3>3, <3>4
  <2> HIDE DEF r
  <2>2. BulkFits(p, r, m) /\ \A there : PagesFit(p, r, there)
    BY <1>3 DEF BulkFits, PagesFit
  <2> QED
    BY <1>3, <2>1, <2>2
<1> QED
  BY <1>1, <1>2, <1>3

-----------------------------------------------------------------------------
(* What a step leaves alone *)

\* What Solr has accepted grows, and what it holds and shows does unless something is deleted.
Grows ==
    /\ script' = script
    /\ DOMAIN added' = Callers /\ \A c \in Callers : added'[c] \in [1 .. Len(script[c]) -> Nat]
    /\ \A c \in Callers : \A i \in 1 .. Len(script[c]) : added[c][i] <= added'[c][i]
    /\ solr' \in Server /\ Behind(solr')
    /\ NothingDeleted => Larger(solr, solr')

LEMMA SameGrows ==
    ASSUME OperationsTypeOK, Behind(solr), script' = script, added' = added, solr' \in Server,
           solr'.docs = solr.docs, solr'.searchable = solr.searchable
    PROVE  Grows
<1>1. \A c \in Callers : \A i \in 1 .. Len(script[c]) : added[c][i] \in Nat
  BY DEF OperationsTypeOK
<1>2. Behind(solr') /\ Larger(solr, solr')
  BY SameDocuments DEF OperationsTypeOK
<1> QED
  BY <1>1, <1>2 DEF Grows, OperationsTypeOK

LEMMA StillFits ==
    ASSUME NEW p, NEW o \in Progress, NEW n \in Nat, NEW m \in Nat, n <= m
    PROVE  (BulkFits(p, o, n) => BulkFits(p, o, m)) /\ (PagesFit(p, o, n) => PagesFit(p, o, m))
<1>1. o.total \in Nat /\ o.seen \in Nat /\ o.from \in Nat
  BY DEF Progress
<1> QED
  BY <1>1 DEF BulkFits, PagesFit

LEMMA CurrentOperation ==
    ASSUME OperationsTypeOK, NEW c \in Callers, op[c].at > 0
    PROVE  op[c].at \in 1 .. Len(script[c]) /\ Current(c) \in Operation /\ Current(c).name \in Names
<1>1. op[c].at \in 1 .. Len(script[c])
  BY ScriptIsSequence DEF OperationsTypeOK
<1>2. Current(c) \in Operation
  BY <1>1, ScriptIsSequence DEF OperationsTypeOK, Current
<1> QED
  BY <1>1, <1>2, OperationFields

LEMMA NothingDeletedStays ==
    ASSUME script' = script
    PROVE  NothingDeleted' = NothingDeleted
  BY DEF NothingDeleted

LEMMA UnderWayStays ==
    ASSUME OperationsTypeOK, Grows, NEW c \in Callers, UnderWay(c), op'[c] = op[c]
    PROVE  UnderWay(c)'
<1> SUFFICES ASSUME op[c].step # "idle"
             PROVE  UnderWay(c)'
  BY DEF UnderWay
<1>1. op[c].at \in 1 .. Len(script[c]) /\ Current(c).name \in Names /\ op[c] \in Progress
  BY CurrentOperation DEF UnderWay, OperationsTypeOK
<1>2. Current(c)' = Current(c) /\ NothingDeleted' = NothingDeleted
  BY NothingDeletedStays DEF Current, Grows
<1>3. /\ added[c][op[c].at] \in Nat /\ added'[c][op[c].at] \in Nat
      /\ added[c][op[c].at] <= added'[c][op[c].at]
  BY <1>1 DEF Grows, OperationsTypeOK
<1>4. /\ solr.searchable[Current(c).name] \in Nat /\ solr'.searchable[Current(c).name] \in Nat
      /\ NothingDeleted => solr.searchable[Current(c).name] <= solr'.searchable[Current(c).name]
  BY <1>1 DEF Grows, OperationsTypeOK, Server, Larger
<1>5. BulkFits(Current(c), op[c], added'[c][op[c].at])
  BY <1>1, <1>3, StillFits DEF UnderWay
<1>6. ASSUME NothingDeleted
      PROVE  PagesFit(Current(c), op[c], solr'.searchable[Current(c).name])
  <2>1. PagesFit(Current(c), op[c], solr.searchable[Current(c).name])
    BY <1>6 DEF UnderWay
  <2> DEFINE n == solr.searchable[Current(c).name]
             m == solr'.searchable[Current(c).name]
  <2>2. n \in Nat /\ m \in Nat /\ n <= m
    BY <1>4, <1>6
  <2>3. PagesFit(Current(c), op[c], n)
    BY <2>1
  <2> HIDE DEF n, m
  <2>4. PagesFit(Current(c), op[c], m)
    BY <1>1, <2>2, <2>3, StillFits
  <2> QED
    BY <2>4 DEF m
<1> QED
  BY <1>2, <1>5, <1>6 DEF UnderWay

LEMMA ReportedStays ==
    ASSUME OperationsTypeOK, Grows, NEW c \in Callers, Reported(c), results'[c] = results[c],
           (IF op'[c].step = "idle" THEN op'[c].at ELSE op'[c].at - 1) =
               (IF op[c].step = "idle" THEN op[c].at ELSE op[c].at - 1)
    PROVE  Reported(c)'
<1>1. NothingDeleted' = NothingDeleted /\ script' = script
  BY NothingDeletedStays DEF Grows
<1>2. ASSUME NEW i \in 1 .. Len(results[c])
      PROVE  i \in 1 .. Len(script[c]) /\ results[c][i].total \in Nat
  <2>1. Len(results[c]) \in Nat /\ results[c][i] \in Reports
    BY DEF OperationsTypeOK
  <2>2. Len(results[c]) <= Len(script[c])
    BY ScriptIsSequence DEF Reported, OperationsTypeOK, Progress
  <2>3. Len(script[c]) \in Nat
    BY ScriptIsSequence DEF OperationsTypeOK
  <2> QED
    BY <2>1, <2>2, <2>3 DEF Reports
<1>3. ASSUME NEW i \in 1 .. Len(results[c]), script[c][i].type = "bulk-index"
      PROVE  results[c][i].total <= added'[c][i]
  <2>1. /\ added[c][i] \in Nat /\ added'[c][i] \in Nat /\ added[c][i] <= added'[c][i]
        /\ results[c][i].total <= added[c][i]
    BY <1>2, <1>3 DEF Grows, OperationsTypeOK, Reported
  <2> QED
    BY <1>2, <2>1
<1> QED
  BY <1>1, <1>3 DEF Reported

LEMMA OthersStay ==
    ASSUME OperationsTypeOK, Grows, NEW c \in Callers, UnderWay(c), Reported(c),
           op'[c] = op[c], results'[c] = results[c]
    PROVE  UnderWay(c)' /\ Reported(c)'
  BY UnderWayStays, ReportedStays

\* A call whose owner stays in the same step, or that nobody waits for, still fits.
LEMMA CallStays ==
    ASSUME script' = script, NEW k, CallFits(k), k.live => op'[k.owner] = op[k.owner]
    PROVE  CallFits(k)'
  BY DEF CallFits, Current

LEMMA PoolShrinks ==
    ASSUME SolrAssumption, PoolFits, IsFiniteSet(calls'),
           {k \in calls' : k.running} \subseteq {k \in calls : k.running}
    PROVE  PoolFits'
<1>1. IsFiniteSet({k \in calls : k.running})
  BY FS_Subset DEF PoolFits
<1>2. /\ Cardinality({k \in calls' : k.running}) <= Cardinality({k \in calls : k.running})
      /\ Cardinality({k \in calls' : k.running}) \in Nat /\ Cardinality({k \in calls : k.running}) \in Nat
  BY <1>1, FS_Subset, FS_CardinalityType
<1> QED
  BY <1>2 DEF PoolFits, SolrAssumption

-----------------------------------------------------------------------------
(* Calls and steps of an operation *)

LEMMA SubmittedCall ==
    ASSUME OperationsTypeOK, NEW c \in Callers, NEW o \in Progress, o.at \in 1 .. Len(script[c]),
           o.step \in StepsOf(script[c][o.at].type), NEW n, BulkFits(script[c][o.at], o, n)
    PROVE  /\ Submit(c, o) \in HttpCalls
           /\ Submit(c, o).owner = c /\ Submit(c, o).at = o.at /\ Submit(c, o).call = o.step
           /\ Submit(c, o).name = script[c][o.at].name /\ Submit(c, o).live /\ ~ Submit(c, o).running
           /\ o.step = "add" => Submit(c, o).count = script[c][o.at].batches[o.batch]
<1>1. script[c][o.at] \in Operation
  BY ScriptIsSequence DEF OperationsTypeOK
<1> DEFINE p == script[c][o.at]
           n1 == IF o.step = "add" THEN p.batches[o.batch] ELSE 0
           id == <<o.batch, o.polls, o.total>>
<1>2. p.name \in Names /\ o.step \in Steps
  BY <1>1, OperationFields, StepsAreSteps
<1>3. n1 \in Nat
  <2>1. CASE o.step = "add"
    <3>1. p.type = "bulk-index"
      BY <2>1, OnlyBulksAdd
    <3>2. p.batches \in Seq(Nat \ {0}) /\ Len(p.batches) \in Nat
      BY <1>1, <3>1, OperationFields
    <3>3. o.batch \in 1 .. Len(p.batches)
      BY <2>1, <3>1, <3>2 DEF BulkFits, Progress
    <3> QED
      BY <2>1, <3>2, <3>3
  <2> QED
    BY <2>1
<1>4. id \in Nat \X Nat \X Nat /\ o.at \in Nat
  BY DEF Progress
<1>5. Submit(c, o) = [owner |-> c, at |-> o.at, id |-> id, call |-> o.step, name |-> p.name,
                      count |-> n1, running |-> FALSE, live |-> TRUE]
  BY DEF Submit
<1> HIDE DEF p, n1, id
<1>6. Submit(c, o) \in HttpCalls
  BY <1>2, <1>3, <1>4, <1>5 DEF HttpCalls
<1> QED
  BY <1>5, <1>6 DEF p, n1

\* Caller c goes on with step o of its operation, and o's call is submitted.
LEMMA StepFits ==
    ASSUME OperationsTypeOK, Grows, NEW c \in Callers, NEW o \in Progress, o.at \in 1 .. Len(script[c]),
           o.step \in StepsOf(script[c][o.at].type), BulkFits(script[c][o.at], o, added'[c][o.at]),
           NothingDeleted => PagesFit(script[c][o.at], o, solr'.searchable[script[c][o.at].name]),
           ReasonFits(script[c][o.at], o), op'[c] = o
    PROVE  UnderWay(c)' /\ Submit(c, o) \in HttpCalls /\ \A k : k = Submit(c, o) => CallFits(k)'
<1>1. Current(c)' = script[c][o.at] /\ NothingDeleted' = NothingDeleted /\ script' = script
  BY NothingDeletedStays DEF Current, Grows
<1>2. o.step # "idle" /\ o.at > 0
  BY StepsAreSteps
<1>3. UnderWay(c)'
  BY <1>1, <1>2 DEF UnderWay
<1>4. /\ Submit(c, o) \in HttpCalls
      /\ Submit(c, o).owner = c /\ Submit(c, o).at = o.at /\ Submit(c, o).call = o.step
      /\ Submit(c, o).name = script[c][o.at].name /\ Submit(c, o).live /\ ~ Submit(c, o).running
      /\ o.step = "add" => Submit(c, o).count = script[c][o.at].batches[o.batch]
  BY SubmittedCall
<1>5. ASSUME NEW k, k.owner = c, k.at = o.at, k.call = o.step, k.name = script[c][o.at].name, k.live, ~ k.running,
             o.step = "add" => k.count = script[c][o.at].batches[o.batch]
      PROVE  CallFits(k)'
  BY <1>1, <1>2, <1>5 DEF CallFits
<1>6. ASSUME NEW k, k = Submit(c, o)
      PROVE  CallFits(k)'
  <2>1. k.owner = c /\ k.at = o.at /\ k.call = o.step /\ k.name = script[c][o.at].name /\ k.live /\ ~ k.running
        /\ (o.step = "add" => k.count = script[c][o.at].batches[o.batch])
    BY <1>4, <1>6
  <2> QED
    BY <1>5, <2>1
<1> QED
  BY <1>3, <1>4, <1>6

\* Caller c's operation ends with a report.
LEMMA EndFits ==
    ASSUME OperationsTypeOK, Grows, NEW c \in Callers, Reported(c), op[c].step # "idle", op[c].at > 0,
           op'[c] = [Idle EXCEPT !.at = op[c].at],
           NEW r \in Reports, results'[c] = Append(results[c], r),
           Current(c).type = "bulk-index" => r.total <= added'[c][op[c].at],
           NothingDeleted /\ Current(c).type = "paginated-search" /\ r.result = "ok" =>
               r.from <= r.total /\ r.total <= r.docs
    PROVE  UnderWay(c)' /\ Reported(c)' /\ op'[c] \in Progress /\ op'[c].step = "idle" /\ op'[c].at = op[c].at
<1>1. op[c].at \in 1 .. Len(script[c])
  BY CurrentOperation
<1>2. op'[c] \in Progress /\ op'[c].step = "idle" /\ op'[c].at = op[c].at
  BY <1>1 DEF Idle, Progress, Steps
<1>3. UnderWay(c)'
  BY <1>2 DEF UnderWay
<1>4. results[c] \in Seq(Reports) /\ Len(results[c]) \in Nat /\ Len(results[c]) = op[c].at - 1
  BY DEF OperationsTypeOK, Reported
<1>5. Len(results'[c]) = op[c].at
  BY <1>1, <1>4
<1>6. NothingDeleted' = NothingDeleted /\ script' = script
  BY NothingDeletedStays DEF Grows
<1>7. ASSUME NEW i \in 1 .. Len(results'[c])
      PROVE  /\ script[c][i].type = "bulk-index" => results'[c][i].total <= added'[c][i]
             /\ NothingDeleted /\ script[c][i].type = "paginated-search" /\ results'[c][i].result = "ok" =>
                   results'[c][i].from <= results'[c][i].total /\ results'[c][i].total <= results'[c][i].docs
  <2>1. CASE i = op[c].at
    <3>1. results'[c][i] = r
      BY <1>4, <2>1
    <3> QED
      BY <2>1, <3>1 DEF Current
  <2>2. CASE i # op[c].at
    <3>1. i \in 1 .. Len(results[c]) /\ i \in 1 .. Len(script[c])
      BY <1>1, <1>4, <1>5, <2>2
    <3>2. results'[c][i] = results[c][i] /\ results[c][i] \in Reports
      BY <1>4, <3>1
    <3>3. added[c][i] \in Nat /\ added'[c][i] \in Nat /\ added[c][i] <= added'[c][i] /\ results[c][i].total \in Nat
      BY <3>1, <3>2 DEF Grows, OperationsTypeOK, Reports
    <3>4. script[c][i].type = "bulk-index" => results[c][i].total <= added'[c][i]
      BY <3>1, <3>3 DEF Reported
    <3> QED
      BY <3>1, <3>2, <3>4 DEF Reported
  <2> QED
    BY <2>1, <2>2
<1>8. Reported(c)'
  BY <1>2, <1>5, <1>6, <1>7 DEF Reported
<1> QED
  BY <1>2, <1>3, <1>8

-----------------------------------------------------------------------------
(* The actions *)

LEMMA FirstStepProceeds ==
    ASSUME OperationsTypeOK, NEW p \in Operation, NEW i \in Nat
    PROVE  LET o == FirstStep(p, [Idle EXCEPT !.at = i])
           IN  /\ o \in Progress /\ o.at = i /\ o.step \in StepsOf(p.type) /\ ReasonFits(p, o)
               /\ BulkFits(p, o, 0) /\ PagesFit(p, o, solr.searchable[p.name])
<1> DEFINE e == [Idle EXCEPT !.at = i]
           o == FirstStep(p, e)
<1> SUFFICES /\ o \in Progress /\ o.at = i /\ o.step \in StepsOf(p.type) /\ ReasonFits(p, o)
             /\ BulkFits(p, o, 0) /\ PagesFit(p, o, solr.searchable[p.name])
  OBVIOUS
<1>1. /\ e \in Progress /\ e.at = i /\ e.total = 0 /\ e.batch = 0 /\ e.seen = 0 /\ e.from = 0
  BY DEF Idle, Progress, Steps
<1> HIDE DEF e
<1>2. CASE p.type = "bulk-index"
  <2>1. o = NextBatch(p, e)
    BY <1>2 DEF FirstStep
  <2> HIDE DEF o
  <2>2. p.batches \in Seq(Nat \ {0}) /\ p.batches # <<>>
    BY <1>2, OperationFields
  <2>3. Len(p.batches) \in Nat /\ Len(p.batches) > 0
    BY <2>2
  <2>4. e.batch <= Len(p.batches)
    BY <1>1, <2>3
  <2>5. /\ Proceeds(p, e, o) /\ o.total = 0 /\ o.batch <= Len(p.batches)
        /\ o.step = "add" => o.batch > 0
    BY <1>1, <1>2, <2>1, <2>4, BatchesProceed
  <2>6. o.step = "add"
    <3>1. o = [e EXCEPT !.step = "add", !.batch = @ + 1]
      BY <1>1, <2>1, <2>3 DEF NextBatch
    <3> QED
      BY <1>1, <3>1 DEF Progress
  <2>7. "add" \in StepsOf(p.type)
    BY <1>2, OnlyBulksAdd
  <2> QED
    BY <1>1, <1>2, <2>5, <2>6, <2>7 DEF Proceeds, BulkFits, PagesFit
<1>3. CASE p.type = "paginated-search"
  <2>1. p.name \in Names
    BY OperationFields
  <2>2. solr.searchable[p.name] \in Nat
    BY <2>1 DEF OperationsTypeOK, Server
  <2>3. o = [e EXCEPT !.step = "page", !.from = solr.searchable[p.name]]
    BY <1>3 DEF FirstStep
  <2> HIDE DEF o
  <2>4. "page" \in StepsOf(p.type) /\ "page" \in Steps
    BY <1>3 DEF StepsOf, Steps
  <2>5. \A n \in Nat : [e EXCEPT !.step = "page", !.from = n] \in Progress
    BY <1>1, <2>4 DEF Progress
  <2>6. o \in Progress
    BY <2>2, <2>3, <2>5
  <2>7. o.at = i /\ o.step = "page" /\ o.total = 0 /\ o.seen = 0 /\ o.from = solr.searchable[p.name]
    BY <1>1, <2>3, <2>6 DEF Progress
  <2>8. PagesFit(p, o, solr.searchable[p.name])
    BY <2>2, <2>7 DEF PagesFit
  <2> QED
    BY <1>3, <2>4, <2>6, <2>7, <2>8 DEF ReasonFits, BulkFits
<1>4. CASE p.type \notin {"bulk-index", "paginated-search"}
  <2>1. PICK x \in StepsOf(p.type) : o = [e EXCEPT !.step = x] /\ x # "delete-configset"
    <3>1. CASE p.type = "wait-for-merges"
      BY <3>1 DEF FirstStep, StepsOf
    <3>2. CASE p.type = "create-collection"
      BY <3>2, OperationFields DEF FirstStep, StepsOf
    <3>3. CASE p.type = "delete-collection"
      BY <3>3 DEF FirstStep, StepsOf
    <3>4. CASE p.type = "composite"
      BY <3>4, OperationFields DEF FirstStep, StepsOf, Single
    <3>5. CASE p.type \in Single
      BY <3>5 DEF FirstStep, StepsOf, Single
    <3> QED
      BY <1>4, <3>1, <3>2, <3>3, <3>4, <3>5, OperationFields
  <2>2. x \in Steps \union Results
    BY StepsAreSteps
  <2>3. o \in Progress /\ o.at = i /\ o.step = x
    BY <1>1, <2>1, <2>2, StepsAreProgress
  <2> HIDE DEF o
  <2> QED
    BY <1>4, <2>1, <2>3 DEF ReasonFits, BulkFits, PagesFit
<1> QED
  BY <1>2, <1>3, <1>4

LEMMA BeginKeepsInv ==
    ASSUME SolrAssumption, OperationsInv, NEW c \in Callers, BeginOperation(c)
    PROVE  OperationsInv'
<1> DEFINE i == op[c].at + 1
           o == FirstStep(script[c][i], [Idle EXCEPT !.at = i])
           s == Submit(c, o)
<1>1. /\ op[c].step = "idle" /\ op[c].at < Len(script[c])
      /\ op' = [op EXCEPT ![c] = o] /\ calls' = calls \union {s}
      /\ script' = script /\ solr' = solr /\ added' = added /\ results' = results /\ faults' = faults
  BY DEF BeginOperation
<1>2. OperationsTypeOK /\ (\A d \in Callers : UnderWay(d) /\ Reported(d)) /\ (\A k \in calls : CallFits(k))
      /\ OneLiveCall /\ PoolFits /\ Behind(solr)
  BY DEF OperationsInv
<1>3. i \in 1 .. Len(script[c]) /\ i \in Nat /\ op[c].at \in Nat
  BY <1>1, <1>2, ScriptIsSequence DEF OperationsTypeOK
<1>4. script[c][i] \in Operation
  BY <1>2, <1>3, ScriptIsSequence DEF OperationsTypeOK
<1>5. /\ o \in Progress /\ o.at = i /\ o.step \in StepsOf(script[c][i].type) /\ ReasonFits(script[c][i], o)
      /\ BulkFits(script[c][i], o, 0) /\ PagesFit(script[c][i], o, solr.searchable[script[c][i].name])
  BY <1>2, <1>3, <1>4, FirstStepProceeds
<1> HIDE DEF o, i
<1>6. Grows
  BY <1>1, <1>2, SameGrows DEF OperationsTypeOK
<1>7. op' \in [Callers -> Progress] /\ op'[c] = o /\ \A d \in Callers : d # c => op'[d] = op[d]
  BY <1>1, <1>2, <1>5 DEF OperationsTypeOK
<1>8. BulkFits(script[c][o.at], o, added'[c][o.at])
  <2>1. added'[c][o.at] \in Nat
    BY <1>3, <1>5, <1>6 DEF Grows
  <2> QED
    BY <1>5, <2>1, StillFits
<1>18. NothingDeleted => PagesFit(script[c][o.at], o, solr'.searchable[script[c][o.at].name])
  BY <1>1, <1>5
<1>9. UnderWay(c)' /\ s \in HttpCalls /\ \A k : k = s => CallFits(k)'
  BY <1>2, <1>3, <1>5, <1>6, <1>7, <1>8, <1>18, StepFits
<1>10. s.owner = c /\ s.live /\ ~ s.running
  BY DEF Submit
<1> HIDE DEF s
<1>11. o.step \in Steps /\ o.step # "idle"
  BY <1>5, StepsAreSteps
<1>12. ASSUME NEW d \in Callers
       PROVE  UnderWay(d)' /\ Reported(d)'
  <2>1. CASE d = c
    <3>1. Reported(c)'
      <4>1. (IF op'[c].step = "idle" THEN op'[c].at ELSE op'[c].at - 1) =
                (IF op[c].step = "idle" THEN op[c].at ELSE op[c].at - 1)
        BY <1>1, <1>3, <1>5, <1>7, <1>11 DEF i
      <4> QED
        BY <1>1, <1>2, <1>6, <4>1, ReportedStays
    <3> QED
      BY <1>9, <2>1, <3>1
  <2>2. CASE d # c
    BY <1>1, <1>2, <1>6, <1>7, <2>2, OthersStay
  <2> QED
    BY <2>1, <2>2
<1>13. \A k \in calls : k.live => k.owner # c
  BY <1>1, <1>2 DEF CallFits
<1>14. \A k \in calls' : CallFits(k)'
  <2>1. ASSUME NEW k \in calls
        PROVE  CallFits(k)'
    <3>1. k.owner \in Callers
      BY <1>2 DEF OperationsTypeOK, HttpCalls
    <3> QED
      BY <1>1, <1>2, <1>7, <1>13, <3>1, CallStays
  <2> QED
    BY <1>1, <1>9, <2>1
<1>15. OneLiveCall'
  BY <1>1, <1>2, <1>10, <1>13 DEF OneLiveCall
<1>16. PoolFits'
  <2>1. IsFiniteSet(calls')
    BY <1>1, <1>2, FS_AddElement DEF PoolFits
  <2>2. {k \in calls' : k.running} \subseteq {k \in calls : k.running}
    BY <1>1, <1>10
  <2> QED
    BY <1>2, <2>1, <2>2, PoolShrinks
<1>17. OperationsTypeOK'
  <2>1. ASSUME NEW d \in Callers
        PROVE  op'[d].step \in Steps /\ op'[d].at \in 0 .. Len(script[d])
    <3>1. CASE d = c
      <4>1. op'[d].step \in Steps /\ op'[d].at = i
        BY <1>5, <1>7, <1>11, <3>1
      <4>2. Len(script[c]) \in Nat
        BY <1>2, ScriptIsSequence DEF OperationsTypeOK
      <4> QED
        BY <1>3, <3>1, <4>1, <4>2
    <3>2. CASE d # c
      BY <1>2, <1>7, <3>2 DEF OperationsTypeOK
    <3> QED
      BY <3>1, <3>2
  <2>2. calls' \subseteq HttpCalls
    BY <1>1, <1>2, <1>9 DEF OperationsTypeOK
  <2> QED
    BY <1>1, <1>2, <1>7, <2>1, <2>2 DEF OperationsTypeOK
<1> QED
  BY <1>6, <1>12, <1>14, <1>15, <1>16, <1>17 DEF OperationsInv, Grows

LEMMA TakeThreadKeepsInv ==
    ASSUME SolrAssumption, OperationsInv, NEW k \in calls, TakeThread(k)
    PROVE  OperationsInv'
<1> DEFINE t == [k EXCEPT !.running = TRUE]
<1>1. /\ ~ k.running /\ Cardinality({j \in calls : j.running}) < PoolSize
      /\ calls' = (calls \ {k}) \union {t}
      /\ op' = op /\ script' = script /\ solr' = solr /\ added' = added /\ results' = results /\ faults' = faults
  BY DEF TakeThread
<1>2. OperationsTypeOK /\ (\A d \in Callers : UnderWay(d) /\ Reported(d)) /\ (\A j \in calls : CallFits(j))
      /\ OneLiveCall /\ PoolFits /\ Behind(solr)
  BY DEF OperationsInv
<1>3. k \in HttpCalls
  BY <1>2 DEF OperationsTypeOK
<1>4. /\ t \in HttpCalls /\ t.owner = k.owner /\ t.at = k.at /\ t.call = k.call /\ t.name = k.name
      /\ t.count = k.count /\ t.live = k.live /\ t.running
  BY <1>3 DEF HttpCalls
<1> HIDE DEF t
<1>5. Grows
  BY <1>1, <1>2, SameGrows DEF OperationsTypeOK
<1>6. \A d \in Callers : UnderWay(d)' /\ Reported(d)'
  BY <1>1, <1>2, <1>5, OthersStay
<1>7. \A j \in calls' : CallFits(j)'
  <2>1. CallFits(t)
    BY <1>2, <1>4 DEF CallFits
  <2>2. \A j \in calls : CallFits(j)'
    BY <1>1, <1>2, CallStays
  <2>3. CallFits(t)'
    BY <1>1, <2>1, CallStays
  <2> QED
    BY <1>1, <2>2, <2>3
<1>8. OneLiveCall'
  BY <1>1, <1>2, <1>4 DEF OneLiveCall
<1>9. PoolFits'
  <2> DEFINE R == {j \in calls : j.running}
  <2>1. IsFiniteSet(calls') /\ IsFiniteSet(R)
    <3>1. IsFiniteSet(R)
      BY <1>2, FS_Subset DEF PoolFits
    <3>2. IsFiniteSet(calls \ {k})
      BY <1>2, FS_RemoveElement DEF PoolFits
    <3> QED
      BY <1>1, <3>1, <3>2, FS_AddElement
  <2>8. Cardinality(R) < PoolSize
    BY <1>1
  <2> HIDE DEF R
  <2>9. Cardinality(R) \in Nat
    BY <2>1, FS_CardinalityType
  <2>2. IsFiniteSet(R \union {t}) /\ Cardinality(R \union {t}) <= Cardinality(R) + 1
    <3>1. IsFiniteSet(R \cup {t}) /\ Cardinality(R \cup {t}) = IF t \in R THEN Cardinality(R) ELSE Cardinality(R) + 1
      BY <2>1, FS_AddElement
    <3> QED
      BY <2>9, <3>1
  <2>3. {j \in calls' : j.running} \subseteq R \union {t}
    BY <1>1 DEF R
  <2>4. /\ Cardinality({j \in calls' : j.running}) <= Cardinality(R \union {t})
        /\ Cardinality({j \in calls' : j.running}) \in Nat /\ Cardinality(R \union {t}) \in Nat
    BY <2>2, <2>3, FS_Subset, FS_CardinalityType
  <2>6. Cardinality({j \in calls' : j.running}) <= PoolSize
    BY <2>2, <2>4, <2>8, <2>9 DEF SolrAssumption
  <2> QED
    BY <2>1, <2>6 DEF PoolFits
<1>10. OperationsTypeOK'
  <2>1. calls' \subseteq HttpCalls
    BY <1>1, <1>2, <1>4 DEF OperationsTypeOK
  <2> QED
    BY <1>1, <1>2, <2>1 DEF OperationsTypeOK
<1> QED
  BY <1>5, <1>6, <1>7, <1>8, <1>9, <1>10 DEF OperationsInv, Grows

LEMMA MergeEndsKeepsInv ==
    ASSUME SolrAssumption, OperationsInv, MergeEnds
    PROVE  OperationsInv'
<1>1. /\ solr' = [solr EXCEPT !.merging = 0]
      /\ op' = op /\ script' = script /\ calls' = calls /\ added' = added /\ results' = results /\ faults' = faults
  BY DEF MergeEnds
<1>2. OperationsTypeOK /\ (\A d \in Callers : UnderWay(d) /\ Reported(d)) /\ (\A j \in calls : CallFits(j))
      /\ OneLiveCall /\ PoolFits /\ Behind(solr)
  BY DEF OperationsInv
<1>3. solr' \in Server /\ solr'.docs = solr.docs /\ solr'.searchable = solr.searchable
  BY <1>1, <1>2 DEF OperationsTypeOK, Server
<1>4. Grows
  BY <1>1, <1>2, <1>3, SameGrows
<1>5. \A d \in Callers : UnderWay(d)' /\ Reported(d)'
  BY <1>1, <1>2, <1>4, OthersStay
<1>6. \A j \in calls' : CallFits(j)'
  BY <1>1, <1>2, CallStays
<1>7. OneLiveCall' /\ PoolFits'
  BY <1>1, <1>2 DEF OneLiveCall, PoolFits
<1>8. OperationsTypeOK'
  BY <1>1, <1>2, <1>3 DEF OperationsTypeOK
<1> QED
  BY <1>4, <1>5, <1>6, <1>7, <1>8 DEF OperationsInv, Grows

LEMMA CommitsWithinKeepsInv ==
    ASSUME SolrAssumption, OperationsInv, NEW n \in Names, CommitsWithin(n)
    PROVE  OperationsInv' /\ solr'.docs = solr.docs /\ Grows
<1> DEFINE shown == [solr.searchable EXCEPT ![n] = solr.docs[n]]
<1>1. /\ solr' = [solr EXCEPT !.searchable = shown]
      /\ op' = op /\ script' = script /\ calls' = calls /\ added' = added /\ results' = results /\ faults' = faults
  BY DEF CommitsWithin
<1>2. OperationsTypeOK /\ (\A d \in Callers : UnderWay(d) /\ Reported(d)) /\ (\A j \in calls : CallFits(j))
      /\ OneLiveCall /\ PoolFits /\ Behind(solr)
  BY DEF OperationsInv
<1>3. solr.docs \in [Names -> Nat] /\ solr.searchable \in [Names -> Nat] /\ solr \in Server
  BY <1>2 DEF OperationsTypeOK, Server
<1>4. /\ shown \in [Names -> Nat] /\ shown[n] = solr.docs[n]
      /\ \A x \in Names : x # n => shown[x] = solr.searchable[x]
  BY <1>3
<1> HIDE DEF shown
<1>5. solr' \in Server /\ solr'.docs = solr.docs /\ solr'.searchable = shown
  BY <1>1, <1>3, <1>4 DEF Server
<1>6. Behind(solr') /\ Larger(solr, solr')
  <2>1. \A x \in Names : /\ solr'.docs[x] = solr.docs[x] /\ solr'.searchable[x] = shown[x]
                         /\ solr.docs[x] \in Nat /\ solr.searchable[x] \in Nat
                         /\ solr.searchable[x] <= solr.docs[x]
    BY <1>2, <1>3, <1>5 DEF Behind
  <2>2. ASSUME NEW x \in Names
        PROVE  /\ solr'.searchable[x] <= solr'.docs[x]
               /\ solr.docs[x] <= solr'.docs[x] /\ solr.searchable[x] <= solr'.searchable[x]
    BY <1>4, <2>1
  <2> QED
    BY <2>2 DEF Behind, Larger
<1>7. \A c \in Callers : \A i \in 1 .. Len(script[c]) : added[c][i] \in Nat
  BY <1>2 DEF OperationsTypeOK
<1>8. Grows
  BY <1>1, <1>2, <1>5, <1>6, <1>7 DEF Grows, OperationsTypeOK
<1>9. \A d \in Callers : UnderWay(d)' /\ Reported(d)'
  BY <1>1, <1>2, <1>8, OthersStay
<1>10. \A j \in calls' : CallFits(j)'
  BY <1>1, <1>2, CallStays
<1>11. OneLiveCall' /\ PoolFits'
  BY <1>1, <1>2 DEF OneLiveCall, PoolFits
<1>12. OperationsTypeOK'
  BY <1>1, <1>2, <1>5 DEF OperationsTypeOK
<1> QED
  BY <1>5, <1>8, <1>9, <1>10, <1>11, <1>12 DEF OperationsInv, Grows

\* What a timeout leaves of the calls: the others, and of the caller's live call its thread.
LEMMA CallsLeft ==
    ASSUME NEW c, NEW x \in CallsWithout(c)
    PROVE  \/ x \in calls /\ (x.owner # c \/ ~ x.live)
           \/ \E j \in calls : j.owner = c /\ j.live /\ j.running /\ x = [j EXCEPT !.live = FALSE]
<1>1. CASE x \in {k \in calls : k.owner # c \/ ~ k.live}
  BY <1>1
<1>2. CASE x \in UNION {CancelCall(k) : k \in {j \in calls : j.owner = c /\ j.live}}
  BY <1>2 DEF CancelCall
<1> QED
  BY <1>1, <1>2 DEF CallsWithout

LEMMA CancelledCall ==
    ASSUME NEW j \in HttpCalls, j.running
    PROVE  LET x == [j EXCEPT !.live = FALSE]
           IN  /\ x \in HttpCalls /\ x.owner = j.owner /\ x.at = j.at /\ x.call = j.call /\ x.name = j.name
               /\ ~ x.live /\ x.running
  BY DEF HttpCalls

LEMMA TimesOutKeepsInv ==
    ASSUME SolrAssumption, OperationsInv, NEW c \in Callers, TimesOut(c)
    PROVE  OperationsInv'
<1> DEFINE report == [result |-> "timeout", total |-> IF "timeout" \in {"ok", "failed"} THEN op[c].total ELSE 0,
                      from |-> op[c].from, docs |-> solr.searchable[Current(c).name]]
           mine == {j \in calls : j.owner = c /\ j.live /\ j.running}
           Left(j) == [j EXCEPT !.live = FALSE]
<1>1. /\ op[c].step # "idle" /\ faults < MaxFaults /\ faults' = faults + 1
      /\ op' = [op EXCEPT ![c] = [Idle EXCEPT !.at = op[c].at]]
      /\ results' = [results EXCEPT ![c] = Append(results[c], report)]
      /\ script' = script /\ solr' = solr /\ added' = added
  BY DEF TimesOut, Record
<1>2. calls' = CallsWithout(c)
  BY DEF TimesOut
<1>3. OperationsTypeOK /\ (\A d \in Callers : UnderWay(d) /\ Reported(d)) /\ (\A k \in calls : CallFits(k))
      /\ OneLiveCall /\ PoolFits /\ Behind(solr)
  BY DEF OperationsInv
<1>4. op[c].at > 0 /\ op[c] \in Progress
  BY <1>1, <1>3 DEF UnderWay, OperationsTypeOK
<1>5. op[c].at \in 1 .. Len(script[c]) /\ Current(c).name \in Names
  BY <1>3, <1>4, CurrentOperation
<1>6. Grows
  BY <1>1, <1>3, SameGrows DEF OperationsTypeOK
<1>7. report \in Reports /\ report.result = "timeout" /\ report.total = 0
  <2>1. solr.searchable[Current(c).name] \in Nat /\ op[c].from \in Nat
    BY <1>3, <1>4, <1>5 DEF OperationsTypeOK, Server, Progress
  <2> QED
    BY <2>1 DEF Reports, Results
<1> HIDE DEF report
<1>8. op'[c] = [Idle EXCEPT !.at = op[c].at] /\ results'[c] = Append(results[c], report)
  BY <1>1, <1>3 DEF OperationsTypeOK
<1>9. Current(c).type = "bulk-index" => report.total <= added'[c][op[c].at]
  <2>1. added'[c][op[c].at] \in Nat
    BY <1>5, <1>6 DEF Grows
  <2> QED
    BY <1>7, <2>1
<1>10. UnderWay(c)' /\ Reported(c)' /\ op'[c] \in Progress /\ op'[c].step = "idle" /\ op'[c].at = op[c].at
  BY <1>1, <1>3, <1>4, <1>6, <1>7, <1>8, <1>9, EndFits
<1>11. \A d \in Callers : d # c => op'[d] = op[d] /\ results'[d] = results[d]
  BY <1>1, <1>3 DEF OperationsTypeOK
<1>12. ASSUME NEW d \in Callers
       PROVE  UnderWay(d)' /\ Reported(d)'
  <2>1. CASE d # c
    BY <1>3, <1>6, <1>11, <2>1, OthersStay
  <2> QED
    BY <1>10, <2>1
<1>13. ASSUME NEW x \in calls'
       PROVE  \/ x \in calls /\ (x.owner # c \/ ~ x.live)
              \/ \E j \in mine : x = Left(j)
  <2>1. \/ x \in calls /\ (x.owner # c \/ ~ x.live)
        \/ \E j \in calls : j.owner = c /\ j.live /\ j.running /\ x = [j EXCEPT !.live = FALSE]
    BY <1>2, CallsLeft
  <2> QED
    BY <2>1
<1>14. \A j \in mine : /\ Left(j) \in HttpCalls /\ Left(j).owner = j.owner /\ Left(j).at = j.at
                       /\ Left(j).call = j.call /\ Left(j).name = j.name
                       /\ ~ Left(j).live /\ Left(j).running
  BY <1>3, CancelledCall DEF OperationsTypeOK
<1>15. \A i, j \in mine : i = j
  BY <1>3 DEF OneLiveCall
<1> HIDE DEF Left
<1>16. \A x \in calls' : x \in HttpCalls /\ CallFits(x)'
  <2>1. ASSUME NEW x \in calls, x.owner # c \/ ~ x.live
        PROVE  x \in HttpCalls /\ CallFits(x)'
    <3>1. x \in HttpCalls /\ x.owner \in Callers
      BY <1>3 DEF OperationsTypeOK, HttpCalls
    <3> QED
      BY <1>1, <1>3, <1>11, <2>1, <3>1, CallStays
  <2>2. ASSUME NEW j \in mine
        PROVE  Left(j) \in HttpCalls /\ CallFits(Left(j))
    <3>1. CallFits(j)
      BY <1>3
    <3> QED
      BY <1>14, <3>1 DEF CallFits
  <2>3. ASSUME NEW x, NEW j \in mine, x = Left(j)
        PROVE  x \in HttpCalls /\ CallFits(x)'
    <3>1. x \in HttpCalls /\ CallFits(x) /\ ~ x.live
      BY <1>14, <2>2, <2>3
    <3> QED
      BY <1>1, <3>1, CallStays
  <2> QED
    BY <1>13, <2>1, <2>3
<1>17. OneLiveCall'
  <2>1. \A x \in calls' : x.live => x \in calls
    BY <1>13, <1>14
  <2> QED
    BY <1>3, <2>1 DEF OneLiveCall
<1>18. PoolFits'
  <2> DEFINE R == {k \in calls : k.running}
             S == {k \in calls' : k.running}
  <2>1. CASE mine = {}
    <3>1. calls' \subseteq calls
      BY <1>13, <2>1
    <3>2. IsFiniteSet(calls')
      BY <1>3, <3>1, FS_Subset DEF PoolFits
    <3>3. {k \in calls' : k.running} \subseteq {k \in calls : k.running}
      BY <3>1
    <3> QED
      BY <1>3, <3>2, <3>3, PoolShrinks
  <2>2. CASE mine # {}
    <3>1. PICK j \in mine : TRUE
      BY <2>2
    <3>2. \A x \in calls' : (x \in calls /\ x # j) \/ x = Left(j)
      BY <1>13, <1>15, <3>1
    <3>3. IsFiniteSet(calls')
      <4>1. IsFiniteSet(calls \union {Left(j)})
        BY <1>3, FS_AddElement DEF PoolFits
      <4>2. calls' \subseteq calls \union {Left(j)}
        BY <3>2
      <4> QED
        BY <4>1, <4>2, FS_Subset
    <3>4. IsFiniteSet(R) /\ j \in R
      <4>1. IsFiniteSet(R)
        BY <1>3, FS_Subset DEF PoolFits
      <4> QED
        BY <3>1, <4>1
    <3>5. S \subseteq (R \ {j}) \union {Left(j)}
      BY <3>2
    <3>6. Cardinality(R) <= PoolSize
      BY <1>3 DEF PoolFits
    <3> HIDE DEF R, S, mine
    <3>7. IsFiniteSet(R \ {j}) /\ Cardinality(R \ {j}) = Cardinality(R) - 1 /\ Cardinality(R) \in Nat
      BY <3>4, FS_RemoveElement, FS_CardinalityType
    <3> DEFINE Q == (R \ {j}) \union {Left(j)}
    <3>8. IsFiniteSet(Q) /\ Cardinality(Q) <= Cardinality(R \ {j}) + 1
      <4>1. IsFiniteSet(Q) /\ Cardinality(Q) =
                IF Left(j) \in R \ {j} THEN Cardinality(R \ {j}) ELSE Cardinality(R \ {j}) + 1
        BY <3>7, FS_AddElement
      <4>2. Cardinality(R \ {j}) \in Nat
        BY <3>7, FS_CardinalityType
      <4> QED
        BY <4>1, <4>2
    <3>9. S \subseteq Q
      BY <3>5
    <3> HIDE DEF Q
    <3>10. Cardinality(S) <= Cardinality(Q) /\ Cardinality(S) \in Nat /\ Cardinality(Q) \in Nat
      BY <3>8, <3>9, FS_Subset, FS_CardinalityType
    <3>11. Cardinality(S) <= PoolSize
      BY <3>6, <3>7, <3>8, <3>10 DEF SolrAssumption
    <3> QED
      BY <3>3, <3>11 DEF PoolFits, S
  <2> QED
    BY <2>1, <2>2
<1>19. OperationsTypeOK'
  <2>1. op' \in [Callers -> Progress]
    BY <1>1, <1>3, <1>8, <1>10 DEF OperationsTypeOK
  <2>2. ASSUME NEW d \in Callers
        PROVE  op'[d].step \in Steps /\ op'[d].at \in 0 .. Len(script[d])
    <3>1. CASE d = c
      <4>1. op'[d].step \in Steps
        BY <1>10, <3>1 DEF Steps
      <4>2. op'[d].at \in 0 .. Len(script[d])
        BY <1>3, <1>10, <3>1 DEF OperationsTypeOK
      <4> QED
        BY <4>1, <4>2
    <3>2. CASE d # c
      BY <1>3, <1>11, <3>2 DEF OperationsTypeOK
    <3> QED
      BY <3>1, <3>2
  <2>3. results' \in [Callers -> Seq(Reports)]
    <3>1. Append(results[c], report) \in Seq(Reports)
      BY <1>3, <1>7 DEF OperationsTypeOK
    <3> QED
      BY <1>1, <1>3, <3>1 DEF OperationsTypeOK
  <2>4. faults' \in 0 .. MaxFaults
    BY <1>1, <1>3 DEF OperationsTypeOK, SolrAssumption
  <2>5. calls' \subseteq HttpCalls
    BY <1>16
  <2> QED
    BY <1>1, <1>3, <2>1, <2>2, <2>3, <2>4, <2>5 DEF OperationsTypeOK
<1> QED
  BY <1>6, <1>12, <1>16, <1>17, <1>18, <1>19 DEF OperationsInv, Grows

\* What Solr has accepted of a call is added to the operation of the call.
LEMMA ReturnsGrow ==
    ASSUME OperationsTypeOK, NEW k \in calls, CallFits(k), NEW a, Sound(solr, k, a), script' = script,
           solr' = a.solr,
           added' = [added EXCEPT ![k.owner] = [added[k.owner] EXCEPT ![k.at] = @ + Accepted(k, a.solr)]]
    PROVE  Grows /\ added'[k.owner][k.at] = added[k.owner][k.at] + Accepted(k, a.solr)
<1> DEFINE c == k.owner
           acc == Accepted(k, a.solr)
           new == [added[c] EXCEPT ![k.at] = added[c][k.at] + acc]
<1>1. k \in HttpCalls /\ c \in Callers /\ k.at \in 1 .. Len(script[c]) /\ k.count \in Nat
  BY DEF OperationsTypeOK, HttpCalls, CallFits
<1>2. acc \in Nat
  BY <1>1 DEF Accepted
<1>3. DOMAIN added = Callers /\ \A d \in Callers : added[d] \in [1 .. Len(script[d]) -> Nat]
  BY DEF OperationsTypeOK
<1>4. added' = [added EXCEPT ![c] = new]
  OBVIOUS
<1>5. added[c][k.at] \in Nat /\ added[c][k.at] + acc \in Nat
  BY <1>1, <1>2, <1>3
<1> HIDE DEF acc
<1>6. /\ new \in [1 .. Len(script[c]) -> Nat] /\ new[k.at] = added[c][k.at] + acc
      /\ \A i \in 1 .. Len(script[c]) : i # k.at => new[i] = added[c][i]
  BY <1>1, <1>3, <1>5
<1> HIDE DEF new
<1>7. DOMAIN added' = Callers /\ added'[c] = new /\ \A d \in Callers : d # c => added'[d] = added[d]
  BY <1>1, <1>3, <1>4
<1>8. \A d \in Callers : added'[d] \in [1 .. Len(script[d]) -> Nat]
  BY <1>3, <1>6, <1>7
<1>9. ASSUME NEW d \in Callers, NEW i \in 1 .. Len(script[d])
      PROVE  added[d][i] <= added'[d][i]
  <2>1. added[d][i] \in Nat
    BY <1>3
  <2>2. CASE d = c /\ i = k.at
    BY <1>2, <1>5, <1>6, <1>7, <2>2
  <2>3. CASE ~ (d = c /\ i = k.at)
    <3>1. added'[d][i] = added[d][i]
      BY <1>6, <1>7, <2>3
    <3> QED
      BY <2>1, <3>1
  <2> QED
    BY <2>2, <2>3
<1>10. ASSUME NothingDeleted
       PROVE  Larger(solr, solr')
  <2>1. script[c][k.at].type # "delete-collection"
    BY <1>1, <1>10 DEF NothingDeleted
  <2>2. k.call # "delete"
    BY <2>1, OnlyDeletionsDelete DEF CallFits
  <2> QED
    BY <2>2 DEF Sound
<1>11. Grows
  BY <1>7, <1>8, <1>9, <1>10 DEF Grows, Sound
<1> QED
  BY <1>6, <1>7, <1>11 DEF acc

LEMMA AcceptedWhenOk ==
    ASSUME NEW k \in HttpCalls, NEW a, Sound(solr, k, a), k.call = "add", a.answer = "ok"
    PROVE  Accepted(k, a.solr) = k.count
  BY DEF Accepted, Sound

\* A call nobody waits for changes Solr only.
LEMMA AbandonedKeepsInv ==
    ASSUME SolrAssumption, OperationsInv, NEW k \in calls, ~ k.live, Grows,
           calls' = calls \ {k}, op' = op, results' = results, faults' \in 0 .. MaxFaults
    PROVE  OperationsInv'
<1>1. OperationsTypeOK /\ (\A d \in Callers : UnderWay(d) /\ Reported(d)) /\ (\A j \in calls : CallFits(j))
      /\ OneLiveCall /\ PoolFits /\ Behind(solr)
  BY DEF OperationsInv
<1>2. script' = script
  BY DEF Grows
<1>3. \A d \in Callers : UnderWay(d)' /\ Reported(d)'
  BY <1>1, OthersStay
<1>4. \A j \in calls' : CallFits(j)'
  BY <1>1, <1>2, CallStays
<1>5. OneLiveCall'
  BY <1>1 DEF OneLiveCall
<1>6. PoolFits'
  <2>1. IsFiniteSet(calls')
    BY <1>1, FS_RemoveElement DEF PoolFits
  <2>2. {j \in calls' : j.running} \subseteq {j \in calls : j.running}
    OBVIOUS
  <2> QED
    BY <1>1, <2>1, <2>2, PoolShrinks
<1>7. OperationsTypeOK'
  BY <1>1, <1>2 DEF OperationsTypeOK, Grows
<1> QED
  BY <1>3, <1>4, <1>5, <1>6, <1>7 DEF OperationsInv, Grows

\* The operation of a call that somebody waits for goes on with the step or the result r.
LEMMA GoesOnKeepsInv ==
    ASSUME SolrAssumption, OperationsInv, NEW k \in calls, k.live, Grows, NEW r,
           GoesOn(k, r), Proceeds(Current(k.owner), op[k.owner], r),
           BulkFits(Current(k.owner), r, added'[k.owner][k.at]),
           NothingDeleted =>
               /\ PagesFit(Current(k.owner), r, solr.searchable[Current(k.owner).name])
               /\ Current(k.owner).type = "paginated-search" /\ r.step = "ok" => r.from <= r.total,
           faults' \in 0 .. MaxFaults
    PROVE  OperationsInv'
<1> DEFINE c == k.owner
           p == Current(c)
           report == [result |-> r.step, total |-> IF r.step \in {"ok", "failed"} THEN r.total ELSE 0,
                      from |-> r.from, docs |-> solr.searchable[p.name]]
<1>1. OperationsTypeOK /\ (\A d \in Callers : UnderWay(d) /\ Reported(d)) /\ (\A j \in calls : CallFits(j))
      /\ OneLiveCall /\ PoolFits /\ Behind(solr)
  BY DEF OperationsInv
<1>2. k \in HttpCalls /\ c \in Callers
  BY <1>1 DEF OperationsTypeOK, HttpCalls
<1>3. op[c].step # "idle" /\ op[c].at = k.at /\ op[c].at > 0
  BY <1>1, <1>2 DEF CallFits, UnderWay
<1>4. op[c].at \in 1 .. Len(script[c]) /\ p \in Operation /\ p.name \in Names /\ p = script[c][op[c].at]
  BY <1>1, <1>2, <1>3, CurrentOperation DEF Current
<1>5. r \in Progress /\ r.at = op[c].at /\ r.step \in StepsOf(p.type) \union Results /\ ReasonFits(p, r)
  BY DEF Proceeds
<1>6. script' = script
  BY DEF Grows
<1>7. solr.searchable[p.name] \in Nat /\ r.total \in Nat /\ r.from \in Nat /\ r.seen \in Nat
  BY <1>1, <1>4, <1>5 DEF OperationsTypeOK, Server, Progress
<1>8. \A j \in calls : j # k /\ j.live => j.owner # c
  BY <1>1 DEF OneLiveCall
<1>9. ASSUME NEW q, op' = [op EXCEPT ![c] = q], q \in Progress, q.step \in Steps, q.at = op[c].at,
             NEW x, calls' \subseteq (calls \ {k}) \union {x}, x.live => x.owner = c, ~ x.running,
             x \in calls' => x \in HttpCalls /\ CallFits(x)',
             results' \in [Callers -> Seq(Reports)], \A d \in Callers : d # c => results'[d] = results[d],
             UnderWay(c)', Reported(c)'
      PROVE  OperationsInv'
  <2>1. op' \in [Callers -> Progress] /\ op'[c] = q /\ \A d \in Callers : d # c => op'[d] = op[d]
    BY <1>1, <1>2, <1>9 DEF OperationsTypeOK
  <2>2. ASSUME NEW d \in Callers
        PROVE  UnderWay(d)' /\ Reported(d)'
    <3>1. CASE d # c
      BY <1>1, <1>9, <2>1, <3>1, OthersStay
    <3> QED
      BY <1>9, <3>1
  <2>3. ASSUME NEW j \in calls'
        PROVE  j \in HttpCalls /\ CallFits(j)'
    <3>1. CASE j = x
      BY <1>9, <3>1
    <3>2. CASE j # x
      <4>1. j \in calls /\ j # k
        BY <1>9, <3>2
      <4>2. j \in HttpCalls /\ j.owner \in Callers
        BY <1>1, <4>1 DEF OperationsTypeOK, HttpCalls
      <4> QED
        BY <1>1, <1>6, <1>8, <2>1, <4>1, <4>2, CallStays
    <3> QED
      BY <3>1, <3>2
  <2>4. OneLiveCall'
    <3>1. ASSUME NEW i \in calls', NEW j \in calls', i.live, j.live, i.owner = j.owner
          PROVE  i = j
      <4>1. CASE i = x \/ j = x
        BY <1>8, <1>9, <3>1, <4>1
      <4>2. CASE i # x /\ j # x
        BY <1>1, <1>9, <3>1, <4>2 DEF OneLiveCall
      <4> QED
        BY <4>1, <4>2
    <3> QED
      BY <3>1 DEF OneLiveCall
  <2>5. PoolFits'
    <3>1. IsFiniteSet((calls \ {k}) \union {x})
      BY <1>1, FS_RemoveElement, FS_AddElement DEF PoolFits
    <3>2. IsFiniteSet(calls')
      BY <1>9, <3>1, FS_Subset
    <3>3. {j \in calls' : j.running} \subseteq {j \in calls : j.running}
      BY <1>9
    <3> QED
      BY <1>1, <3>2, <3>3, PoolShrinks
  <2>6. OperationsTypeOK'
    <3>1. ASSUME NEW d \in Callers
          PROVE  op'[d].step \in Steps /\ op'[d].at \in 0 .. Len(script[d])
      BY <1>1, <1>9, <2>1 DEF OperationsTypeOK
    <3>2. calls' \subseteq HttpCalls
      BY <2>3
    <3> QED
      BY <1>1, <1>6, <1>9, <2>1, <3>1, <3>2 DEF OperationsTypeOK, Grows
  <2> QED
    BY <2>2, <2>3, <2>4, <2>5, <2>6 DEF OperationsInv, Grows
<1>10. CASE r.step \in Results
  <2> DEFINE q == [Idle EXCEPT !.at = r.at]
  <2>1. calls' = calls \ {k} /\ op' = [op EXCEPT ![c] = q]
        /\ results' = [results EXCEPT ![c] = Append(results[c], report)]
    BY <1>10 DEF GoesOn, Record
  <2>2. report \in Reports /\ report.result = r.step
    BY <1>7, <1>10 DEF Reports
  <2>3. p.type = "bulk-index" => report.total <= added'[c][op[c].at]
    <3>1. added'[c][op[c].at] \in Nat
      BY <1>2, <1>4 DEF Grows
    <3> QED
      BY <1>3, <3>1 DEF BulkFits
  <2>4. NothingDeleted /\ p.type = "paginated-search" /\ report.result = "ok" =>
            report.from <= report.total /\ report.total <= report.docs
    BY <1>7 DEF PagesFit
  <2> HIDE DEF report
  <2>5. op'[c] = [Idle EXCEPT !.at = op[c].at] /\ results'[c] = Append(results[c], report)
    BY <1>1, <1>2, <1>5, <2>1 DEF OperationsTypeOK
  <2>6. UnderWay(c)' /\ Reported(c)' /\ op'[c] \in Progress /\ op'[c].step = "idle" /\ op'[c].at = op[c].at
    <3> HIDE DEF c
    <3> QED
      BY <1>1, <1>2, <1>3, <2>2, <2>3, <2>4, <2>5, EndFits
  <2>7. q \in Progress /\ q.step \in Steps /\ q.at = op[c].at
    BY <1>5, <2>5, <2>6 DEF Steps
  <2>8. results' \in [Callers -> Seq(Reports)] /\ \A d \in Callers : d # c => results'[d] = results[d]
    <3>1. Append(results[c], report) \in Seq(Reports)
      BY <1>1, <1>2, <2>2 DEF OperationsTypeOK
    <3> QED
      BY <1>1, <1>2, <2>1, <3>1 DEF OperationsTypeOK
  <2> DEFINE x == [live |-> FALSE, running |-> FALSE, owner |-> c]
  <2>9. calls' \subseteq (calls \ {k}) \union {x} /\ ~ x.live /\ ~ x.running
    BY <2>1
  <2>10. x \in calls' => x \in HttpCalls /\ CallFits(x)'
    <3>1. SUFFICES ASSUME x \in calls
                   PROVE  FALSE
      BY <2>1
    <3>2. CallFits(x)
      BY <1>1, <3>1
    <3> QED
      BY <3>2 DEF CallFits
  <2> HIDE DEF x, q
  <2> QED
    BY <1>9, <2>1, <2>6, <2>7, <2>8, <2>9, <2>10
<1>11. CASE r.step \notin Results
  <2> DEFINE x == Submit(c, r)
  <2>1. calls' = (calls \ {k}) \union {x} /\ op' = [op EXCEPT ![c] = r] /\ results' = results
    BY <1>11 DEF GoesOn
  <2>2. r.step \in StepsOf(p.type) /\ r.step \in Steps /\ r.step # "idle"
    BY <1>5, <1>11, StepsAreSteps
  <2>3. op'[c] = r
    BY <1>1, <1>2, <2>1 DEF OperationsTypeOK
  <2>4. NothingDeleted => PagesFit(p, r, solr'.searchable[p.name])
    <3>1. solr'.searchable[p.name] \in Nat /\ (NothingDeleted => solr.searchable[p.name] <= solr'.searchable[p.name])
      BY <1>4 DEF Grows, Server, Larger
    <3> QED
      BY <1>7, <3>1 DEF PagesFit
  <2>5. BulkFits(p, r, added'[c][r.at])
    BY <1>3, <1>5
  <2>6. UnderWay(c)' /\ x \in HttpCalls /\ \A y : y = x => CallFits(y)'
    <3> HIDE DEF c, p
    <3>1. p = script[c][r.at] /\ r.at \in 1 .. Len(script[c])
      BY <1>4, <1>5
    <3> QED
      BY <1>1, <1>2, <1>5, <2>2, <2>3, <2>4, <2>5, <3>1, StepFits
  <2>7. x.owner = c /\ x.live /\ ~ x.running
    BY DEF Submit
  <2>8. Reported(c)'
    <3>1. (IF op'[c].step = "idle" THEN op'[c].at ELSE op'[c].at - 1) =
              (IF op[c].step = "idle" THEN op[c].at ELSE op[c].at - 1)
      BY <1>3, <1>5, <2>2, <2>3
    <3>2. results'[c] = results[c]
      BY <2>1
    <3> HIDE DEF c
    <3> QED
      BY <1>1, <1>2, <3>1, <3>2, ReportedStays
  <2> HIDE DEF x
  <2>9. results' \in [Callers -> Seq(Reports)] /\ \A d \in Callers : d # c => results'[d] = results[d]
    BY <1>1, <2>1 DEF OperationsTypeOK
  <2>10. calls' \subseteq (calls \ {k}) \union {x}
    BY <2>1
  <2> QED
    BY <1>5, <1>9, <2>1, <2>2, <2>6, <2>7, <2>8, <2>9, <2>10
<1> QED
  BY <1>10, <1>11

LEMMA CallReturnsKeepsInv ==
    ASSUME SolrAssumption, OperationsInv, NEW k \in calls, CallReturns(k)
    PROVE  OperationsInv'
<1> DEFINE c == k.owner
           p == Current(c)
<1>1. OperationsTypeOK /\ (\A d \in Callers : UnderWay(d) /\ Reported(d)) /\ CallFits(k) /\ Behind(solr)
  BY DEF OperationsInv
<1>2. k \in HttpCalls /\ c \in Callers
  BY <1>1 DEF OperationsTypeOK, HttpCalls
<1>3. PICK a \in Execute(solr, k) :
          /\ \/ a.answer \in {"ok", "exists", "missing", "refused"} /\ faults' = faults
             \/ a.answer \in {"error", "lost", "late"} /\ faults < MaxFaults /\ faults' = faults + 1
          /\ solr' = a.solr
          /\ added' = [added EXCEPT ![c] = [added[c] EXCEPT ![k.at] = @ + Accepted(k, a.solr)]]
          /\ \/ ~ k.live /\ calls' = calls \ {k} /\ op' = op /\ results' = results
             \/ k.live /\ \E docs \in Visible(p, op[c]) : GoesOn(k, RunnerFor(p, op[c], a.answer, docs))
  BY DEF CallReturns
<1>4. script' = script
  BY DEF CallReturns
<1>5. Sound(solr, k, a)
  BY <1>1, <1>2, AnswersAreSound DEF OperationsTypeOK
<1>6. faults' \in 0 .. MaxFaults
  BY <1>1, <1>3 DEF OperationsTypeOK, SolrAssumption
<1>7. Grows /\ added'[c][k.at] = added[c][k.at] + Accepted(k, a.solr)
  BY <1>1, <1>3, <1>4, <1>5, ReturnsGrow
<1>8. CASE ~ k.live
  BY <1>3, <1>6, <1>7, <1>8, AbandonedKeepsInv
<1>9. CASE k.live
  <2>1. PICK docs \in Visible(p, op[c]) : GoesOn(k, RunnerFor(p, op[c], a.answer, docs))
    BY <1>3, <1>9
  <2> DEFINE o == op[c]
             n == added[c][k.at]
             m == added'[c][k.at]
             there == solr.searchable[p.name]
             r == RunnerFor(p, o, a.answer, docs)
  <2>2. /\ o.step # "idle" /\ o.at = k.at /\ o.step = k.call /\ o.at > 0 /\ o \in Progress
        /\ k.call = "add" => k.count = p.batches[o.batch]
    BY <1>1, <1>2, <1>9 DEF CallFits, UnderWay, OperationsTypeOK
  <2>3. o.at \in 1 .. Len(script[c]) /\ p \in Operation /\ p.name \in Names
    BY <1>1, <1>2, <2>2, CurrentOperation
  <2>4. o.step \in StepsOf(p.type) /\ ReasonFits(p, o) /\ BulkFits(p, o, n)
        /\ (NothingDeleted => PagesFit(p, o, there))
    BY <1>1, <1>2, <2>2 DEF UnderWay
  <2>5. there \in Nat /\ docs \in Nat /\ docs <= there /\ (o.from <= there => o.from <= docs)
    <3>1. there \in Nat /\ o.from \in Nat
      BY <1>1, <2>2, <2>3 DEF OperationsTypeOK, Server, Progress
    <3> QED
      BY <2>1, <3>1 DEF Visible
  <2>6. n \in Nat /\ m \in Nat
    BY <1>1, <1>2, <1>7, <2>2, <2>3 DEF OperationsTypeOK, Grows
  <2>7. m >= n + (IF o.step = "add" /\ a.answer = "ok" THEN p.batches[o.batch] ELSE 0)
    <3>1. CASE o.step = "add" /\ a.answer = "ok"
      <4>1. Accepted(k, a.solr) = p.batches[o.batch]
        BY <1>2, <1>5, <2>2, <3>1, AcceptedWhenOk
      <4> QED
        BY <1>7, <2>6, <3>1, <4>1
    <3>2. CASE ~ (o.step = "add" /\ a.answer = "ok")
      <4>1. n <= m
        BY <1>2, <1>7, <2>2, <2>3 DEF Grows
      <4> QED
        BY <2>6, <3>2, <4>1
    <3> QED
      BY <3>1, <3>2
  <2> HIDE DEF n, m, there, p, o
  <2>8. /\ Proceeds(p, o, r) /\ BulkFits(p, r, m)
        /\ PagesFit(p, o, there) /\ docs <= there =>
              /\ PagesFit(p, r, there)
              /\ p.type = "paginated-search" /\ r.step = "ok" /\ o.from <= docs => r.from <= r.total
    BY <2>2, <2>3, <2>4, <2>5, <2>6, <2>7, RunnersProceed
  <2>9. PagesFit(p, o, there) /\ p.type = "paginated-search" => o.from <= there
    BY DEF PagesFit
  <2> HIDE DEF r
  <2>10. NothingDeleted =>
             /\ PagesFit(p, r, there)
             /\ p.type = "paginated-search" /\ r.step = "ok" => r.from <= r.total
    BY <2>4, <2>5, <2>8, <2>9
  <2>11. GoesOn(k, r)
    BY <2>1 DEF r, o
  <2> QED
    BY <1>6, <1>7, <1>9, <2>8, <2>10, <2>11, GoesOnKeepsInv DEF p, o, m, there
<1> QED
  BY <1>8, <1>9

LEMMA OperationsStep ==
    ASSUME SolrAssumption, OperationsInv, [OperationsNext]_operationVars
    PROVE  OperationsInv'
<1>1. ASSUME NEW c \in Callers, BeginOperation(c)
      PROVE  OperationsInv'
  BY <1>1, BeginKeepsInv
<1>2. ASSUME NEW c \in Callers, TimesOut(c)
      PROVE  OperationsInv'
  BY <1>2, TimesOutKeepsInv
<1>3. ASSUME NEW k \in calls, TakeThread(k)
      PROVE  OperationsInv'
  BY <1>3, TakeThreadKeepsInv
<1>4. ASSUME NEW k \in calls, CallReturns(k)
      PROVE  OperationsInv'
  BY <1>4, CallReturnsKeepsInv
<1>5. CASE MergeEnds
  BY <1>5, MergeEndsKeepsInv
<1>7. ASSUME NEW n \in Names, CommitsWithin(n)
      PROVE  OperationsInv'
  BY <1>7, CommitsWithinKeepsInv
<1>6. CASE UNCHANGED operationVars
  BY <1>6 DEF OperationsInv, Behind, OperationsTypeOK, UnderWay, Reported, CallFits, OneLiveCall, PoolFits, Current,
              NothingDeleted, operationVars
<1> QED
  BY <1>1, <1>2, <1>3, <1>4, <1>5, <1>6, <1>7 DEF OperationsNext

LEMMA OperationsBegin ==
    ASSUME SolrAssumption, OperationsInit
    PROVE  OperationsInv
<1>1. script \in Scripts
  BY DEF OperationsInit
<1>2. \A c \in Callers : Len(script[c]) \in Nat
  BY <1>1, ScriptIsSequence
<1>3. Idle \in Progress /\ Idle.step = "idle" /\ Idle.at = 0
  BY DEF Idle, Progress, Steps
<1>4. \A c \in Callers : op[c] = Idle /\ results[c] = <<>>
  BY DEF OperationsInit
<1>5. OperationsTypeOK
  <2>1. solr \in Server
    BY DEF OperationsInit, Server
  <2>2. DOMAIN added = Callers /\ \A c \in Callers : added[c] \in [1 .. Len(script[c]) -> Nat]
    BY DEF OperationsInit
  <2>3. op \in [Callers -> Progress] /\ results \in [Callers -> Seq(Reports)]
    BY <1>3 DEF OperationsInit
  <2>4. \A c \in Callers : op[c].step \in Steps /\ op[c].at \in 0 .. Len(script[c])
    BY <1>2, <1>3, <1>4 DEF Steps
  <2> QED
    BY <1>1, <2>1, <2>2, <2>3, <2>4 DEF OperationsTypeOK, OperationsInit, SolrAssumption
<1>6. \A c \in Callers : UnderWay(c) /\ Reported(c)
  BY <1>3, <1>4 DEF UnderWay, Reported
<1>7. calls = {}
  BY DEF OperationsInit
<1>8. OneLiveCall /\ \A k \in calls : CallFits(k)
  BY <1>7 DEF OneLiveCall
<1>9. PoolFits
  <2>1. {k \in calls : k.running} = {}
    BY <1>7
  <2>2. Cardinality({k \in calls : k.running}) = 0 /\ IsFiniteSet(calls)
    BY <1>7, <2>1, FS_EmptySet
  <2> QED
    BY <2>2 DEF PoolFits, SolrAssumption
<1>10. Behind(solr)
  BY DEF OperationsInit, Behind
<1> QED
  BY <1>5, <1>6, <1>8, <1>9, <1>10 DEF OperationsInv

-----------------------------------------------------------------------------
(* What was committed is found *)

\* All that Solr has accepted from a bulk is in its collection.
Kept(c, i) == script[c][i].type = "bulk-index" => added[c][i] <= solr.docs[script[c][i].name]

\* What committed bulks of caller c report, of the first so many operations on collection n, is at most m.
ShownBy(c, count, n, m) ==
    \A i \in 1 .. Len(results[c]) :
        i <= count /\ Committed(c, i) /\ script[c][i].name = n => results[c][i].total <= m

\* Committed documents are searchable, and were when a later search of the same client began.
FoundBy(c) ==
    /\ \A i \in 1 .. Len(script[c]) : Kept(c, i)
    /\ \A n \in Names : ShownBy(c, Len(results[c]), n, solr.searchable[n])
    /\ op[c].step # "idle" /\ Current(c).type = "paginated-search" =>
           ShownBy(c, Len(results[c]), Current(c).name, op[c].from)
    /\ \A j \in 1 .. Len(results[c]) :
           script[c][j].type = "paginated-search" =>
               ShownBy(c, j - 1, script[c][j].name, results[c][j].from)

FoundInv == NothingDeleted => \A c \in Callers : FoundBy(c)

LEMMA LastAppended ==
    ASSUME NEW S, NEW q \in Seq(S), NEW x, Append(q, x) \in Seq(S)
    PROVE  x \in S
<1>1. Len(Append(q, x)) = Len(q) + 1 /\ Append(q, x)[Len(q) + 1] = x /\ Len(q) \in Nat
  OBVIOUS
<1> QED
  BY <1>1

\* What the invariant of the operations says of the reports of a caller
LEMMA ReportsTyped ==
    ASSUME SolrAssumption, OperationsInv, NEW c \in Callers
    PROVE  /\ Len(results[c]) \in Nat /\ Len(results[c]) <= Len(script[c]) /\ Len(script[c]) \in Nat
           /\ op[c].step # "idle" => op[c].at = Len(results[c]) + 1 /\ op[c].at \in 1 .. Len(script[c])
           /\ op[c].step = "idle" => op[c].at = Len(results[c])
           /\ \A i \in 1 .. Len(results[c]) :
                 /\ i \in 1 .. Len(script[c]) /\ script[c][i] \in Operation /\ script[c][i].name \in Names
                 /\ results[c][i] \in Reports /\ results[c][i].total \in Nat /\ results[c][i].from \in Nat
<1>1. OperationsTypeOK /\ Reported(c) /\ UnderWay(c)
  BY DEF OperationsInv
<1>2. /\ results[c] \in Seq(Reports) /\ op[c].at \in 0 .. Len(script[c]) /\ Len(script[c]) \in Nat
      /\ \A i \in 1 .. Len(script[c]) : script[c][i] \in Operation
  BY <1>1, ScriptIsSequence DEF OperationsTypeOK
<1>3. Len(results[c]) \in Nat /\ \A i \in 1 .. Len(results[c]) : results[c][i] \in Reports
  BY <1>2
<1>4. op[c].step # "idle" => op[c].at > 0
  BY <1>1 DEF UnderWay
<1>5. Len(results[c]) = IF op[c].step = "idle" THEN op[c].at ELSE op[c].at - 1
  BY <1>1 DEF Reported
<1>6. Len(results[c]) <= Len(script[c])
  BY <1>2, <1>5
<1>7. ASSUME NEW i \in 1 .. Len(results[c])
      PROVE  /\ i \in 1 .. Len(script[c]) /\ script[c][i] \in Operation /\ script[c][i].name \in Names
             /\ results[c][i] \in Reports /\ results[c][i].total \in Nat /\ results[c][i].from \in Nat
  <2>1. i \in 1 .. Len(script[c])
    BY <1>2, <1>3, <1>6
  <2> QED
    BY <1>2, <1>3, <2>1, OperationFields DEF Reports
<1> QED
  BY <1>2, <1>3, <1>4, <1>5, <1>6, <1>7

\* A caller whose operation and reports stay as they are, while what is kept and shown grows
LEMMA FoundStays ==
    ASSUME SolrAssumption, OperationsInv, Grows, NothingDeleted, NEW c \in Callers, FoundBy(c),
           \A i \in 1 .. Len(script[c]) : Kept(c, i)',
           results'[c] = results[c],
           op'[c].step # "idle" =>
               /\ op[c].step # "idle" /\ op'[c].at = op[c].at
               /\ Current(c).type = "paginated-search" => op'[c].from = op[c].from
    PROVE  FoundBy(c)'
<1>1. script' = script
  BY DEF Grows
<1>2. ASSUME NEW n \in Names
      PROVE  ShownBy(c, Len(results[c]), n, solr.searchable[n])'
  <2>1. /\ solr.searchable[n] \in Nat /\ solr'.searchable[n] \in Nat
        /\ solr.searchable[n] <= solr'.searchable[n]
    BY DEF Grows, Larger, OperationsInv, OperationsTypeOK, Server
  <2>2. ASSUME NEW i \in 1 .. Len(results[c]), Committed(c, i), script[c][i].name = n
        PROVE  results[c][i].total <= solr'.searchable[n]
    <3>1. results[c][i].total <= solr.searchable[n] /\ results[c][i].total \in Nat
      BY <2>2, ReportsTyped DEF FoundBy, ShownBy
    <3> QED
      BY <2>1, <3>1
  <2> QED
    BY <1>1, <2>2 DEF ShownBy, Committed
<1>3. op'[c].step # "idle" /\ Current(c)'.type = "paginated-search" =>
          ShownBy(c, Len(results[c]), Current(c).name, op[c].from)'
  BY <1>1 DEF FoundBy, ShownBy, Committed, Current
<1>4. \A j \in 1 .. Len(results'[c]) :
          script'[c][j].type = "paginated-search" => ShownBy(c, j - 1, script[c][j].name, results[c][j].from)'
  BY <1>1 DEF FoundBy, ShownBy, Committed
<1> QED
  BY <1>1, <1>2, <1>3, <1>4 DEF FoundBy

\* A caller begins an operation; a search starts with what is searchable.
LEMMA FoundBegins ==
    ASSUME SolrAssumption, OperationsInv, Grows, NothingDeleted, NEW c \in Callers, FoundBy(c),
           \A i \in 1 .. Len(script[c]) : Kept(c, i)',
           results'[c] = results[c], solr' = solr,
           Current(c)'.type = "paginated-search" =>
               Current(c)'.name \in Names /\ op'[c].from = solr.searchable[Current(c)'.name]
    PROVE  FoundBy(c)'
<1>1. script' = script
  BY DEF Grows
<1>2. \A n \in Names : ShownBy(c, Len(results[c]), n, solr.searchable[n])'
  BY <1>1 DEF FoundBy, ShownBy, Committed
<1>3. ASSUME Current(c)'.type = "paginated-search"
      PROVE  ShownBy(c, Len(results[c]), Current(c).name, op[c].from)'
  <2>1. PICK n \in Names : n = Current(c)' .name /\ op'[c].from = solr.searchable[n]
    BY <1>3
  <2>2. ShownBy(c, Len(results[c]), n, solr.searchable[n])
    BY DEF FoundBy
  <2> QED
    BY <1>1, <2>1, <2>2 DEF ShownBy, Committed
<1>4. \A j \in 1 .. Len(results'[c]) :
          script'[c][j].type = "paginated-search" => ShownBy(c, j - 1, script[c][j].name, results[c][j].from)'
  BY <1>1 DEF FoundBy, ShownBy, Committed
<1> QED
  BY <1>1, <1>2, <1>3, <1>4 DEF FoundBy

\* A caller's operation ends with a report: a committed bulk is searchable, a search remembers where it began.
LEMMA FoundEnds ==
    ASSUME SolrAssumption, OperationsInv, Grows, NothingDeleted, NEW c \in Callers, FoundBy(c),
           \A i \in 1 .. Len(script[c]) : Kept(c, i)',
           op[c].step # "idle", op'[c].step = "idle", NEW r \in Reports, results'[c] = Append(results[c], r),
           Current(c).type = "paginated-search" => r.from = op[c].from,
           Current(c).type = "bulk-index" /\ Current(c).commit /\ r.result \in {"ok", "failed"} =>
               r.total <= solr'.searchable[Current(c).name]
    PROVE  FoundBy(c)'
<1> DEFINE k == Len(results[c])
<1>1. script' = script
  BY DEF Grows
<1>2. /\ k \in Nat /\ op[c].at = k + 1 /\ k + 1 \in 1 .. Len(script[c]) /\ results[c] \in Seq(Reports)
  BY ReportsTyped DEF OperationsInv, OperationsTypeOK
<1>3. /\ Len(results'[c]) = k + 1 /\ results'[c][k + 1] = r
      /\ \A i \in 1 .. k : results'[c][i] = results[c][i]
  BY <1>2
<1> HIDE DEF k
<1>4. Current(c) = script[c][k + 1]
  BY <1>2 DEF Current
<1>5. \A i \in 1 .. k : Committed(c, i)' = Committed(c, i)
  BY <1>1, <1>3 DEF Committed
<1>6. ASSUME NEW n \in Names
      PROVE  ShownBy(c, Len(results[c]), n, solr.searchable[n])'
  <2>1. /\ solr.searchable[n] \in Nat /\ solr'.searchable[n] \in Nat
        /\ solr.searchable[n] <= solr'.searchable[n]
    BY DEF Grows, Larger, OperationsInv, OperationsTypeOK, Server
  <2>2. ASSUME NEW i \in 1 .. k + 1, Committed(c, i)', script[c][i].name = n
        PROVE  results'[c][i].total <= solr'.searchable[n]
    <3>1. CASE i = k + 1
      BY <1>1, <1>3, <1>4, <2>2, <3>1 DEF Committed
    <3>2. CASE i # k + 1
      <4>1. i \in 1 .. k
        BY <1>2, <3>2
      <4>2. results[c][i].total <= solr.searchable[n] /\ results[c][i].total \in Nat
        BY <1>5, <2>2, <4>1, ReportsTyped DEF FoundBy, ShownBy, k
      <4> QED
        BY <1>3, <2>1, <4>1, <4>2
    <3> QED
      BY <3>1, <3>2
  <2> QED
    BY <1>1, <1>3, <2>2 DEF ShownBy
<1>7. ASSUME NEW j \in 1 .. k + 1, script[c][j].type = "paginated-search"
      PROVE  ShownBy(c, j - 1, script[c][j].name, results[c][j].from)'
  <2>1. ASSUME NEW i \in 1 .. k + 1, i <= j - 1, Committed(c, i)', script[c][i].name = script[c][j].name
        PROVE  results'[c][i].total <= results'[c][j].from
    <3>1. i \in 1 .. k /\ Committed(c, i) /\ results'[c][i] = results[c][i]
      BY <1>2, <1>3, <1>5, <2>1
    <3>2. CASE j = k + 1
      <4>1. r.from = op[c].from
        BY <1>4, <1>7, <3>2
      <4>2. results[c][i].total <= op[c].from
        BY <1>2, <1>4, <1>7, <2>1, <3>1, <3>2 DEF FoundBy, ShownBy, k
      <4> QED
        BY <1>3, <3>1, <3>2, <4>1, <4>2
    <3>3. CASE j # k + 1
      <4>1. j \in 1 .. k
        BY <1>2, <3>3
      <4>2. results[c][i].total <= results[c][j].from
        BY <1>7, <2>1, <3>1, <4>1 DEF FoundBy, ShownBy, k
      <4> QED
        BY <1>3, <3>1, <4>1, <4>2
    <3> QED
      BY <3>2, <3>3
  <2> QED
    BY <1>1, <1>3, <2>1 DEF ShownBy
<1> QED
  BY <1>1, <1>3, <1>6, <1>7 DEF FoundBy

\* What is accepted from a bulk goes to its collection, also when nobody waits for the call.
LEMMA AcceptedIsKept ==
    ASSUME SolrAssumption, OperationsInv, FoundInv, NothingDeleted, Grows, NEW k \in calls,
           solr' \in {a.solr : a \in Execute(solr, k)},
           added' = [added EXCEPT ![k.owner] = [added[k.owner] EXCEPT ![k.at] = @ + Accepted(k, solr')]],
           NEW c \in Callers, NEW i \in 1 .. Len(script[c])
    PROVE  Kept(c, i)'
<1>1. OperationsTypeOK /\ CallFits(k) /\ k \in HttpCalls /\ solr \in Server
  BY DEF OperationsInv, OperationsTypeOK
<1>2. /\ DOMAIN added = Callers /\ added[c] \in [1 .. Len(script[c]) -> Nat]
      /\ added[k.owner] \in [1 .. Len(script[k.owner]) -> Nat] /\ k.owner \in Callers
      /\ k.at \in 1 .. Len(script[k.owner]) /\ k.name = script[k.owner][k.at].name
      /\ k.count \in Nat /\ k.name \in Names
  BY <1>1 DEF OperationsTypeOK, HttpCalls, CallFits
<1>3. script' = script /\ Larger(solr, solr') /\ solr' \in Server
  BY DEF Grows
<1> SUFFICES ASSUME script[c][i].type = "bulk-index"
             PROVE  added'[c][i] <= solr'.docs[script[c][i].name]
  BY <1>3 DEF Kept
<1> DEFINE n == script[c][i].name
<1>4. n \in Names
  BY <1>1, ScriptIsSequence, OperationFields DEF OperationsTypeOK
<1>5. /\ added[c][i] \in Nat /\ solr.docs[n] \in Nat /\ solr'.docs[n] \in Nat
      /\ added[c][i] <= solr.docs[n] /\ solr.docs[n] <= solr'.docs[n]
  BY <1>1, <1>2, <1>3, <1>4 DEF FoundInv, FoundBy, Kept, Larger, Server
<1>6. CASE c = k.owner /\ i = k.at /\ Accepted(k, solr') # 0
  <2>1. k.call = "add" /\ solr' # solr /\ Accepted(k, solr') = k.count /\ k.name = n
    BY <1>2, <1>6 DEF Accepted
  <2>2. solr'.docs[n] = solr.docs[n] + k.count
    <3> DEFINE new == [solr EXCEPT !.docs = [solr.docs EXCEPT ![k.name] = solr.docs[k.name] + k.count], !.merging = 1]
    <3>1. solr' \in {a.solr : a \in add(solr, k.name, k.count)}
      BY <2>1 DEF Execute
    <3>2. \A a \in add(solr, k.name, k.count) : a.solr \in {solr, new}
      BY UnreliableAnswers DEF add, Answer
    <3>3. solr' = new
      BY <2>1, <3>1, <3>2
    <3>4. new.docs = [solr.docs EXCEPT ![k.name] = solr.docs[k.name] + k.count] /\ solr.docs \in [Names -> Nat]
      BY <1>1 DEF Server
    <3> QED
      BY <1>4, <2>1, <3>3, <3>4
  <2>3. added'[c][i] = added[c][i] + k.count
    BY <1>2, <1>6, <2>1
  <2> QED
    BY <1>2, <1>5, <2>2, <2>3
<1>7. CASE ~ (c = k.owner /\ i = k.at /\ Accepted(k, solr') # 0)
  <2>1. added'[c][i] = added[c][i]
    BY <1>2, <1>5, <1>7
  <2> QED
    BY <1>5, <2>1
<1> QED
  BY <1>6, <1>7

\* A bulk that was to commit does not end before Solr has answered the commit.
LEMMA BulksEndCommitted ==
    ASSUME NEW p, p.type = "bulk-index", p.commit, NEW o, o.step # "idle", o.step \in StepsOf(p.type), NEW answer, NEW docs,
           o \in Progress, RunnerFor(p, o, answer, docs).step \in {"ok", "failed"}
    PROVE  o.step = "commit" /\ answer = "ok" /\ RunnerFor(p, o, answer, docs).total = o.total
<1> DEFINE r == SolrBulkIndex(p, o, answer)
<1>1. RunnerFor(p, o, answer, docs) = r
  BY DEF RunnerFor
<1>2. o.step \in {"add", "commit"}
  BY DEF StepsOf
<1>3. CASE o.step = "add"
  <2>1. \A n : /\ NextBatch(p, [o EXCEPT !.total = n]).step \in {"add", "commit"}
               /\ NextBatch(p, [o EXCEPT !.errors = n]).step \in {"add", "commit"}
    BY DEF NextBatch, Progress
  <2>2. \/ \E n : r = NextBatch(p, [o EXCEPT !.total = n])
        \/ \E n : r = NextBatch(p, [o EXCEPT !.errors = n])
    BY <1>3 DEF SolrBulkIndex
  <2> HIDE DEF r
  <2>3. r.step \in {"add", "commit"}
    BY <2>1, <2>2
  <2> QED
    BY <1>1, <2>3
<1>4. CASE o.step = "commit" /\ answer # "ok"
  <2>1. r = Raised(o, answer)
    BY <1>4 DEF SolrBulkIndex
  <2>2. r.step \notin {"ok", "failed"}
    BY <2>1, RaisedEnds
  <2> QED
    BY <1>1, <2>2
<1>5. CASE o.step = "commit" /\ answer = "ok"
  <2>1. PICK x \in {"ok", "failed"} : r = Ends(o, x)
    BY <1>5 DEF SolrBulkIndex
  <2>2. r.total = o.total
    BY <2>1, ResultsEnd DEF Results
  <2> QED
    BY <1>1, <1>5, <2>2
<1> QED
  BY <1>2, <1>3, <1>4, <1>5

\* A search keeps the mark of its beginning.
LEMMA SearchesKeepFrom ==
    ASSUME NEW p, p.type = "paginated-search", NEW o \in Progress, NEW answer, NEW docs
    PROVE  RunnerFor(p, o, answer, docs).from = o.from
<1> DEFINE r == SolrPaginatedSearch(p, o, answer, docs)
<1>1. RunnerFor(p, o, answer, docs) = r
  BY DEF RunnerFor
<1>2. \/ r = Raised(o, answer) \/ r = Ends(o, "ok")
      \/ \E found : r = [o EXCEPT !.total = @ + found, !.seen = @ + found]
  BY DEF SolrPaginatedSearch
<1>3. Raised(o, answer).from = o.from /\ Ends(o, "ok").from = o.from
  BY RaisedEnds, ResultsEnd DEF Results
<1>4. \A found : [o EXCEPT !.total = @ + found, !.seen = @ + found].from = o.from
  BY DEF Progress
<1> HIDE DEF r
<1> QED
  BY <1>1, <1>2, <1>3, <1>4

LEMMA FoundReturns ==
    ASSUME SolrAssumption, OperationsInv, OperationsInv', FoundInv, NothingDeleted, NEW k \in calls, CallReturns(k),
           NEW c \in Callers
    PROVE  FoundBy(c)'
<1>1. OperationsTypeOK /\ CallFits(k) /\ k \in HttpCalls /\ k.owner \in Callers /\ Behind(solr) /\ UnderWay(k.owner)
  BY DEF OperationsInv, OperationsTypeOK, HttpCalls
<1>2. PICK a \in Execute(solr, k) :
          /\ solr' = a.solr
          /\ added' = [added EXCEPT ![k.owner] = [added[k.owner] EXCEPT ![k.at] = @ + Accepted(k, a.solr)]]
          /\ \/ ~ k.live /\ op' = op /\ results' = results
             \/ k.live /\ \E docs \in Visible(Current(k.owner), op[k.owner]) :
                             GoesOn(k, RunnerFor(Current(k.owner), op[k.owner], a.answer, docs))
  BY DEF CallReturns
<1>3. script' = script
  BY DEF CallReturns
<1>4. Sound(solr, k, a)
  BY <1>1, AnswersAreSound DEF OperationsTypeOK
<1>5. Grows
  BY <1>1, <1>2, <1>3, <1>4, ReturnsGrow
<1>6. \A i \in 1 .. Len(script[c]) : Kept(c, i)'
  BY <1>2, <1>5, AcceptedIsKept
<1>7. FoundBy(c)
  BY DEF FoundInv
<1>8. CASE ~ k.live \/ c # k.owner
  <2>1. results'[c] = results[c] /\ op'[c] = op[c]
    <3>1. CASE ~ k.live
      BY <1>2, <3>1
    <3>2. CASE k.live /\ c # k.owner
      BY <1>1, <1>2, <3>2 DEF GoesOn, Record, OperationsTypeOK
    <3> QED
      BY <1>8, <3>1, <3>2
  <2> QED
    BY <1>5, <1>6, <1>7, <2>1, FoundStays
<1>9. CASE k.live /\ c = k.owner
  <2> DEFINE o == op[c]
             p == Current(c)
  <2>1. PICK docs : GoesOn(k, RunnerFor(p, o, a.answer, docs))
    BY <1>2, <1>9
  <2> DEFINE r == RunnerFor(p, o, a.answer, docs)
             report == [result |-> r.step, total |-> IF r.step \in {"ok", "failed"} THEN r.total ELSE 0,
                        from |-> r.from, docs |-> solr.searchable[p.name]]
  <2>2. /\ o \in Progress /\ o.step # "idle" /\ o.at = k.at /\ o.step = k.call /\ o.step \in StepsOf(p.type)
        /\ k.name = p.name /\ k.name \in Names /\ o.at \in 1 .. Len(script[c])
    BY <1>1, <1>9 DEF CallFits, UnderWay, OperationsTypeOK, Current, HttpCalls
  <2>3. p.type = "paginated-search" => r.from = o.from
    BY <2>2, SearchesKeepFrom
  <2>4. p.type = "bulk-index" /\ p.commit /\ r.step \in {"ok", "failed"} =>
            /\ r.total = o.total /\ o.total <= solr'.searchable[p.name]
    <3>1. SUFFICES ASSUME p.type = "bulk-index", p.commit, r.step \in {"ok", "failed"}
                   PROVE  r.total = o.total /\ o.total <= solr'.searchable[p.name]
      OBVIOUS
    <3>2. o.step = "commit" /\ a.answer = "ok" /\ r.total = o.total
      <4>1. RunnerFor(p, o, a.answer, docs).step \in {"ok", "failed"}
        BY <3>1
      <4> HIDE DEF p, o
      <4> QED
        BY <2>2, <3>1, <4>1, BulksEndCommitted
    <3>3. a \in commit(solr, k.name)
      BY <2>2, <3>2 DEF Execute
    <3>4. solr'.searchable[p.name] = solr.docs[p.name]
      BY <1>1, <1>2, <2>2, <3>2, <3>3, CommitIsSound DEF OperationsTypeOK
    <3>5. added[c][o.at] <= solr.docs[p.name]
      BY <1>7, <2>2, <3>1 DEF FoundBy, Kept, Current
    <3>6. o.total <= added[c][o.at]
      BY <1>1, <1>9, <2>2, <3>1 DEF UnderWay, BulkFits
    <3>7. o.total \in Nat /\ added[c][o.at] \in Nat /\ solr.docs[p.name] \in Nat
      BY <1>1, <2>2 DEF Progress, OperationsTypeOK, Server
    <3> QED
      BY <3>2, <3>4, <3>5, <3>6, <3>7
  <2> HIDE DEF r
  <2>5. CASE r.step \in Results
    <3>1. op' = [op EXCEPT ![c] = [Idle EXCEPT !.at = r.at]] /\ results' = [results EXCEPT ![c] = Append(results[c], report)]
      BY <1>9, <2>1, <2>5 DEF GoesOn, Record, r
    <3>2. results'[c] = Append(results[c], report) /\ op'[c].step = "idle"
      BY <1>1, <3>1 DEF OperationsTypeOK, Idle
    <3>3. report \in Reports
      <4>1. results[c] \in Seq(Reports) /\ results'[c] \in Seq(Reports)
        BY DEF OperationsInv, OperationsTypeOK
      <4> HIDE DEF report
      <4> QED
        BY <3>2, <4>1, LastAppended
    <3>4. p.type = "bulk-index" /\ p.commit /\ report.result \in {"ok", "failed"} =>
              report.total <= solr'.searchable[p.name]
      BY <2>4
    <3>5. p.type = "paginated-search" => report.from = o.from
      BY <2>3
    <3> HIDE DEF report
    <3> QED
      BY <1>5, <1>6, <1>7, <2>2, <3>2, <3>3, <3>4, <3>5, FoundEnds
  <2>6. CASE r.step \notin Results
    <3>1. op' = [op EXCEPT ![c] = r] /\ results' = results
      BY <1>9, <2>1, <2>6 DEF GoesOn, r
    <3>2. op'[c] = r
      BY <1>1, <3>1 DEF OperationsTypeOK
    <3>3. ASSUME op'[c].step # "idle"
          PROVE  op'[c].at = o.at
      <4>1. Len(results'[c]) = op'[c].at - 1
        BY <3>3 DEF OperationsInv, Reported
      <4>2. Len(results[c]) = o.at - 1
        BY <2>2 DEF OperationsInv, Reported
      <4>3. o.at \in Nat /\ op'[c].at \in Nat
        BY <2>2 DEF OperationsInv, OperationsTypeOK, Progress
      <4> QED
        BY <3>1, <4>1, <4>2, <4>3
    <3> QED
      BY <1>5, <1>6, <1>7, <2>2, <2>3, <3>1, <3>2, <3>3, FoundStays
  <2> QED
    BY <2>5, <2>6
<1> QED
  BY <1>8, <1>9

LEMMA FoundStep ==
    ASSUME SolrAssumption, OperationsInv, OperationsInv', FoundInv, [OperationsNext]_operationVars
    PROVE  FoundInv'
<1>1. script' = script
  BY DEF OperationsNext, BeginOperation, TimesOut, TakeThread, CallReturns, MergeEnds, CommitsWithin, operationVars
<1> SUFFICES ASSUME NothingDeleted, NEW c \in Callers
             PROVE  FoundBy(c)'
  BY <1>1, NothingDeletedStays DEF FoundInv
<1>2. OperationsTypeOK /\ Behind(solr) /\ UnderWay(c) /\ FoundBy(c) /\ solr' \in Server
  BY DEF OperationsInv, OperationsTypeOK, FoundInv
<1>3. solr'.docs = solr.docs /\ added' = added => \A i \in 1 .. Len(script[c]) : Kept(c, i)'
  BY <1>1, <1>2 DEF Kept, FoundBy
<1>4. solr'.docs = solr.docs /\ solr'.searchable = solr.searchable /\ added' = added => Grows
  BY <1>1, <1>2, SameGrows
<1>5. ASSUME NEW d \in Callers, BeginOperation(d)
      PROVE  FoundBy(c)'
  <2> DEFINE i == op[d].at + 1
             o == FirstStep(script[d][i], [Idle EXCEPT !.at = i])
  <2>1. /\ op' = [op EXCEPT ![d] = o] /\ results' = results /\ solr' = solr /\ added' = added
        /\ op[d].at < Len(script[d])
    BY <1>5 DEF BeginOperation
  <2>2. CASE c # d
    BY <1>2, <1>3, <1>4, <2>1, <2>2, FoundStays DEF OperationsTypeOK
  <2>3. CASE c = d
    <3>1. i \in 1 .. Len(script[c]) /\ i \in Nat /\ script[c][i] \in Operation
      BY <1>2, <2>1, <2>3, ScriptIsSequence DEF OperationsTypeOK
    <3>2. o.at = i /\ op'[c] = o
      BY <1>2, <2>1, <2>3, <3>1, FirstStepProceeds DEF OperationsTypeOK
    <3>3. Current(c)' = script[c][i]
      BY <1>1, <3>2 DEF Current
    <3>4. ASSUME script[c][i].type = "paginated-search"
          PROVE  script[c][i].name \in Names /\ o.from = solr.searchable[script[c][i].name]
      <4>1. o = [[Idle EXCEPT !.at = i] EXCEPT !.step = "page", !.from = solr.searchable[script[c][i].name]]
        BY <2>3, <3>4 DEF FirstStep
      <4> QED
        BY <3>1, <4>1, OperationFields DEF Idle
    <3> HIDE DEF o, i
    <3> QED
      BY <1>2, <1>3, <1>4, <2>1, <3>2, <3>3, <3>4, FoundBegins
  <2> QED
    BY <2>2, <2>3
<1>6. ASSUME NEW d \in Callers, TimesOut(d)
      PROVE  FoundBy(c)'
  <2> DEFINE report == [result |-> "timeout", total |-> IF "timeout" \in {"ok", "failed"} THEN op[d].total ELSE 0,
                        from |-> op[d].from, docs |-> solr.searchable[Current(d).name]]
  <2>1. /\ op[d].step # "idle" /\ solr' = solr /\ added' = added
        /\ op' = [op EXCEPT ![d] = [Idle EXCEPT !.at = op[d].at]]
        /\ results' = [results EXCEPT ![d] = Append(results[d], report)]
    BY <1>6 DEF TimesOut, Record
  <2> HIDE DEF report
  <2>2. CASE c # d
    BY <1>2, <1>3, <1>4, <2>1, <2>2, FoundStays DEF OperationsTypeOK
  <2>3. CASE c = d
    <3>1. results'[c] = Append(results[c], report) /\ op'[c].step = "idle"
      BY <1>2, <2>1, <2>3 DEF OperationsTypeOK, Idle
    <3>2. results[c] \in Seq(Reports) /\ results'[c] \in Seq(Reports)
      BY DEF OperationsInv, OperationsTypeOK
    <3>3. report \in Reports
      BY <3>1, <3>2, LastAppended
    <3>4. report.from = op[c].from /\ report.result \notin {"ok", "failed"}
      BY <2>3 DEF report
    <3> QED
      BY <1>2, <1>3, <1>4, <2>1, <2>3, <3>1, <3>3, <3>4, FoundEnds
  <2> QED
    BY <2>2, <2>3
<1>7. ASSUME NEW k \in calls, TakeThread(k)
      PROVE  FoundBy(c)'
  <2>1. solr' = solr /\ added' = added /\ op' = op /\ results' = results
    BY <1>7 DEF TakeThread
  <2> QED
    BY <1>2, <1>3, <1>4, <2>1, FoundStays
<1>8. ASSUME NEW k \in calls, CallReturns(k)
      PROVE  FoundBy(c)'
  BY <1>8, FoundReturns
<1>9. CASE MergeEnds
  <2>1. /\ solr' = [solr EXCEPT !.merging = 0] /\ added' = added /\ op' = op /\ results' = results
    BY <1>9 DEF MergeEnds
  <2>2. solr'.docs = solr.docs /\ solr'.searchable = solr.searchable
    BY <1>2, <2>1 DEF OperationsTypeOK, Server
  <2> QED
    BY <1>2, <1>3, <1>4, <2>1, <2>2, FoundStays
<1>10. ASSUME NEW n \in Names, CommitsWithin(n)
       PROVE  FoundBy(c)'
  <2>1. added' = added /\ op' = op /\ results' = results
    BY <1>10 DEF CommitsWithin
  <2>2. solr'.docs = solr.docs /\ Grows
    BY <1>10, CommitsWithinKeepsInv
  <2> QED
    BY <1>2, <1>3, <2>1, <2>2, FoundStays
<1>11. CASE UNCHANGED operationVars
  <2>1. solr' = solr /\ added' = added /\ op' = op /\ results' = results
    BY <1>11 DEF operationVars
  <2> QED
    BY <1>2, <1>3, <1>4, <2>1, FoundStays
<1> QED
  BY <1>5, <1>6, <1>7, <1>8, <1>9, <1>10, <1>11 DEF OperationsNext

LEMMA FoundBegin ==
    ASSUME SolrAssumption, OperationsInit
    PROVE  FoundInv
<1>1. script \in [Callers -> Seq(Operation)] /\ script \in Scripts
  BY SolrAssumption DEF OperationsInit
<1>2. ASSUME NEW c \in Callers, NEW i \in 1 .. Len(script[c])
      PROVE  Kept(c, i)
  <2>1. script[c][i].name \in Names
    BY <1>1, ScriptIsSequence, OperationFields
  <2> QED
    BY <2>1 DEF Kept, OperationsInit
<1>3. \A c \in Callers : results[c] = <<>> /\ op[c].step = "idle"
  BY DEF OperationsInit, Idle
<1> QED
  BY <1>2, <1>3 DEF FoundInv, FoundBy, ShownBy

LEMMA FoundImplies ==
    ASSUME SolrAssumption, OperationsInv, FoundInv
    PROVE  CommittedIsFound
<1> SUFFICES ASSUME NothingDeleted, NEW c \in Callers,
                    NEW i \in 1 .. Len(results[c]), NEW j \in 1 .. Len(results[c]),
                    i < j, Committed(c, i), script[c][i].name = script[c][j].name,
                    script[c][j].type = "paginated-search", results[c][j].result = "ok"
             PROVE  results[c][i].total <= results[c][j].total
  BY DEF CommittedIsFound
<1>1. /\ results[c][i].total \in Nat /\ results[c][j].from \in Nat /\ results[c][j].total \in Nat
      /\ Len(results[c]) \in Nat
  BY ReportsTyped DEF Reports
<1>2. results[c][i].total <= results[c][j].from
  <2>1. ShownBy(c, j - 1, script[c][j].name, results[c][j].from)
    BY DEF FoundInv, FoundBy
  <2>2. i <= j - 1
    BY <1>1
  <2> QED
    BY <2>1, <2>2 DEF ShownBy
<1>3. results[c][j].from <= results[c][j].total
  BY DEF OperationsInv, Reported
<1> QED
  BY <1>1, <1>2, <1>3

\* The invariant says that the runners are honest.
LEMMA OperationsInvImplies ==
    ASSUME SolrAssumption, OperationsInv, FoundInv
    PROVE  OperationsAreHonest
<1>1. OperationsTypeOK /\ ReportedIsIndexed /\ PaginationComplete
  BY DEF OperationsInv, Reported, ReportedIsIndexed, PaginationComplete
<1>2. \A k \in calls : ~ k.live => k.running
  BY DEF OperationsInv, CallFits
<1>3. Cardinality({k \in calls : k.running}) <= PoolSize
  BY DEF OperationsInv, PoolFits
<1>4. ASSUME NEW c \in Callers
      PROVE  Cardinality({k \in calls : k.owner = c /\ k.live}) <= 1
  <2> DEFINE L == {k \in calls : k.owner = c /\ k.live}
  <2>1. \A j, k \in L : j = k
    BY DEF OperationsInv, OneLiveCall
  <2> HIDE DEF L
  <2>2. CASE L = {}
    BY <2>2, FS_EmptySet DEF L
  <2>3. CASE L # {}
    <3>1. PICK k \in L : TRUE
      BY <2>3
    <3>2. L = {k}
      BY <2>1, <3>1
    <3>3. Cardinality(L) = 1
      BY <3>2, FS_Singleton
    <3> QED
      BY <3>3 DEF L
  <2> QED
    BY <2>2, <2>3
<1>5. AbandonedCallsBounded
  BY <1>2, <1>3, <1>4 DEF AbandonedCallsBounded
<1> QED
  BY <1>1, <1>5, FoundImplies DEF OperationsAreHonest

\* The runners of any number of clients say what they have done: no bulk reports a document that
\* Solr has not accepted from it, no search misses a document that was searchable when it began, or
\* that an earlier bulk of its client has committed, and
\* what goes on behind their backs is bounded by the pool of threads (SolrBulkIndex,
\* SolrPaginatedSearch, _run_in_executor, AsyncExecutor._execute_request).
THEOREM OperationsHonest == OperationsSpec => []OperationsAreHonest
<1>1. OperationsInit => OperationsInv /\ FoundInv
  BY SolrAssumption, OperationsBegin, FoundBegin
<1>2. OperationsInv /\ FoundInv /\ [OperationsNext]_operationVars => (OperationsInv /\ FoundInv)'
  <2>1. OperationsInv /\ FoundInv /\ [OperationsNext]_operationVars => OperationsInv'
    BY SolrAssumption, OperationsStep
  <2> QED
    BY SolrAssumption, <2>1, FoundStep
<1>3. OperationsInv /\ FoundInv => OperationsAreHonest
  BY SolrAssumption, OperationsInvImplies
<1> QED
  BY <1>1, <1>2, <1>3, PTL DEF OperationsSpec
=============================================================================
