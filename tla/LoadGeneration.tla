-------------------------- MODULE LoadGeneration --------------------------
(***************************************************************************)
(* The load generator inside a worker: AsyncIoAdapter gathers one          *)
(* AsyncExecutor per client, which draws invocations from its schedule,    *)
(* waits for the scheduled time, runs the request under a timeout and      *)
(* turns the answer into a sample (osbenchmark/worker_coordinator/         *)
(* worker_coordinator.py, scheduler.py, osbenchmark/context.py).           *)
(*                                                                         *)
(* Time is counted in units from total_start, which the coroutines of one  *)
(* gather share.  The event loop is prompt: time passes only when no       *)
(* coroutine is due, and every request or skip takes at least one unit.    *)
(***************************************************************************)
EXTENDS Integers, FiniteSets

CONSTANTS
    Clients,        \* the clients of the worker
    Scenarios,      \* what they execute: [redline, tasks, timed]
    Weights,        \* weights a runner reports for a successful request
    BaseTimeout,    \* the client option timeout
    ErrorQueueSize, \* maxsize of the error queue
    MaxTime         \* bound: the clock

None == -1

\* What a client executes: its share of a task, the throughput that the task is throttled to, how
\* often its parameter source can be asked, and whether its runner knows when it is complete.
\* Numbers are given as such, or are None.
Optional == Nat \union {None}
TaskDefinitions ==
    [warmup_iterations : Optional, iterations : Optional, warmup_time_period : Optional,
     time_period : Optional, ramp_up_time_period : Optional, ramp_down_time_period : Optional,
     client_index : Nat, clients : Nat \ {0}, global_client_index : Nat, total_clients : Nat \ {0},
     completes_parent : BOOLEAN, interval : Nat, unit : {"same", "ops", "other"},
     params : Optional, runner_completes : BOOLEAN, on_error : {"continue", "abort"}]

ASSUME LoadAssumption ==
    /\ IsFiniteSet(Clients) /\ Clients # {}
    /\ \A s \in Scenarios : s \in [redline : BOOLEAN, timed : BOOLEAN, tasks : [Clients -> TaskDefinitions]]
    /\ Weights \subseteq Nat \ {0}
    /\ BaseTimeout \in Nat \ {0} /\ ErrorQueueSize \in Nat /\ MaxTime \in Nat

VARIABLES
    scenario,       \* the member of Scenarios that runs
    clock,
    complete,       \* the event a completing task sets
    cancel,         \* the event the worker sets when it is told to exit
    enabled,        \* shared_states: the clients the feedback actor lets run
    errors,         \* length of the error queue
    ex,             \* the executors
    last,           \* an executor's last sample
    failure         \* what the gather has raised

loadVars == <<scenario, clock, complete, cancel, enabled, errors, ex, last, failure>>

Task(c) == scenario.tasks[c]

-----------------------------------------------------------------------------
(***************************************************************************)
(* Schedules                                                               *)
(***************************************************************************)
\* A parameter source that ends is run with a time based schedule without a period.
RequiresTimePeriodSchedule(t) ==
    \/ t.warmup_time_period # None \/ t.time_period # None
    \/ /\ t.warmup_iterations = None /\ t.iterations = None
       /\ t.runner_completes \/ t.params # None

OrZero(n) == IF n = None THEN 0 ELSE n

\* The loop control of schedule_for: its kind, its warm-up and its length.
LoopControl(t) ==
    IF RequiresTimePeriodSchedule(t)
    THEN [kind |-> "time", warmup |-> OrZero(t.warmup_time_period), length |-> t.time_period]
    ELSE [kind |-> "iterations", warmup |-> OrZero(t.warmup_iterations),
          length |-> IF OrZero(t.iterations) > 0 THEN t.iterations
                     ELSE IF t.params = None THEN 1 ELSE None]

Infinite(t) == LoopControl(t).length = None

\* Mutant: the last client stops first.
DurationByIndex(t) ==
    (LoopControl(t).warmup + LoopControl(t).length) * t.clients
        - OrZero(t.ramp_down_time_period) * t.client_index

\* When a client ends its time period, times the number of clients of the task:
\* during ramp-down client 0 stops first and the last client at the very end.
ScaledDuration(t) ==
    (LoopControl(t).warmup + LoopControl(t).length) * t.clients
        - OrZero(t.ramp_down_time_period) * ((t.clients - 1) - t.client_index)

\* Mutant: one iteration too many.
CompletedLate(t, e) ==
    IF LoopControl(t).kind = "time"
    THEN e.now * t.clients >= ScaledDuration(t)
    ELSE e.it > LoopControl(t).warmup + LoopControl(t).length

ControlCompleted(t, e) ==
    IF LoopControl(t).kind = "time"
    THEN e.now * t.clients >= ScaledDuration(t)
    ELSE e.it >= LoopControl(t).warmup + LoopControl(t).length

\* Mutant: the comparison is the wrong way round.
SampleTypeSwapped(t, e) ==
    IF (IF LoopControl(t).kind = "time" THEN e.now ELSE e.it) >= LoopControl(t).warmup
    THEN "Warmup" ELSE "Normal"

SampleType(t, e) ==
    IF (IF LoopControl(t).kind = "time" THEN e.now ELSE e.it) < LoopControl(t).warmup
    THEN "Warmup" ELSE "Normal"

\* ramp_up_wait_time has passed.
RampedUp(t) == clock * t.total_clients >= OrZero(t.ramp_up_time_period) * t.global_client_index

(***************************************************************************)
(* Schedulers.  interval is the time one unit of work may take a client at *)
(* the target throughput (zero: no target); a client starts unthrottled    *)
(* and is throttled once it has seen the weight of a request.              *)
(***************************************************************************)
\* Mutant: the time of the previous request is forgotten.
NextFromNow(t, e) ==
    IF t.interval = 0 \/ e.current_weight = 0 THEN 0 ELSE e.current_weight * t.interval

NextScheduled(t, e) ==
    IF t.interval = 0 \/ e.current_weight = 0 THEN 0
    ELSE e.expected + e.current_weight * t.interval

\* The weight UnitAwareScheduler throttles by after a request.
WeightAfter(t, e, weight) ==
    IF t.interval = 0 \/ weight = 0 \/ e.current_weight = weight THEN e.current_weight
    ELSE IF t.unit = "ops" THEN 1 ELSE weight

\* A target throughput in a unit other than the one that the runner reports.
UnitMismatch(t, e, weight) ==
    t.interval > 0 /\ t.unit = "other" /\ weight > 0 /\ e.current_weight # weight

-----------------------------------------------------------------------------
Ended == {"done", "raised", "abandoned"}

Executors ==
    [pc : Ended \union {"rampup", "waiting", "request", "skip", "next"}, now : Nat, it : Nat,
     expected : Nat, type : {"none", "Warmup", "Normal"}, client_state : BOOLEAN, params : Optional,
     current_weight : Nat, begin : Nat, warm : Nat, measured : Nat, throttled : Nat]
Samples ==
    [type : {"none", "Warmup", "Normal"}, success : BOOLEAN,
     answer : {"none", "success", "failure", "transport", "connection", "timeout"},
     latency : Int, service : Int, processing : Int]

\* The executors, their schedules, the shared client states and the bounded error queue of
\* AsyncExecutor keep their types.
LoadTypeOK ==
    /\ scenario \in Scenarios
    /\ clock \in 0 .. MaxTime
    /\ complete \in BOOLEAN /\ cancel \in BOOLEAN
    /\ enabled \in [Clients -> BOOLEAN]
    /\ errors \in 0 .. ErrorQueueSize
    /\ ex \in [Clients -> Executors]
    /\ last \in [Clients -> Samples]
    /\ failure \in {"none", "answer", "KeyError", "exception", "unit"}

NoSample == [type |-> "none", success |-> TRUE, answer |-> "none", latency |-> 0, service |-> 0,
             processing |-> 0]

\* AsyncIoAdapter.run and the beginning of AsyncExecutor.__call__
LoadInit ==
    /\ scenario \in Scenarios
    /\ clock = 0 /\ complete = FALSE /\ cancel = FALSE /\ errors = 0 /\ failure = "none"
    /\ enabled = [c \in Clients |-> TRUE]
    /\ ex = [c \in Clients |->
                [pc |-> "rampup", now |-> 0, it |-> 0, expected |-> 0, type |-> "none", client_state |-> TRUE,
                 params |-> Task(c).params, current_weight |-> 0, begin |-> 0,
                 warm |-> 0, measured |-> 0, throttled |-> 0]]
    /\ last = [c \in Clients |-> NoSample]

\* Mutant: completion is not signalled.
SignalsNothing(c) == complete' = complete

\* The finally branch: a completing task signals completion however it ends.
SignalsCompletion(c) == complete' = (complete \/ Task(c).completes_parent)

ClientEnds(c) ==
    /\ ex' = [ex EXCEPT ![c].pc = "done"]
    /\ SignalsCompletion(c)

\* The gather raises the first exception and the loop is closed, whatever the
\* other coroutines are doing.
ExecutorRaises(c, why) ==
    /\ failure' = why
    /\ ex' = [d \in Clients |-> IF d = c THEN [ex[d] EXCEPT !.pc = "raised"]
                                ELSE IF ex[d].pc \in Ended THEN ex[d]
                                ELSE [ex[d] EXCEPT !.pc = "abandoned"]]
    /\ SignalsCompletion(c)

RampUp(c) ==
    /\ ex[c].pc = "rampup" /\ RampedUp(Task(c))
    /\ ex' = [ex EXCEPT ![c].pc = "next"]
    /\ UNCHANGED <<scenario, cancel, clock, complete, enabled, errors, last, failure>>

\* The schedule has another invocation.
HasNext(c) ==
    /\ Infinite(Task(c)) \/ ~ ControlCompleted(Task(c), ex[c])
    /\ ex[c].params # 0

\* The schedule yields its next invocation; whether the client is paused is read before it waits.
Invocation(c) ==
    LET t == Task(c)
    IN  /\ ex[c].pc = "next" /\ HasNext(c) /\ ~ cancel
        /\ ex' = [ex EXCEPT ![c] = [ex[c] EXCEPT !.pc = "waiting",
                                                 !.expected = NextScheduled(t, ex[c]),
                                                 !.type = SampleType(t, ex[c]),
                                                 !.client_state = enabled[c],
                                                 !.params = IF @ = None THEN None ELSE @ - 1]]
        /\ UNCHANGED <<scenario, cancel, clock, complete, enabled, errors, last, failure>>

\* Its time is over, its parameter source has nothing left, or the user cancels.
ScheduleEnds(c) ==
    /\ ex[c].pc = "next"
    /\ ~ HasNext(c) \/ cancel
    /\ ClientEnds(c)
    /\ UNCHANGED <<scenario, cancel, clock, enabled, errors, last, failure>>

\* The throttled request waits for its scheduled time.
ScheduledTimeReached(c) == clock >= ex[c].expected

\* _execute_request: an invocation waits for its time; a client that was paused skips it.
Begin(c) ==
    LET warm == ex[c].type = "Warmup"
    IN  /\ ex[c].pc = "waiting" /\ ScheduledTimeReached(c)
        /\ ex' = [ex EXCEPT ![c] = [ex[c] EXCEPT !.pc = IF ex[c].client_state THEN "request" ELSE "skip",
                                                 !.begin = clock,
                                                 !.warm = IF warm THEN @ + 1 ELSE @,
                                                 !.measured = IF warm THEN @ ELSE @ + 1,
                                                 !.throttled = IF ex[c].expected > 0 THEN @ + 1 ELSE @]]
        /\ UNCHANGED <<scenario, cancel, clock, complete, enabled, errors, last, failure>>

\* The loop goes on: the loop control counts and looks at the clock.
Continues(c, weight) ==
    ex' = [ex EXCEPT ![c] = [ex[c] EXCEPT !.pc = "next", !.it = @ + 1, !.now = clock,
                                          !.current_weight = WeightAfter(Task(c), ex[c], weight)]]

SkipEnds(c) ==
    /\ ex[c].pc = "skip" /\ clock > ex[c].begin
    /\ IF complete THEN ClientEnds(c) ELSE Continues(c, 0) /\ UNCHANGED complete
    /\ UNCHANGED <<scenario, cancel, clock, enabled, errors, last, failure>>

\* An answer of the runner: what it says or raises, the weight, whether the runner is complete.
Answers(t) ==
    [answer : {"success", "failure"}, weight : Weights,
     completed : IF t.runner_completes THEN BOOLEAN ELSE {FALSE}]
        \union [answer : {"transport", "connection", "KeyError", "exception"}, weight : {0},
                completed : {FALSE}]

\* Mutant: only errors of the transport abort the benchmark.
RaisesOnTransport(t, answer) ==
    \/ answer \in {"KeyError", "exception"}
    \/ /\ ~ scenario.redline
       /\ answer = "connection" \/ (answer = "transport" /\ t.on_error = "abort")

\* Mutant: a lost connection is fatal in redline testing, too.
RaisesInRedline(t, answer) ==
    \/ answer \in {"KeyError", "exception", "connection"}
    \/ answer \in {"failure", "transport"} /\ t.on_error = "abort" /\ ~ scenario.redline

\* execute_single lets the exception through.  Redline testing suppresses the
\* error about missing parameters, but then reads meta data never assigned.
Raises(t, answer) ==
    \/ answer \in {"KeyError", "exception"}
    \/ /\ ~ scenario.redline
       /\ answer = "connection" \/ (answer \in {"failure", "transport"} /\ t.on_error = "abort")

\* Mutant: the queue has no limit.
ReportsAlways(success) ==
    errors' = IF scenario.redline /\ (~ success \/ ~ scenario.timed) THEN errors + 1 ELSE errors

\* A failed request is reported, and so is one whose runner has recorded no timings.
ReportsError(success) ==
    errors' = IF scenario.redline /\ (~ success \/ ~ scenario.timed) /\ errors < ErrorQueueSize
              THEN errors + 1 ELSE errors

\* Mutant: the context is not renewed, the start of the first request stays.
FirstRequestStart(c, answer) == 0

\* RequestContextManager: without a start of the request its processing counts,
\* except that a timeout records a start of its own.
RequestStart(c, answer) == IF answer = "timeout" /\ ~ scenario.timed THEN clock ELSE ex[c].begin

Sample(c, answer) ==
    [type |-> ex[c].type, success |-> answer = "success", answer |-> answer,
     service |-> clock - RequestStart(c, answer),
     latency |-> IF ex[c].expected > 0 THEN clock - ex[c].expected
                 ELSE clock - RequestStart(c, answer),
     processing |-> clock - ex[c].begin]

\* _process_results, and the end of the loop's body
ProcessResults(c, answer, weight, runner_completed) ==
    LET t == Task(c)
    IN  /\ ReportsError(answer = "success")
        /\ IF UnitMismatch(t, ex[c], weight)
           THEN ExecutorRaises(c, "unit") /\ UNCHANGED last
           ELSE /\ last' = [last EXCEPT ![c] = Sample(c, answer)]
                /\ IF runner_completed \/ (complete /\ ~ t.completes_parent)
                   THEN ClientEnds(c)
                   ELSE Continues(c, weight) /\ UNCHANGED complete
                /\ UNCHANGED failure

RequestEnds(c) ==
    /\ ex[c].pc = "request" /\ clock > ex[c].begin
    /\ \E a \in Answers(Task(c)) :
          IF Raises(Task(c), a.answer)
          THEN /\ ExecutorRaises(c, IF a.answer \in {"KeyError", "exception"} THEN a.answer ELSE "answer")
               /\ UNCHANGED <<errors, last>>
          ELSE ProcessResults(c, a.answer, a.weight, a.completed)
    /\ UNCHANGED <<scenario, cancel, clock, enabled>>

\* asyncio.wait_for gives up: execute_single is cancelled and never looks at on_error.
RequestTimesOut(c) ==
    /\ ex[c].pc = "request" /\ clock = ex[c].begin + BaseTimeout
    /\ ProcessResults(c, "timeout", 0, FALSE)
    /\ UNCHANGED <<scenario, cancel, clock, enabled>>

\* The feedback actor pauses and resumes clients in the shared dictionary.
SetClientState(c) ==
    /\ scenario.redline /\ ex[c].pc \notin Ended
    /\ enabled' = [enabled EXCEPT ![c] = ~ @]
    /\ UNCHANGED <<scenario, cancel, clock, complete, errors, ex, last, failure>>

\* Worker.receiveMsg_ActorExitRequest
Cancel ==
    /\ ~ cancel /\ \E c \in Clients : ex[c].pc \notin Ended
    /\ cancel' = TRUE
    /\ UNCHANGED <<scenario, clock, complete, enabled, errors, ex, last, failure>>

Due(c) ==
    \/ ex[c].pc = "rampup" /\ RampedUp(Task(c))
    \/ ex[c].pc = "next"
    \/ ex[c].pc = "waiting" /\ ScheduledTimeReached(c)
    \/ ex[c].pc = "skip" /\ clock > ex[c].begin
    \/ ex[c].pc = "request" /\ clock >= ex[c].begin + BaseTimeout

Tick ==
    /\ clock < MaxTime
    /\ \E c \in Clients : ex[c].pc \notin Ended
    /\ \A c \in Clients : ~ Due(c)
    /\ clock' = clock + 1
    /\ UNCHANGED <<scenario, cancel, complete, enabled, errors, ex, last, failure>>

Step(c) ==
    \/ RampUp(c) \/ Invocation(c) \/ ScheduleEnds(c) \/ Begin(c)
    \/ SkipEnds(c) \/ RequestEnds(c) \/ RequestTimesOut(c)

LoadNext ==
    \/ \E c \in Clients : Step(c) \/ SetClientState(c)
    \/ Cancel \/ Tick

-----------------------------------------------------------------------------
(***************************************************************************)
(* Properties                                                              *)
(***************************************************************************)
\* No request is sent before its scheduled time, so that the latency of a
\* sample covers its service time, and the processing time covers both ends.
LatencyCoversServiceTime ==
    \A c \in Clients : /\ last[c].latency >= last[c].service
                       /\ last[c].processing >= last[c].service

\* A client that lags behind may catch up, but never sends more throttled
\* requests than the target throughput allows for the time since its start.
RateIsBounded == \A c \in Clients : ex[c].throttled * Task(c).interval <= clock

\* An iteration based schedule that has run to its end has executed exactly its
\* warm-up and its measured iterations, skipped ones included, unless its runner or
\* another task can end it (a paused client ends even if it is the one that completes).
IterationsAreExact ==
    \A c \in Clients :
        LET control == LoopControl(Task(c))
        IN  /\ ex[c].pc = "done" /\ control.kind = "iterations" /\ ~ Infinite(Task(c))
            /\ ~ cancel /\ ex[c].params # 0 /\ ~ Task(c).runner_completes
            /\ ~ complete \/ (Task(c).completes_parent /\ ~ scenario.redline)
            => ex[c].warm = control.warmup /\ ex[c].measured = control.length

\* Two clients share a task.
SameTask(c, d) ==
    Task(d) = [Task(c) EXCEPT !.client_index = Task(d).client_index,
                              !.global_client_index = Task(d).global_client_index]

\* Clients of a time based task with ramp-down end in the order of their
\* indices: none begins another invocation once a later client had to stop.
RampDownInOrder ==
    \A c, d \in Clients :
        /\ SameTask(c, d) /\ LoopControl(Task(c)).kind = "time"
        /\ ~ Infinite(Task(c)) /\ Task(c).client_index < Task(d).client_index
        => (ControlCompleted(Task(d), [ex[d] EXCEPT !.now = clock])
            => ControlCompleted(Task(c), [ex[c] EXCEPT !.now = clock]))

\* When errors abort the benchmark, the only failed request that is followed by
\* another one of the same client is a request that has timed out.
OnlyTimeoutsSurviveAbort ==
    \A c \in Clients :
        (~ last[c].success /\ Task(c).on_error = "abort" /\ ~ scenario.redline)
            => last[c].answer = "timeout"

\* Redline testing provokes failing requests: neither a failed answer nor a
\* lost connection may end it.
RedlineSurvivesFailures == scenario.redline => failure # "answer"

\* Samples of the warm-up are never recorded after a client's measured ones.
WarmupNeverReturns ==
    \A c \in Clients : (last[c].type = "Normal") => last'[c].type = "Normal"

(***************************************************************************)
(* Every step of the executors keeps to the schedule: requests go out at   *)
(* their time and not more often than the target throughput, iterations    *)
(* are exact, clients ramp down in order, and the warm-up does not come    *)
(* back.                                                                   *)
(***************************************************************************)
ScheduleIsKept ==
    [][/\ (LoadTypeOK /\ LatencyCoversServiceTime /\ RateIsBounded /\ IterationsAreExact /\ RampDownInOrder)'
       /\ WarmupNeverReturns]_loadVars

(***************************************************************************)
(* Errors have the consequences that on_error and redline testing ask for. *)
(***************************************************************************)
ErrorsHaveConsequences == OnlyTimeoutsSurviveAbort /\ RedlineSurvivesFailures

LoadSpec == LoadInit /\ [][LoadNext]_loadVars

ClientsEnded == \A c \in Clients : ex[c].pc \in Ended
=============================================================================
