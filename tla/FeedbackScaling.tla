-------------------------- MODULE FeedbackScaling --------------------------
(***************************************************************************)
(* Redline testing: the FeedbackActor pauses and unpauses clients          *)
(* depending on the errors they report (osbenchmark/worker_coordinator/    *)
(* worker_coordinator.py, FeedbackActor, the shared client states and      *)
(* AsyncExecutor.report_error).                                            *)
(*                                                                         *)
(* The actor shares two things with the executors of all workers: the      *)
(* dictionaries that say which clients are active and a bounded queue of   *)
(* errors.  It learns from the coordinator, by messages, when a step       *)
(* starts and when workers reach its join point.                           *)
(***************************************************************************)
EXTENDS Integers, Sequences, FiniteSets, FiniteSetsExt

CONSTANTS
    Workers, Clients,
    AssignedWorker,     \* the worker simulating a client
    NumberOfSteps,      \* steps of the test procedure
    ScaleStep,          \* num_clients_to_scale_up
    ScaleDownPct,       \* percentage_clients_to_scale_down, in percent
    SleepSeconds,       \* POST_SCALEDOWN_SECONDS
    ErrorCeiling,       \* the initial max_error_threshold (10000)
    ProbeInterval,      \* probe_interval (10)
    QueueSize,          \* maxsize of the error queue (1000)
    MaxDelay,           \* bound: seconds between two wake-ups
    MaxErrors           \* bound: requests that fail

ASSUME ClientsAssumption == IsFiniteSet(Clients) /\ AssignedWorker \in [Clients -> Workers]
ASSUME ScalingAssumption ==
    /\ {ScaleStep, ErrorCeiling, ProbeInterval, QueueSize, NumberOfSteps} \subseteq Nat \ {0}
    /\ SleepSeconds \in Nat /\ MaxDelay \in Nat /\ MaxErrors \in Nat
    /\ ScaleDownPct \in 0 .. 100
    /\ ErrorCeiling > Cardinality(Clients)

VARIABLES
    \* the feedback actor
    state, total_active_client_count, max_error_threshold, cycles_since_probe,
    max_stable_clients,
    queue_lock,         \* is the actor between the two halves of a scale-down?
    since_sleep,        \* seconds since sleep_start_time, last_error_time and
    since_error,        \*   last_scaleup_time, as far as they matter
    since_scaleup,
    reported,           \* the number printed on ActorExitRequest
    \* shared with the executors
    active,             \* the clients whose shared state is True
    error_queue,        \* number of errors in the queue
    inflight,           \* clients with a request under way
    failures,           \* requests that have failed so far
    \* the coordinator
    step, completed, mailbox,
    \* history: seconds since the last scale-down of the current step
    quiet

actorVars == <<state, total_active_client_count, max_error_threshold, cycles_since_probe,
               max_stable_clients, queue_lock, since_sleep, since_error, since_scaleup, reported,
               active, quiet>>
clientVars == <<inflight, failures>>
coordinatorVars == <<step, completed>>
vars == <<actorVars, clientVars, coordinatorVars, error_queue, mailbox>>

WakeupInterval == 1
Patience == Max({SleepSeconds, WakeupInterval})
NotReported == -1
States == {"neutral", "scaling_down", "sleep", "scaling_up", "disabled"}

\* ConfigureFeedbackScaling and StartFeedbackActor have been handled; every
\* client starts paused.
Init ==
    /\ state = "disabled"
    /\ total_active_client_count = 0
    /\ max_error_threshold = ErrorCeiling
    /\ cycles_since_probe = 0
    /\ max_stable_clients = 0
    /\ queue_lock = FALSE
    /\ since_sleep = 0 /\ since_error = Patience /\ since_scaleup = Patience
    /\ reported = NotReported
    /\ active = {} /\ error_queue = 0 /\ inflight = {} /\ failures = 0
    /\ step = -1 /\ completed = {} /\ mailbox = <<>>
    /\ quiet = Patience

-----------------------------------------------------------------------------
(* The executors' clients *)

Running(c) == step \in 0 .. NumberOfSteps - 1 /\ AssignedWorker[c] \notin completed

\* A client reads its state once, before the request; a paused one does nothing.
StartRequest(c) ==
    /\ Running(c)
    /\ c \in active \ inflight
    /\ inflight' = inflight \union {c}
    /\ UNCHANGED <<actorVars, coordinatorVars, failures, error_queue, mailbox>>

RequestSucceeds(c) ==
    /\ c \in inflight
    /\ inflight' = inflight \ {c}
    /\ UNCHANGED <<actorVars, coordinatorVars, failures, error_queue, mailbox>>

\* report_error: put_nowait, the error is dropped if the queue is full.  The
\* client may have been paused in the meantime, and takes no lock.
RequestFails(c) ==
    /\ c \in inflight
    /\ failures < MaxErrors
    /\ failures' = failures + 1
    /\ inflight' = inflight \ {c}
    /\ error_queue' = Min({error_queue + 1, QueueSize})
    /\ UNCHANGED <<actorVars, coordinatorVars, mailbox>>

-----------------------------------------------------------------------------
(* The coordinator (joinpoint_reached in redline mode) *)

WorkerReachesJoinPoint(w) ==
    /\ step < NumberOfSteps
    /\ w \notin completed
    /\ \A c \in inflight : AssignedWorker[c] # w
    /\ IF completed \union {w} = Workers
       THEN /\ completed' = {}
            /\ step' = step + 1
            /\ mailbox' = mailbox \o (IF step' = NumberOfSteps THEN <<"Disable">>
                                                               ELSE <<"Disable", "Enable">>)
       ELSE /\ completed' = completed \union {w}
            /\ mailbox' = Append(mailbox, "Disable")
            /\ UNCHANGED step
    /\ UNCHANGED <<actorVars, clientVars, error_queue>>

-----------------------------------------------------------------------------
(* The feedback actor *)

Available == reported = NotReported /\ ~queue_lock

\* receiveMsg_EnableFeedbackScaling
EnableFeedbackScaling ==
    /\ Available
    /\ mailbox # <<>> /\ Head(mailbox) = "Enable"
    /\ mailbox' = Tail(mailbox)
    /\ max_error_threshold' = ErrorCeiling
    /\ cycles_since_probe' = 0
    /\ state' = "scaling_up"
    /\ quiet' = Patience
    /\ UNCHANGED <<total_active_client_count, max_stable_clients, queue_lock, since_sleep,
                   since_error, since_scaleup, reported, active, clientVars, coordinatorVars,
                   error_queue>>

\* receiveMsg_DisableFeedbackScaling
DisableFeedbackScaling ==
    /\ Available
    /\ mailbox # <<>> /\ Head(mailbox) = "Disable"
    /\ mailbox' = Tail(mailbox)
    /\ state' = "disabled"
    /\ UNCHANGED <<total_active_client_count, max_error_threshold, cycles_since_probe,
                   max_stable_clients, queue_lock, since_sleep, since_error, since_scaleup,
                   reported, active, quiet, clientVars, coordinatorVars, error_queue>>

\* receiveMsg_ActorExitRequest: the benchmark is over, failed or cancelled.  The
\* actor drops its dictionary of dictionaries, the workers keep theirs.
ActorExitRequest ==
    /\ Available
    /\ reported' = total_active_client_count
    /\ UNCHANGED <<state, total_active_client_count, max_error_threshold, cycles_since_probe,
                   max_stable_clients, queue_lock, since_sleep, since_error, since_scaleup, active,
                   quiet, clientVars, coordinatorVars, error_queue, mailbox>>

\* Mutant: the clock is compared in the wrong unit.
LaterInMilliseconds(age, d) == Min({age + 1000 * d, Patience})

\* The age of a timestamp d seconds later
Later(age, d) == Min({age + d, Patience})

\* handle_state, before it looks at the state: d seconds have passed since the
\* last wake-up, and check_for_errors has drained the queue.
Wakeup(d) ==
    /\ Available
    /\ error_queue' = 0
    /\ quiet' = Min({quiet + d, Patience})
    /\ UNCHANGED <<reported, clientVars, coordinatorVars, mailbox>>

AgesAdvance(d) ==
    /\ since_sleep' = Later(since_sleep, d)
    /\ since_error' = Later(since_error, d)
    /\ since_scaleup' = Later(since_scaleup, d)

WakeupDisabled(d) ==
    /\ state = "disabled"
    /\ Wakeup(d)
    /\ AgesAdvance(d)
    /\ UNCHANGED <<state, total_active_client_count, max_error_threshold, cycles_since_probe,
                   max_stable_clients, queue_lock, active>>

\* Errors that arrive while the actor sleeps are thrown away.
WakeupAsleep(d) ==
    /\ state = "sleep"
    /\ Wakeup(d)
    /\ since_error' = Later(since_error, d)
    /\ since_scaleup' = Later(since_scaleup, d)
    /\ IF Later(since_sleep, d) >= SleepSeconds
       THEN state' = "neutral" /\ since_sleep' = 0
       ELSE since_sleep' = Later(since_sleep, d) /\ UNCHANGED state
    /\ UNCHANGED <<total_active_client_count, max_error_threshold, cycles_since_probe,
                   max_stable_clients, queue_lock, active>>

\* Errors were found: take the lock and scale down.
WakeupWithErrors(d) ==
    /\ state \notin {"disabled", "sleep"}
    /\ error_queue > 0
    /\ Wakeup(d)
    /\ state' = "scaling_down"
    /\ queue_lock' = TRUE
    /\ since_error' = 0
    /\ since_sleep' = Later(since_sleep, d)
    /\ since_scaleup' = Later(since_scaleup, d)
    /\ UNCHANGED <<total_active_client_count, max_error_threshold, cycles_since_probe,
                   max_stable_clients, active>>

\* Mutant: rounds down.
ClientsToPauseRoundedDown == (total_active_client_count * ScaleDownPct) \div 100

\* math.ceil(total_active_client_count * percentage_clients_to_scale_down)
ClientsToPause == (total_active_client_count * ScaleDownPct + 99) \div 100

\* Mutant: counts one client too many as paused.
ScaleDownMiscounts ==
    /\ queue_lock
    /\ LET n == Min({ClientsToPause, Cardinality(active)})
       IN  \E paused \in kSubset(n, active) :
              /\ active' = active \ paused
              /\ total_active_client_count' = Max({total_active_client_count - n - 1, 0})
    /\ max_error_threshold' = total_active_client_count
    /\ state' = "sleep" /\ queue_lock' = FALSE /\ error_queue' = 0
    /\ since_sleep' = 0 /\ since_scaleup' = 0 /\ quiet' = 0
    /\ UNCHANGED <<cycles_since_probe, max_stable_clients, since_error, reported, clientVars,
                   coordinatorVars, mailbox>>

\* scale_down: a random sample of the active clients is paused; then sleep, and
\* the queue is cleared before the lock is released.
ScaleDown ==
    /\ queue_lock
    /\ LET n == Min({ClientsToPause, Cardinality(active)})
       IN  \E paused \in kSubset(n, active) :
              /\ active' = active \ paused
              /\ total_active_client_count' = total_active_client_count - n
    /\ max_error_threshold' = total_active_client_count
    /\ state' = "sleep" /\ queue_lock' = FALSE /\ error_queue' = 0
    /\ since_sleep' = 0 /\ since_scaleup' = 0 /\ quiet' = 0
    /\ UNCHANGED <<cycles_since_probe, max_stable_clients, since_error, reported, clientVars,
                   coordinatorVars, mailbox>>

WakeupNeutral(d) ==
    /\ state = "neutral"
    /\ error_queue = 0
    /\ Wakeup(d)
    /\ AgesAdvance(d)
    /\ max_stable_clients' = Max({max_stable_clients, total_active_client_count})
    /\ state' = IF since_error' >= SleepSeconds /\ since_scaleup' >= WakeupInterval
                THEN "scaling_up" ELSE "neutral"
    /\ UNCHANGED <<total_active_client_count, max_error_threshold, cycles_since_probe, queue_lock,
                   active>>

\* The common end of scale_up, with at most n clients more
Unpause(n) ==
    LET k == Min({n, Cardinality(Clients \ active)})
    IN  \E unpaused \in kSubset(k, Clients \ active) :
            /\ active' = active \union unpaused
            /\ total_active_client_count' = total_active_client_count + k

ScaleUpFinally(d) ==
    /\ state = "scaling_up"
    /\ error_queue = 0
    /\ Wakeup(d)
    /\ state' = "neutral"
    /\ since_sleep' = Later(since_sleep, d)
    /\ since_error' = Later(since_error, d)
    /\ since_scaleup' = 0
    /\ UNCHANGED <<max_error_threshold, max_stable_clients, queue_lock>>

Room == Min({ScaleStep, max_error_threshold - total_active_client_count})

\* scale_up below the ceiling
WakeupScaleUp(d) ==
    /\ ScaleUpFinally(d)
    /\ Room > 0
    /\ Unpause(Room)
    /\ UNCHANGED cycles_since_probe

\* _cycles_since_probe, once incremented, has reached probe_interval
ProbeDue == cycles_since_probe + 1 >= ProbeInterval

\* Mutant: a cycle in which no probe is due is not counted.
WakeupAtCeilingForgets(d) ==
    /\ ScaleUpFinally(d)
    /\ Room <= 0
    /\ cycles_since_probe' = 0
    /\ \/ Unpause(1)
       \/ ~ProbeDue /\ UNCHANGED <<active, total_active_client_count>>

\* scale_up at the ceiling: one client more, at random, and at the latest in
\* every ProbeInterval-th cycle
WakeupAtCeiling(d) ==
    /\ ScaleUpFinally(d)
    /\ Room <= 0
    /\ cycles_since_probe' = IF ProbeDue THEN 0 ELSE cycles_since_probe + 1
    /\ \/ Unpause(1)
       \/ ~ProbeDue /\ UNCHANGED <<active, total_active_client_count>>

FeedbackWakeup ==
    \E d \in WakeupInterval .. MaxDelay :
        \/ WakeupDisabled(d) \/ WakeupAsleep(d) \/ WakeupWithErrors(d) \/ WakeupNeutral(d)
        \/ WakeupScaleUp(d) \/ WakeupAtCeiling(d)

FeedbackActor == FeedbackWakeup \/ ScaleDown \/ EnableFeedbackScaling \/ DisableFeedbackScaling

Next ==
    \/ FeedbackActor \/ ActorExitRequest
    \/ \E c \in Clients : StartRequest(c) \/ RequestSucceeds(c) \/ RequestFails(c)
    \/ \E w \in Workers : WorkerReachesJoinPoint(w)

Spec == Init /\ [][Next]_vars

\* Wake-ups are rescheduled after every wake-up, and messages are delivered.
FairSpec ==
    /\ Spec
    /\ WF_vars(FeedbackWakeup) /\ WF_vars(ScaleDown)
    /\ SF_vars(EnableFeedbackScaling) /\ SF_vars(DisableFeedbackScaling)

-----------------------------------------------------------------------------
(* Correctness *)

\* total_active_client_count, which scale_up and scale_down maintain step by
\* step and across steps of the benchmark, is the number of active clients in
\* the dictionaries the executors read.
ActiveCounted == total_active_client_count = Cardinality(active)

\* A scale-down pauses at least one client: rounding never makes it void.
ErrorsLowerLoad ==
    [][queue_lock /\ active # {} /\ ScaleDownPct > 0 /\ ~queue_lock'
         => active' \subseteq active /\ active' # active]_vars

\* No client is unpaused within SleepSeconds of a scale-down, unless a new step
\* has been enabled since.
RecoveryAfterSleep == [][active' \ active # {} => quiet' >= SleepSeconds]_vars

Enabled == state # "disabled" /\ reported = NotReported

\* As long as a step goes on without further errors, all clients get to run,
\* however low the ceiling an earlier error has left: probing gets past it.
\* (Only MaxErrors requests fail.)
FullLoadReached == <>[]Enabled => <>[](active = Clients)
=============================================================================
