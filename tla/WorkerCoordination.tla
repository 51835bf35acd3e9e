------------------------- MODULE WorkerCoordination -------------------------
(***************************************************************************)
(* The heart of a benchmark: the worker coordinator drives a set of worker *)
(* actors through the allocation matrix (osbenchmark/worker_coordinator/   *)
(* worker_coordinator.py, WorkerCoordinator, WorkerCoordinatorActor,       *)
(* Worker, Sampler, AsyncIoAdapter and the control flow of AsyncExecutor). *)
(*                                                                         *)
(* Actors handle one message at a time; messages between two actors are    *)
(* delivered in the order they were sent.  A worker's executor runs in a   *)
(* thread of its own, so its clients interleave with the worker's message  *)
(* handlers, also in the middle of Worker.receiveMsg_WakeupMessage.        *)
(***************************************************************************)
EXTENDS Integers, Sequences, FiniteSets

CONSTANTS
    Workers,          \* worker ids
    Clients,          \* client ids, the first dimension of the matrix
    AssignedWorker,   \* clients_per_worker: the worker simulating a client
    NumRows,          \* length of the matrix's second dimension
    Allocations,      \* Allocations[c][i]: what client c does in row i
    MaxRequests,      \* bound: recorded requests of one client in one row
    Quiet,            \* system/quiet.mode: no progress messages
    Faults,           \* may requests raise and workers die?
    PromptStart       \* does every worker act on Drive within a wake-up interval?

Rows == 1 .. NumRows

(***************************************************************************)
(* An entry of the matrix is a task, a join point, or the filler None.     *)
(* A task is `eternal' when its schedule ends only through the completion  *)
(* of its parent, `completes' is Task.completes_parent, `profiled' is its  *)
(* profile-metrics-sample-size, `progress' the unit its schedule reports   *)
(* progress in ("none" for a schedule that cannot tell).                   *)
(***************************************************************************)
Units == {"none", "%", "GB"}
Tasks == [kind : {"task"}, completes : BOOLEAN, eternal : BOOLEAN,
          progress : Units, profiled : 0 .. MaxRequests]
JoinPoints == [kind : {"join"}, completing : SUBSET Clients]
NoTask == [kind |-> "none"]

ASSUME WorkersAssumption == IsFiniteSet(Workers) /\ Workers # {}
ASSUME AssignmentAssumption ==
    /\ AssignedWorker \in [Clients -> Workers]
    /\ \A w \in Workers : \E c \in Clients : AssignedWorker[c] = w
ASSUME BoundsAssumption ==
    /\ NumRows \in Nat \ {0} /\ MaxRequests \in Nat \ {0}
    /\ {Quiet, Faults, PromptStart} \subseteq BOOLEAN

\* The matrix is rectangular, its join points fill a row, and the first and
\* the last row are join points (what Allocator.allocations produces).
ASSUME MatrixAssumption ==
    /\ Allocations \in [Clients -> [Rows -> Tasks \union JoinPoints \union {NoTask}]]
    /\ \A i \in Rows : \A c, d \in Clients :
          Allocations[c][i].kind = "join" => Allocations[d][i] = Allocations[c][i]
    /\ \A c \in Clients : {Allocations[c][1].kind, Allocations[c][NumRows].kind} = {"join"}

ClientsOf(w) == {c \in Clients : AssignedWorker[c] = w}
IsJoinRow(i) == \E c \in Clients : Allocations[c][i].kind = "join"
JoinRows(i) == {j \in 1 .. i : IsJoinRow(j)}
JoinCount == [i \in 0 .. NumRows |-> Cardinality(JoinRows(i))]
JoinPointsUpTo(i) == JoinCount[i]
NumJoinPoints == JoinPointsUpTo(NumRows)
NumberOfSteps == NumJoinPoints - 1

\* The join point behind a parallel element names the clients of its
\* completing task.
ASSUME CompletersAssumption ==
    \A c \in Clients : \A i \in {k \in Rows : Allocations[c][k].kind = "task"} : Allocations[c][i].completes =>
        \E j \in Rows : /\ IsJoinRow(j) /\ JoinPointsUpTo(j) = JoinPointsUpTo(i) + 1
                       /\ c \in Allocations[c][j].completing

\* ClientAllocations.tasks with remove_empty, and is_joinpoint
TasksAt(w, i) == {c \in ClientsOf(w) : Allocations[c][i].kind # "none"}
IsJoinPoint(w, i) == \A c \in TasksAt(w, i) : Allocations[c][i].kind = "join"
Executing(w, i) == {c \in ClientsOf(w) : Allocations[c][i].kind = "task"}

(***************************************************************************)
(* Samples carry their own identity so that none can be lost unnoticed.    *)
(* A sample's progress is the (value, unit) pair of its schedule, None, or *)
(* the bare float 1.0 the executor reports for a completed task.           *)
(***************************************************************************)
Progress == Units \union {"float"}
Samples == [client : Clients, row : Rows, n : 1 .. MaxRequests + 1, progress : Progress]

CoordinatorMessages ==
    [type : {"StartWorker", "Drive", "CompleteCurrentTask", "BenchmarkFailure"}]
WorkerMessages ==
    [type : {"UpdateSamples"}, samples : Seq(Samples), profile : Seq(Samples)]
      \union [type : {"JoinPointReached"}, row : Rows]
      \union [type : {"BenchmarkFailure"}]

VARIABLES
    \* the coordinator
    current_step, currently_completed, workers_completed_current_step,
    complete_current_task_sent, raw_samples, most_recent_sample_per_client,
    stored,           \* samples handed to the metrics store
    ticking,          \* is a WakeupMessage for the coordinator pending?
    reports,          \* messages to start_sender (the test run orchestrator)
    \* the workers
    current_task_index, complete, executor_future, start_driving,
    sampler, profile_sampler,
    handling,         \* progress of the last sample drained by a wake-up in flight
    timers,           \* pending WakeupMessages
    alive,
    \* the clients of the executors
    client, requests,
    \* the mailboxes, one per direction and worker
    to_worker, to_master,
    \* history: every sample ever taken
    taken

coordinatorVars == <<current_step, currently_completed, workers_completed_current_step,
    complete_current_task_sent, raw_samples, most_recent_sample_per_client, stored,
    ticking, reports>>
workerVars == <<current_task_index, complete, executor_future, start_driving, sampler,
    profile_sampler, handling, timers, alive>>
clientVars == <<client, requests, taken>>
vars == <<coordinatorVars, workerVars, clientVars, to_worker, to_master>>

NotHandling == "idle"
Futures == {"none", "running", "done", "failed"}

\* The attributes of coordinator and workers, the mailboxes and the samples keep their types.
TypeOK ==
    /\ current_step \in Nat \union {-1}
    /\ currently_completed \in Nat
    /\ workers_completed_current_step \subseteq Workers
    /\ complete_current_task_sent \in BOOLEAN
    /\ raw_samples \subseteq Samples
    /\ stored \subseteq Samples
    /\ taken \subseteq Samples
    /\ most_recent_sample_per_client \in [Clients -> Progress]
    /\ ticking \in BOOLEAN
    /\ reports \in Seq({"TaskFinished", "BenchmarkComplete", "BenchmarkFailure"})
    /\ current_task_index \in [Workers -> 0 .. NumRows]
    /\ complete \in [Workers -> BOOLEAN]
    /\ executor_future \in [Workers -> Futures]
    /\ start_driving \in [Workers -> BOOLEAN]
    /\ sampler \in [Workers -> Seq(Samples)]
    /\ profile_sampler \in [Workers -> Seq(Samples)]
    /\ handling \in [Workers -> Progress \union {NotHandling}]
    /\ timers \in [Workers -> Nat]
    /\ alive \in [Workers -> {"alive", "exited", "noticed"}]
    /\ client \in [Clients -> {"idle", "running", "finished"}]
    /\ requests \in [Clients -> 0 .. MaxRequests]
    /\ to_worker \in [Workers -> Seq(CoordinatorMessages)]
    /\ to_master \in [Workers -> Seq(WorkerMessages)]

(***************************************************************************)
(* start_benchmark has created the workers and sent each StartWorker.      *)
(***************************************************************************)
Init ==
    /\ current_step = -1
    /\ currently_completed = 0
    /\ workers_completed_current_step = {}
    /\ complete_current_task_sent = FALSE
    /\ raw_samples = {} /\ stored = {} /\ taken = {}
    /\ most_recent_sample_per_client = [c \in Clients |-> "none"]
    /\ ticking = TRUE
    /\ reports = <<>>
    /\ current_task_index = [w \in Workers |-> 0]
    /\ complete = [w \in Workers |-> FALSE]
    /\ executor_future = [w \in Workers |-> "none"]
    /\ start_driving = [w \in Workers |-> FALSE]
    /\ sampler = [w \in Workers |-> <<>>]
    /\ profile_sampler = [w \in Workers |-> <<>>]
    /\ handling = [w \in Workers |-> NotHandling]
    /\ timers = [w \in Workers |-> 0]
    /\ alive = [w \in Workers |-> "alive"]
    /\ client = [c \in Clients |-> "idle"]
    /\ requests = [c \in Clients |-> 0]
    /\ to_worker = [w \in Workers |-> <<[type |-> "StartWorker"]>>]
    /\ to_master = [w \in Workers |-> <<>>]

-----------------------------------------------------------------------------
(* The worker coordinator *)

Elements(q) == {q[i] : i \in 1 .. Len(q)}
HasMessage(q, type) == \E i \in 1 .. Len(q) : q[i].type = type

\* update_progress_message raises: a bare float has no value and unit, and
\* the reporting clients must agree on one unit.
ProgressRaises ==
    LET reported == {most_recent_sample_per_client[c] : c \in Clients} \ {"none"}
    IN  ~Quiet /\ current_step >= 0 /\ ("float" \in reported \/ Cardinality(reported) > 1)

MasterReceives(w, type) ==
    /\ to_master[w] # <<>>
    /\ Head(to_master[w]).type = type
    /\ to_master' = [to_master EXCEPT ![w] = Tail(@)]

\* Mutant: one report less is enough.
LastWorkerTooEarly == currently_completed + 2 >= Cardinality(Workers)

LastWorker == currently_completed + 1 = Cardinality(Workers)

\* Mutant: looks for clients among the workers that are done.
MayCompleteComparesClients(reached, i) ==
    LET completing == UNION {Allocations[c][i].completing : c \in Clients}
    IN  completing # {} /\ ~complete_current_task_sent /\ completing \subseteq reached

\* may_complete_current_task: every worker that simulates a client of the
\* completing task has reached the join point in row i.
MayCompleteCurrentTask(reached, i) ==
    LET completing == UNION {Allocations[c][i].completing : c \in Clients}
    IN  /\ completing # {}
        /\ ~complete_current_task_sent
        /\ \A c \in completing : AssignedWorker[c] \in reached

\* joinpoint_reached while other workers are still on their way
JoinPointPending(w) ==
    /\ MasterReceives(w, "JoinPointReached")
    /\ ~LastWorker
    /\ currently_completed' = currently_completed + 1
    /\ workers_completed_current_step' = workers_completed_current_step \union {w}
    /\ LET complete_all == MayCompleteCurrentTask(workers_completed_current_step',
                                                  Head(to_master[w]).row)
       IN  /\ complete_current_task_sent' = (complete_current_task_sent \/ complete_all)
           /\ to_worker' = IF complete_all
                           THEN [v \in Workers |-> Append(to_worker[v], [type |-> "CompleteCurrentTask"])]
                           ELSE to_worker
    /\ UNCHANGED <<current_step, raw_samples, most_recent_sample_per_client, stored, ticking,
                   reports, workerVars, clientVars>>

\* Mutant: the reset of the counter compensates for the next report too early.
AllWorkersReachedOffByOne(w) ==
    /\ MasterReceives(w, "JoinPointReached")
    /\ LastWorker
    /\ currently_completed' = -1
    /\ complete_current_task_sent' = FALSE
    /\ workers_completed_current_step' = {}

\* Mutant: the workers of the last step stay recorded.
AllWorkersReachedKeepsWorkers(w) ==
    /\ MasterReceives(w, "JoinPointReached")
    /\ LastWorker
    /\ currently_completed' = 0
    /\ complete_current_task_sent' = FALSE
    /\ UNCHANGED workers_completed_current_step

\* The part of joinpoint_reached every last worker triggers, before anything
\* in it can raise.
AllWorkersReached(w) ==
    /\ MasterReceives(w, "JoinPointReached")
    /\ LastWorker
    /\ currently_completed' = 0
    /\ complete_current_task_sent' = FALSE
    /\ workers_completed_current_step' = {}

\* update_progress_message raises in the middle of joinpoint_reached; no_retry
\* turns that into a failure sent back to the worker.
JoinPointRaises(w) ==
    /\ AllWorkersReached(w)
    /\ ProgressRaises
    /\ to_worker' = [to_worker EXCEPT ![w] = Append(@, [type |-> "BenchmarkFailure"])]
    /\ UNCHANGED <<current_step, raw_samples, most_recent_sample_per_client, stored, ticking,
                   reports, workerVars, clientVars>>

\* Mutant: the raw samples are reset before they are processed.
PostProcessDropsSamples ==
    /\ UNCHANGED stored
    /\ raw_samples' = {}

\* Mutant: the raw samples are not reset.
PostProcessKeepsSamples ==
    /\ stored' = stored \union raw_samples
    /\ UNCHANGED raw_samples

\* post_process_samples
PostProcessSamples ==
    /\ stored' = stored \union raw_samples
    /\ raw_samples' = {}

\* joinpoint_reached by the last worker: next step, or the end
StepCompleted(w) ==
    /\ AllWorkersReached(w)
    /\ ~ProgressRaises
    /\ most_recent_sample_per_client' = [c \in Clients |-> "none"]
    /\ current_step' = current_step + 1
    /\ PostProcessSamples
    /\ UNCHANGED <<ticking, workerVars, clientVars>>

MoveToNextTask(w) ==
    /\ current_step + 1 # NumberOfSteps
    /\ StepCompleted(w)
    /\ reports' = Append(reports, "TaskFinished")
    /\ to_worker' = [v \in Workers |-> Append(to_worker[v], [type |-> "Drive"])]

BenchmarkCompleted(w) ==
    /\ current_step + 1 = NumberOfSteps
    /\ StepCompleted(w)
    /\ reports' = Append(reports, "BenchmarkComplete")
    /\ UNCHANGED to_worker

\* receiveMsg_UpdateSamples: later samples of a client replace earlier ones
MasterUpdateSamples(w) ==
    /\ MasterReceives(w, "UpdateSamples")
    /\ LET msg == Head(to_master[w])
           IsLast(c, i) == /\ msg.samples[i].client = c
                           /\ \A j \in i + 1 .. Len(msg.samples) : msg.samples[j].client # c
           updated == {s.client : s \in Elements(msg.samples)}
       IN  /\ raw_samples' = raw_samples \union Elements(msg.samples) \union Elements(msg.profile)
           /\ most_recent_sample_per_client' \in [Clients -> Progress]
           /\ \A c \in Clients :
                 \/ /\ c \notin updated
                    /\ most_recent_sample_per_client'[c] = most_recent_sample_per_client[c]
                 \/ \E i \in 1 .. Len(msg.samples) :
                       /\ IsLast(c, i)
                       /\ most_recent_sample_per_client'[c] = msg.samples[i].progress
    /\ UNCHANGED <<current_step, currently_completed, workers_completed_current_step,
                   complete_current_task_sent, stored, ticking, reports, to_worker,
                   workerVars, clientVars>>

\* receiveMsg_WakeupMessage of the coordinator: every second; post-processing
\* is due in some of the wake-ups.  An exception goes to the coordinator
\* itself, which reports it, and the chain of wake-ups ends.
MasterWakeup ==
    /\ ticking
    /\ current_step # NumberOfSteps
    /\ PostProcessSamples \/ UNCHANGED <<stored, raw_samples>>
    /\ ticking' = ~ProgressRaises
    /\ reports' = IF ProgressRaises THEN Append(reports, "BenchmarkFailure") ELSE reports
    /\ UNCHANGED <<current_step, currently_completed, workers_completed_current_step,
                   complete_current_task_sent, most_recent_sample_per_client, to_worker,
                   to_master, workerVars, clientVars>>

\* receiveMsg_BenchmarkFailure: close and tell start_sender
MasterReceivesFailure(w) ==
    /\ MasterReceives(w, "BenchmarkFailure")
    /\ reports' = Append(reports, "BenchmarkFailure")
    /\ UNCHANGED <<current_step, currently_completed, workers_completed_current_step,
                   complete_current_task_sent, raw_samples, most_recent_sample_per_client,
                   stored, ticking, to_worker, workerVars, clientVars>>

\* receiveMsg_ChildActorExited of a worker that left prematurely
ChildActorExited(w) ==
    /\ alive[w] = "exited"
    /\ alive' = [alive EXCEPT ![w] = "noticed"]
    /\ reports' = Append(reports, "BenchmarkFailure")
    /\ UNCHANGED <<current_step, currently_completed, workers_completed_current_step,
                   complete_current_task_sent, raw_samples, most_recent_sample_per_client,
                   stored, ticking, to_worker, to_master, current_task_index, complete,
                   executor_future, start_driving, sampler, profile_sampler, handling, timers,
                   clientVars>>

-----------------------------------------------------------------------------
(* The worker *)

WorkerReceives(w, type) ==
    /\ alive[w] = "alive" /\ handling[w] = NotHandling
    /\ to_worker[w] # <<>>
    /\ Head(to_worker[w]).type = type
    /\ to_worker' = [to_worker EXCEPT ![w] = Tail(@)]

\* send_samples: the default queue is drained; if it held something the profile
\* queue is drained too and both go to the master, otherwise nothing is sent.
SamplesMessage(w) ==
    IF sampler[w] = <<>> THEN <<>>
    ELSE <<[type |-> "UpdateSamples", samples |-> sampler[w], profile |-> profile_sampler[w]]>>

\* current_tasks_and_advance until a row holds something for this worker
IsNextRow(w, j) ==
    /\ j > current_task_index[w]
    /\ TasksAt(w, j) # {}
    /\ \A k \in current_task_index[w] + 1 .. j - 1 : TasksAt(w, k) = {}

\* drive() at a join point; `pending' is the number of wake-ups left.
DriveToJoinPoint(w, j, pending) ==
    /\ IsJoinPoint(w, j)
    /\ to_master' = [to_master EXCEPT ![w] =
                        @ \o SamplesMessage(w) \o <<[type |-> "JoinPointReached", row |-> j]>>]
    /\ complete' = [complete EXCEPT ![w] = FALSE]
    /\ executor_future' = [executor_future EXCEPT ![w] = "none"]
    /\ sampler' = [sampler EXCEPT ![w] = <<>>]
    /\ profile_sampler' = IF sampler[w] = <<>> THEN profile_sampler
                          ELSE [profile_sampler EXCEPT ![w] = <<>>]
    /\ timers' = [timers EXCEPT ![w] = pending]
    /\ UNCHANGED <<client, requests>>

\* drive() at tasks that are to be skipped: nothing is scheduled.
DriveSkips(w, j, pending) ==
    /\ ~IsJoinPoint(w, j)
    /\ complete[w]
    /\ executor_future' = [executor_future EXCEPT ![w] = "none"]
    /\ timers' = [timers EXCEPT ![w] = pending]
    /\ UNCHANGED <<to_master, complete, sampler, profile_sampler, client, requests>>

\* drive() at tasks: fresh samplers, a new executor, and a wake-up
DriveExecutor(w, j, pending) ==
    /\ ~IsJoinPoint(w, j)
    /\ ~complete[w]
    /\ sampler' = [sampler EXCEPT ![w] = <<>>]
    /\ profile_sampler' = [profile_sampler EXCEPT ![w] = <<>>]
    /\ executor_future' = [executor_future EXCEPT ![w] = "running"]
    /\ client' = [c \in Clients |-> IF c \in Executing(w, j) THEN "running" ELSE client[c]]
    /\ requests' = [c \in Clients |-> IF c \in Executing(w, j) THEN 0 ELSE requests[c]]
    /\ timers' = [timers EXCEPT ![w] = pending + 1]
    /\ UNCHANGED <<to_master, complete>>

DriveOn(w, pending) ==
    \E j \in Rows :
        /\ IsNextRow(w, j)
        /\ current_task_index' = [current_task_index EXCEPT ![w] = j]
        /\ \/ DriveToJoinPoint(w, j, pending)
           \/ DriveSkips(w, j, pending)
           \/ DriveExecutor(w, j, pending)

\* Mutant: schedules a wake-up after drive().
WorkerStartWakesUp(w) ==
    /\ WorkerReceives(w, "StartWorker")
    /\ DriveOn(w, timers[w] + 1)
    /\ UNCHANGED <<coordinatorVars, start_driving, handling, alive, taken>>

\* receiveMsg_StartWorker
WorkerStart(w) ==
    /\ WorkerReceives(w, "StartWorker")
    /\ DriveOn(w, timers[w])
    /\ UNCHANGED <<coordinatorVars, start_driving, handling, alive, taken>>

\* receiveMsg_Drive: remember, and wake up at the start time
WorkerDrive(w) ==
    /\ WorkerReceives(w, "Drive")
    /\ start_driving' = [start_driving EXCEPT ![w] = TRUE]
    /\ timers' = [timers EXCEPT ![w] = @ + 1]
    /\ UNCHANGED <<coordinatorVars, clientVars, current_task_index, complete, executor_future,
                   sampler, profile_sampler, handling, alive, to_master>>

\* Mutant: also at a join point.
WorkerCompleteAnyTask(w) ==
    /\ WorkerReceives(w, "CompleteCurrentTask")
    /\ complete' = [complete EXCEPT ![w] = TRUE]
    /\ UNCHANGED <<coordinatorVars, clientVars, current_task_index, executor_future,
                   start_driving, sampler, profile_sampler, handling, timers, alive, to_master>>

\* receiveMsg_CompleteCurrentTask: ignored at a join point
WorkerCompleteCurrentTask(w) ==
    /\ WorkerReceives(w, "CompleteCurrentTask")
    /\ complete' = [complete EXCEPT ![w] = @ \/ ~IsJoinPoint(w, current_task_index[w])]
    /\ UNCHANGED <<coordinatorVars, clientVars, current_task_index, executor_future,
                   start_driving, sampler, profile_sampler, handling, timers, alive, to_master>>

\* receiveMsg_BenchmarkFailure: forward to the master
WorkerForwardsFailure(w) ==
    /\ WorkerReceives(w, "BenchmarkFailure")
    /\ to_master' = [to_master EXCEPT ![w] = Append(@, [type |-> "BenchmarkFailure"])]
    /\ UNCHANGED <<coordinatorVars, workerVars, clientVars>>

\* Mutant: start_driving stays set.
WakeupKeepsDriving(w) ==
    /\ alive[w] = "alive" /\ handling[w] = NotHandling /\ timers[w] > 0
    /\ start_driving[w]
    /\ DriveOn(w, timers[w] - 1)
    /\ UNCHANGED <<coordinatorVars, start_driving, handling, alive, to_worker, taken>>

\* receiveMsg_WakeupMessage while start_driving is set
WakeupToDrive(w) ==
    /\ alive[w] = "alive" /\ handling[w] = NotHandling /\ timers[w] > 0
    /\ start_driving[w]
    /\ start_driving' = [start_driving EXCEPT ![w] = FALSE]
    /\ DriveOn(w, timers[w] - 1)
    /\ UNCHANGED <<coordinatorVars, handling, alive, to_worker, taken>>

\* With PromptStart no worker is still to act on Drive when another one's
\* wake-up interval has passed.
AllDriven == \A v \in {u \in Workers : alive[u] = "alive"} :
    ~start_driving[v] /\ ~HasMessage(to_worker[v], "Drive")

\* receiveMsg_WakeupMessage otherwise, first part: send the samples so far
WakeupToCheck(w) ==
    /\ alive[w] = "alive" /\ handling[w] = NotHandling /\ timers[w] > 0
    /\ ~start_driving[w]
    /\ PromptStart => AllDriven
    /\ timers' = [timers EXCEPT ![w] = @ - 1]
    /\ to_master' = [to_master EXCEPT ![w] = @ \o SamplesMessage(w)]
    /\ handling' = [handling EXCEPT ![w] =
                        IF sampler[w] = <<>> THEN "none" ELSE sampler[w][Len(sampler[w])].progress]
    /\ sampler' = [sampler EXCEPT ![w] = <<>>]
    /\ profile_sampler' = IF sampler[w] = <<>> THEN profile_sampler
                          ELSE [profile_sampler EXCEPT ![w] = <<>>]
    /\ UNCHANGED <<coordinatorVars, clientVars, current_task_index, complete, executor_future,
                   start_driving, alive, to_worker>>

Handled(w) ==
    /\ alive[w] = "alive" /\ handling[w] # NotHandling
    /\ handling' = [handling EXCEPT ![w] = NotHandling]
    /\ UNCHANGED <<coordinatorVars, start_driving, alive, to_worker, taken>>

\* ... second part: the executor has finished, go on
CheckDone(w) ==
    /\ executor_future[w] = "done"
    /\ Handled(w)
    /\ DriveOn(w, timers[w])

\* Mutant: the failure is only logged.
CheckFailedSilently(w) ==
    /\ executor_future[w] = "failed"
    /\ Handled(w)
    /\ UNCHANGED <<current_task_index, complete, executor_future, sampler, profile_sampler,
                   timers, client, requests, to_master>>

\* ... the executor raised: tell the master, schedule nothing
CheckFailed(w) ==
    /\ executor_future[w] = "failed"
    /\ Handled(w)
    /\ to_master' = [to_master EXCEPT ![w] = Append(@, [type |-> "BenchmarkFailure"])]
    /\ UNCHANGED <<current_task_index, complete, executor_future, sampler, profile_sampler,
                   timers, client, requests>>

\* ... still executing: wake up again.  Logging a bare-float progress raises,
\* and the failure reaches the master through the worker itself.
CheckBusy(w) ==
    /\ executor_future[w] \notin {"done", "failed"}
    /\ Handled(w)
    /\ IF handling[w] = "float"
       THEN /\ to_master' = [to_master EXCEPT ![w] = Append(@, [type |-> "BenchmarkFailure"])]
            /\ UNCHANGED timers
       ELSE /\ timers' = [timers EXCEPT ![w] = @ + 1]
            /\ UNCHANGED to_master
    /\ UNCHANGED <<current_task_index, complete, executor_future, sampler, profile_sampler,
                   client, requests>>

\* The worker process dies.
WorkerExits(w) ==
    /\ Faults
    /\ alive[w] = "alive"
    /\ alive' = [alive EXCEPT ![w] = "exited"]
    /\ UNCHANGED <<coordinatorVars, clientVars, current_task_index, complete, executor_future,
                   start_driving, sampler, profile_sampler, handling, timers, to_worker, to_master>>

-----------------------------------------------------------------------------
(* The executor thread and its clients (AsyncIoAdapter, AsyncExecutor) *)

TaskOf(c) == Allocations[c][current_task_index[AssignedWorker[c]]]

\* _process_results: a task that completes its parent ignores the event
StoppedByEvent(c) == complete[AssignedWorker[c]] /\ ~TaskOf(c).completes

\* One request of client c and its sample: progress is 1.0 once completed,
\* and the first `profiled' requests go to the profile sampler.
AddSample(c) ==
    LET w == AssignedWorker[c]
        s == [client |-> c, row |-> current_task_index[w], n |-> requests[c] + 1,
              progress |-> IF StoppedByEvent(c) THEN "float" ELSE TaskOf(c).progress]
    IN  /\ taken' = taken \union {s}
        /\ IF requests[c] < TaskOf(c).profiled
           THEN /\ profile_sampler' = [profile_sampler EXCEPT ![w] = Append(@, s)]
                /\ UNCHANGED sampler
           ELSE /\ sampler' = [sampler EXCEPT ![w] = Append(@, s)]
                /\ UNCHANGED profile_sampler

ClientRuns(c) ==
    /\ client[c] = "running"
    /\ alive[AssignedWorker[c]] = "alive"
    /\ executor_future[AssignedWorker[c]] = "running"

\* A request after which the schedule goes on.
ClientContinues(c) ==
    /\ ClientRuns(c)
    /\ ~StoppedByEvent(c)
    /\ requests[c] < MaxRequests
    /\ TaskOf(c).eternal \/ requests[c] + 1 < MaxRequests
    /\ AddSample(c)
    /\ requests' = [requests EXCEPT ![c] = @ + 1]
    /\ UNCHANGED <<coordinatorVars, current_task_index, complete, executor_future, start_driving,
                   handling, timers, alive, client, to_worker, to_master>>

\* A request after which the loop ends, because of the event or because the
\* schedule has; the finally block signals completion of the parent.
ClientFinishes(c) ==
    /\ ClientRuns(c)
    /\ StoppedByEvent(c) \/ ~TaskOf(c).eternal
    /\ AddSample(c)
    /\ client' = [client EXCEPT ![c] = "finished"]
    /\ complete' = [complete EXCEPT ![AssignedWorker[c]] = @ \/ TaskOf(c).completes]
    /\ UNCHANGED <<coordinatorVars, current_task_index, executor_future, start_driving,
                   handling, timers, alive, requests, to_worker, to_master>>

\* A request raises (on.error is abort, or the node is unreachable): the
\* executor's gather fails and the other clients are abandoned.
ClientRaises(c) ==
    /\ Faults
    /\ ClientRuns(c)
    /\ complete' = [complete EXCEPT ![AssignedWorker[c]] = @ \/ TaskOf(c).completes]
    /\ executor_future' = [executor_future EXCEPT ![AssignedWorker[c]] = "failed"]
    /\ UNCHANGED <<coordinatorVars, current_task_index, start_driving, sampler, profile_sampler,
                   handling, timers, alive, clientVars, to_worker, to_master>>

\* All clients of the row are finished and the thread ends.
ExecutorFinishes(w) ==
    /\ alive[w] = "alive"
    /\ executor_future[w] = "running"
    /\ \A c \in Executing(w, current_task_index[w]) : client[c] = "finished"
    /\ executor_future' = [executor_future EXCEPT ![w] = "done"]
    /\ UNCHANGED <<coordinatorVars, current_task_index, complete, start_driving, sampler,
                   profile_sampler, handling, timers, alive, clientVars, to_worker, to_master>>

-----------------------------------------------------------------------------
Coordinator(w) ==
    \/ JoinPointPending(w) \/ JoinPointRaises(w) \/ MoveToNextTask(w) \/ BenchmarkCompleted(w)
    \/ MasterUpdateSamples(w) \/ MasterReceivesFailure(w) \/ ChildActorExited(w)

WorkerMailbox(w) ==
    \/ WorkerStart(w) \/ WorkerDrive(w) \/ WorkerCompleteCurrentTask(w) \/ WorkerForwardsFailure(w)

WorkerWakeup(w) ==
    \/ WakeupToDrive(w) \/ WakeupToCheck(w) \/ CheckDone(w) \/ CheckFailed(w) \/ CheckBusy(w)

Client(c) == ClientContinues(c) \/ ClientFinishes(c)

Next ==
    \/ MasterWakeup
    \/ \E w \in Workers : Coordinator(w) \/ WorkerMailbox(w) \/ WorkerWakeup(w)
                           \/ ExecutorFinishes(w) \/ WorkerExits(w)
    \/ \E c \in Clients : Client(c) \/ ClientRaises(c)

Spec == Init /\ [][Next]_vars

(***************************************************************************)
(* The actor system delivers messages and wake-ups, and every request ends *)
(* (wait_for applies a timeout), so handlers, clients and executors make   *)
(* progress.  A delivered message is handled after finitely many others,   *)
(* so a worker's wake-ups do not starve its mailbox (strong fairness).     *)
(* Nothing forces a fault, nor a wake-up of the coordinator.               *)
(***************************************************************************)
Fairness ==
    /\ \A w \in Workers : WF_vars(Coordinator(w)) /\ WF_vars(WorkerWakeup(w))
                          /\ SF_vars(WorkerMailbox(w)) /\ WF_vars(ExecutorFinishes(w))
    /\ \A c \in Clients : WF_vars(ClientFinishes(c))

FairSpec == Spec /\ Fairness

-----------------------------------------------------------------------------
(* Correctness *)

Reached == [w \in Workers |-> JoinPointsUpTo(current_task_index[w])]
Barrier == INSTANCE StepBarrier WITH reached <- Reached, released <- current_step + 1

\* The workers pass the join points in lockstep: the coordinator implements
\* the abstract barrier, whatever the interleaving of JoinPointReached, Drive,
\* CompleteCurrentTask, samples, wake-ups and failures.
StepsInLockstep == Barrier!BarrierSpec

\* joinpoint_reached compares a counter with the number of workers; the
\* counter agrees with the set of workers that reported the current join
\* point, so a duplicate or late report can never release a step early.
CompletionsCounted == currently_completed = Cardinality(workers_completed_current_step)

\* Every sample taken before a join point is in the metrics store when the
\* coordinator moves past that join point.
SamplesStoredAtJoinPoint ==
    \A s \in taken : JoinPointsUpTo(s.row) < current_step + 1 => s \in stored

\* A sample is never processed twice: it is in one place only (a sampler, a
\* message, the raw samples, or the metrics store).
SampleInOnePlace ==
    LET InFlight(w) == UNION {Elements(m.samples) \union Elements(m.profile) :
                                m \in {x \in Elements(to_master[w]) : x.type = "UpdateSamples"}}
        Buffered(w) == Elements(sampler[w]) \union Elements(profile_sampler[w])
    IN  /\ raw_samples \intersect stored = {}
        /\ \A w \in Workers :
              /\ InFlight(w) \intersect (raw_samples \union stored) = {}
              /\ Buffered(w) \intersect (InFlight(w) \union raw_samples \union stored) = {}

\* The clients of the completing task of the parallel element worker w is in
Completers(w) ==
    UNION {UNION {Allocations[c][i].completing : c \in Clients} :
             i \in {j \in Rows : IsJoinRow(j) /\ JoinPointsUpTo(j) = Reached[w] + 1}}

\* Client c has finished the completing task it runs after join point k.
CompletingTaskDone(c, k) ==
    LET index == current_task_index[AssignedWorker[c]]
    IN  \/ JoinPointsUpTo(index) > k
        \/ \E i \in 1 .. index :
              /\ JoinPointsUpTo(i) = k /\ Allocations[c][i].kind = "task"
              /\ Allocations[c][i].completes
              /\ i < index \/ client[c] = "finished"

\* The tasks of a parallel element are cut short only after the completing task
\* has finished: for one of its clients on this very worker, or everywhere.
\* In particular a CompleteCurrentTask that arrives late never touches the
\* step after the one it was sent for.
CompletionJustified ==
    \A w \in Workers : complete[w] =>
        \/ executor_future[w] = "failed"
        \/ \E c \in Completers(w) \intersect ClientsOf(w) : CompletingTaskDone(c, Reached[w])
        \/ Completers(w) # {} /\ \A c \in Completers(w) : CompletingTaskDone(c, Reached[w])

\* A worker that is not at a join point will look at its executor again, or has
\* told the master that it failed: nothing is left behind without a wake-up.
NobodyStranded ==
    \A w \in Workers : alive[w] = "alive" /\ current_task_index[w] > 0 =>
        \/ IsJoinPoint(w, current_task_index[w])
        \/ timers[w] = 1
        \/ handling[w] # NotHandling
        \/ "BenchmarkFailure" \in {m.type : m \in Elements(to_master[w])} \union Elements(reports)

OneMessage(q, type) ==
    \A i, j \in 1 .. Len(q) : q[i].type = type /\ q[j].type = type => i = j

\* A worker never has two reasons to call drive(): StartWorker or Drive in its
\* mailbox, start_driving, or an executor.  With two it would run past a join
\* point on its own.
OneReasonToDrive ==
    \A w \in Workers :
        LET starting == HasMessage(to_worker[w], "StartWorker")
            driving == HasMessage(to_worker[w], "Drive")
        IN  /\ OneMessage(to_worker[w], "StartWorker") /\ OneMessage(to_worker[w], "Drive")
            /\ starting => ~driving /\ ~start_driving[w] /\ executor_future[w] = "none"
            /\ driving => ~start_driving[w] /\ executor_future[w] = "none"
            /\ start_driving[w] => executor_future[w] = "none"

\* A worker has at most one wake-up pending or being handled, and it is the
\* only thing that looks at its executor.
OneWakeup == \A w \in Workers : timers[w] + (IF handling[w] = NotHandling THEN 0 ELSE 1) <= 1

Ended == \E i \in 1 .. Len(reports) : reports[i] # "TaskFinished"

\* Every benchmark ends: with results, or with a failure that is reported.
BenchmarkEnds == <>Ended

(***************************************************************************)
(* Nothing acts on a worker without its reason: it has at most one pending *)
(* wake-up, which receiveMsg_WakeupMessage cannot cancel, and the event    *)
(* that ends its tasks is set only for the reason it may be.               *)
(***************************************************************************)
EventsAreJustified == OneWakeup /\ CompletionJustified

(***************************************************************************)
(* A step is complete when its join point is: every worker gets there by a *)
(* wake-up or has failed, and the samples of the steps behind it are       *)
(* stored.                                                                 *)
(***************************************************************************)
JoinPointsComplete == NobodyStranded /\ SamplesStoredAtJoinPoint
=============================================================================
