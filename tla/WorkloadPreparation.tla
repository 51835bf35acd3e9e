------------------------ MODULE WorkloadPreparation ------------------------
(***************************************************************************)
(* Preparing the workload before a benchmark (osbenchmark/                 *)
(* worker_coordinator/worker_coordinator.py, WorkerCoordinatorActor,       *)
(* WorkloadPreparationActor and TaskExecutionActor).                       *)
(*                                                                         *)
(* The coordinator has one preparator per load generator host; it runs the *)
(* workload processors one after the other.  A processor yields tasks      *)
(* (download and decompress a corpus), which the preparator hands out to   *)
(* its task executors; when every executor is idle the next processor's    *)
(* turn has come.                                                          *)
(*                                                                         *)
(* Messages between two actors arrive in the order they were sent.         *)
(***************************************************************************)
EXTENDS Integers, Sequences, FiniteSets

CONSTANTS
    Hosts,          \* the preparators, one per worker_ips entry
    Executors,      \* the task executors of all hosts
    HostOf,         \* the host (and preparator) an executor belongs to
    Processors,     \* number of workload processors
    TaskCount,      \* TaskCount[h][p]: tasks processor p yields on host h
    MaxFailures,    \* bound: handlers and tasks that raise
    MaxCrashes      \* bound: processes that die

Children(h) == {e \in Executors : HostOf[e] = h}

ASSUME HostsAssumption ==
    /\ IsFiniteSet(Hosts) /\ Hosts # {} /\ IsFiniteSet(Executors)
    /\ HostOf \in [Executors -> Hosts]
    /\ \A h \in Hosts : Children(h) # {}
\* WorkloadProcessorRegistry has at least its required processors.
ASSUME ProcessorsAssumption ==
    /\ Processors \in Nat \ {0}
    /\ TaskCount \in [Hosts -> [1 .. Processors -> Nat]]
    /\ MaxFailures \in Nat /\ MaxCrashes \in Nat

VARIABLES
    \* per preparator
    status,
    processor,          \* the processor taken from the queue last; the later ones are in it
    tasks,              \* tasks of it not handed out yet: 1 .. tasks[h]
    responses,          \* len(received_responses)
    \* per executor
    future,             \* executor_future, or NoFuture
    wakeup,             \* is a wake-up scheduled?
    \* the coordinator
    prepared,           \* len(received_responses)
    reports,            \* what start_sender has been sent
    \* channels
    fromCoordinator, toCoordinator, toExecutor, toPreparator,
    \* the environment
    exited,             \* actors that are no more
    failures, crashes,
    \* history: the tasks that have been executed, per host
    executed

preparatorVars == <<status, processor, tasks, responses>>
executorVars == <<future, wakeup, executed>>
coordinatorVars == <<prepared, reports>>
environmentVars == <<exited, failures, crashes>>
preparationVars == <<preparatorVars, executorVars, coordinatorVars, environmentVars,
          fromCoordinator, toCoordinator, toExecutor, toPreparator>>

\* A task, None, and what executor_future refers to
TasksOf(h, p) == {[processor |-> p, number |-> i] : i \in 1 .. TaskCount[h][p]}
AllTasks(h) == UNION {TasksOf(h, p) : p \in 1 .. Processors}
None == [processor |-> 0, number |-> 0]
Threads == {"none", "running", "done", "failed"}
NoFuture == [task |-> None, thread |-> "none"]

Msg(type) == [type |-> type, task |-> None]
DoTask(t) == [type |-> "DoTask", task |-> t]
Types == {"PrepareWorkload", "WorkloadPrepared", "StartTaskLoop", "ReadyForWork", "DoTask",
          "WorkerIdle", "BenchmarkFailure", "ActorExitRequest"}
Tasks == {None} \union UNION {AllTasks(h) : h \in Hosts}
Messages == [type : Types, task : Tasks]

\* Mailboxes, status, counted responses and tasks of the preparation actors keep their types.
PreparationTypeOK ==
    /\ status \in [Hosts -> {"INITIALIZING", "PROCESSOR_RUNNING", "PROCESSOR_COMPLETE"}]
    /\ processor \in [Hosts -> 0 .. Processors]
    /\ tasks \in [Hosts -> Nat]
    /\ responses \in [Hosts -> Nat] /\ \A h \in Hosts : responses[h] < Cardinality(Children(h))
    /\ future \in [Executors -> [task : Tasks, thread : Threads]]
    /\ wakeup \in [Executors -> BOOLEAN]
    /\ prepared \in 0 .. Cardinality(Hosts) - 1
    /\ reports \subseteq {"PreparationComplete", "BenchmarkFailure"}
    /\ fromCoordinator \in [Hosts -> Seq(Messages)]
    /\ toCoordinator \in [Hosts -> Seq(Messages)]
    /\ toExecutor \in [Executors -> Seq(Messages)]
    /\ toPreparator \in [Executors -> Seq(Messages)]
    /\ exited \subseteq Hosts \union Executors
    /\ failures \in 0 .. MaxFailures /\ crashes \in 0 .. MaxCrashes
    /\ executed \in [Hosts -> SUBSET Tasks] /\ \A h \in Hosts : executed[h] \subseteq AllTasks(h)

\* The coordinator has handled PrepareBenchmark: prepare_workload has created
\* the preparators and sent PrepareWorkload to all of them.
PreparationInit ==
    /\ status = [h \in Hosts |-> "INITIALIZING"]
    /\ processor = [h \in Hosts |-> 0]
    /\ tasks = [h \in Hosts |-> 0]
    /\ responses = [h \in Hosts |-> 0]
    /\ future = [e \in Executors |-> NoFuture]
    /\ wakeup = [e \in Executors |-> FALSE]
    /\ prepared = 0 /\ reports = {}
    /\ fromCoordinator = [h \in Hosts |-> <<Msg("PrepareWorkload")>>]
    /\ toCoordinator = [h \in Hosts |-> <<>>]
    /\ toExecutor = [e \in Executors |-> <<>>]
    /\ toPreparator = [e \in Executors |-> <<>>]
    /\ exited = {} /\ failures = 0 /\ crashes = 0
    /\ executed = [h \in Hosts |-> {}]

Receives(actor, channel, key, type) ==
    /\ actor \notin exited
    /\ channel[key] # <<>>
    /\ Head(channel[key]).type = type

Popped(channel, key) == [channel EXCEPT ![key] = Tail(@)]
Sent(channel, key, msg) == [channel EXCEPT ![key] = Append(@, msg)]
SentToChildren(h, msg) ==
    [e \in Executors |-> IF HostOf[e] = h THEN Append(toExecutor[e], msg) ELSE toExecutor[e]]

\* Some handler or task raises.
Raises ==
    /\ failures < MaxFailures
    /\ failures' = failures + 1
    /\ UNCHANGED <<exited, crashes>>

-----------------------------------------------------------------------------
(* The preparators *)

\* Mutant: the next round is not announced to the executors.
RunNextProcessorSilently(h) ==
    /\ processor' = [processor EXCEPT ![h] = @ + 1]
    /\ tasks' = [tasks EXCEPT ![h] = TaskCount[h][processor[h] + 1]]
    /\ status' = [status EXCEPT ![h] = "PROCESSOR_RUNNING"]
    /\ toExecutor' = IF processor[h] = 0 THEN SentToChildren(h, Msg("StartTaskLoop")) ELSE toExecutor

\* _seed_tasks, and send_to_children_and_transition of StartTaskLoop
RunNextProcessor(h) ==
    /\ processor' = [processor EXCEPT ![h] = @ + 1]
    /\ tasks' = [tasks EXCEPT ![h] = TaskCount[h][processor[h] + 1]]
    /\ status' = [status EXCEPT ![h] = "PROCESSOR_RUNNING"]
    /\ toExecutor' = SentToChildren(h, Msg("StartTaskLoop"))

\* receiveMsg_PrepareWorkload
PrepareWorkload(h) ==
    /\ Receives(h, fromCoordinator, h, "PrepareWorkload")
    /\ fromCoordinator' = Popped(fromCoordinator, h)
    /\ RunNextProcessor(h)
    /\ UNCHANGED <<responses, executorVars, coordinatorVars, environmentVars, toCoordinator,
                   toPreparator>>

\* ... raises: no_retry tells the sender.
PrepareWorkloadRaises(h) ==
    /\ Receives(h, fromCoordinator, h, "PrepareWorkload")
    /\ Raises
    /\ fromCoordinator' = Popped(fromCoordinator, h)
    /\ toCoordinator' = Sent(toCoordinator, h, Msg("BenchmarkFailure"))
    /\ UNCHANGED <<preparatorVars, executorVars, coordinatorVars, toExecutor, toPreparator>>

\* Mutant: the task stays in the list.
ReadyForWorkKeepsTask(e) ==
    LET h == HostOf[e]
        next == IF tasks[h] > 0 THEN [processor |-> processor[h], number |-> tasks[h]] ELSE None
    IN  /\ Receives(h, toPreparator, e, "ReadyForWork")
        /\ toPreparator' = Popped(toPreparator, e)
        /\ toExecutor' = Sent(toExecutor, e, DoTask(next))
        /\ UNCHANGED <<preparatorVars, executorVars, coordinatorVars, environmentVars,
                       fromCoordinator, toCoordinator>>

\* receiveMsg_ReadyForWork: pop the last task, if any
ReadyForWork(e) ==
    LET h == HostOf[e]
        next == IF tasks[h] > 0 THEN [processor |-> processor[h], number |-> tasks[h]] ELSE None
    IN  /\ Receives(h, toPreparator, e, "ReadyForWork")
        /\ toPreparator' = Popped(toPreparator, e)
        /\ tasks' = [tasks EXCEPT ![h] = IF @ > 0 THEN @ - 1 ELSE @]
        /\ toExecutor' = Sent(toExecutor, e, DoTask(next))
        /\ UNCHANGED <<status, processor, responses, executorVars, coordinatorVars,
                       environmentVars, fromCoordinator, toCoordinator>>

\* Mutant: does not wait for the last one.
AllRespondedTooEarly(h) == responses[h] + 2 >= Cardinality(Children(h))

\* transition_when_all_children_responded: is this the last response?
AllResponded(h) == responses[h] + 1 = Cardinality(Children(h))

\* receiveMsg_WorkerIdle, with other executors still at work
WorkerIdle(e) ==
    LET h == HostOf[e]
    IN  /\ Receives(h, toPreparator, e, "WorkerIdle")
        /\ ~AllResponded(h)
        /\ toPreparator' = Popped(toPreparator, e)
        /\ responses' = [responses EXCEPT ![h] = @ + 1]
        /\ UNCHANGED <<status, processor, tasks, executorVars, coordinatorVars, environmentVars,
                       fromCoordinator, toCoordinator, toExecutor>>

\* Mutant: received_responses is not reset.
LastWorkerIdleKeepsResponses(e) ==
    /\ Receives(HostOf[e], toPreparator, e, "WorkerIdle")
    /\ AllResponded(HostOf[e])
    /\ toPreparator' = Popped(toPreparator, e)
    /\ responses' = [responses EXCEPT ![HostOf[e]] = @ + 1]
    /\ UNCHANGED <<executorVars, coordinatorVars, fromCoordinator>>

\* receiveMsg_WorkerIdle of the last executor
LastWorkerIdle(e) ==
    /\ Receives(HostOf[e], toPreparator, e, "WorkerIdle")
    /\ AllResponded(HostOf[e])
    /\ toPreparator' = Popped(toPreparator, e)
    /\ responses' = [responses EXCEPT ![HostOf[e]] = 0]
    /\ UNCHANGED <<executorVars, coordinatorVars, fromCoordinator>>

\* resume, with another processor to run
ResumeNextProcessor(e) ==
    /\ LastWorkerIdle(e)
    /\ processor[HostOf[e]] < Processors
    /\ RunNextProcessor(HostOf[e])
    /\ UNCHANGED <<environmentVars, toCoordinator>>

\* ... whose on_prepare_workload raises: no_retry tells the sender, the executor.
ResumeRaises(e) ==
    /\ LastWorkerIdle(e)
    /\ processor[HostOf[e]] < Processors
    /\ Raises
    /\ processor' = [processor EXCEPT ![HostOf[e]] = @ + 1]
    /\ status' = [status EXCEPT ![HostOf[e]] = "PROCESSOR_COMPLETE"]
    /\ toExecutor' = Sent(toExecutor, e, Msg("BenchmarkFailure"))
    /\ UNCHANGED <<tasks, toCoordinator>>

\* resume after the last processor
ResumeDone(e) ==
    LET h == HostOf[e]
    IN  /\ LastWorkerIdle(e)
        /\ processor[h] = Processors
        /\ status' = [status EXCEPT ![h] = "PROCESSOR_COMPLETE"]
        /\ toCoordinator' = Sent(toCoordinator, h, Msg("WorkloadPrepared"))
        /\ UNCHANGED <<processor, tasks, environmentVars, toExecutor>>

\* receiveMsg_BenchmarkFailure
PreparatorForwardsFailure(e) ==
    LET h == HostOf[e]
    IN  /\ Receives(h, toPreparator, e, "BenchmarkFailure")
        /\ toPreparator' = Popped(toPreparator, e)
        /\ toCoordinator' = Sent(toCoordinator, h, Msg("BenchmarkFailure"))
        /\ UNCHANGED <<preparatorVars, executorVars, coordinatorVars, environmentVars,
                       fromCoordinator, toExecutor>>

\* receiveMsg_ActorExitRequest
PreparatorExits(h) ==
    /\ Receives(h, fromCoordinator, h, "ActorExitRequest")
    /\ fromCoordinator' = Popped(fromCoordinator, h)
    /\ toExecutor' = SentToChildren(h, Msg("ActorExitRequest"))
    /\ exited' = exited \union {h}
    /\ UNCHANGED <<preparatorVars, executorVars, coordinatorVars, failures, crashes,
                   toCoordinator, toPreparator>>

-----------------------------------------------------------------------------
(* The task executors *)

\* receiveMsg_StartTaskLoop
StartTaskLoop(e) ==
    /\ Receives(e, toExecutor, e, "StartTaskLoop")
    /\ toExecutor' = Popped(toExecutor, e)
    /\ \/ /\ toPreparator' = Sent(toPreparator, e, Msg("ReadyForWork"))
          /\ UNCHANGED environmentVars
       \/ /\ Raises         \* the plugins cannot be loaded
          /\ toPreparator' = Sent(toPreparator, e, Msg("BenchmarkFailure"))
    /\ UNCHANGED <<preparatorVars, executorVars, coordinatorVars, fromCoordinator, toCoordinator>>

\* receiveMsg_DoTask: nothing to do
DoNothing(e) ==
    /\ Receives(e, toExecutor, e, "DoTask")
    /\ Head(toExecutor[e]).task = None
    /\ toExecutor' = Popped(toExecutor, e)
    /\ toPreparator' = Sent(toPreparator, e, Msg("WorkerIdle"))
    /\ UNCHANGED <<preparatorVars, executorVars, coordinatorVars, environmentVars,
                   fromCoordinator, toCoordinator>>

\* receiveMsg_DoTask: submit the task to the pool and look again later
SubmitTask(e) ==
    /\ Receives(e, toExecutor, e, "DoTask")
    /\ Head(toExecutor[e]).task # None
    /\ toExecutor' = Popped(toExecutor, e)
    /\ future' = [future EXCEPT ![e] = [task |-> Head(toExecutor[e]).task, thread |-> "running"]]
    /\ wakeup' = [wakeup EXCEPT ![e] = TRUE]
    /\ UNCHANGED <<preparatorVars, executed, coordinatorVars, environmentVars, fromCoordinator,
                   toCoordinator, toPreparator>>

\* The pool's thread comes to an end.
TaskEnds(e) ==
    /\ e \notin exited
    /\ future[e].thread = "running"
    /\ \/ /\ future' = [future EXCEPT ![e].thread = "done"]
          /\ executed' = [executed EXCEPT ![HostOf[e]] = @ \union {future[e].task}]
          /\ UNCHANGED environmentVars
       \/ /\ Raises
          /\ future' = [future EXCEPT ![e].thread = "failed"]
          /\ UNCHANGED executed
    /\ UNCHANGED <<preparatorVars, wakeup, coordinatorVars, fromCoordinator, toCoordinator,
                   toExecutor, toPreparator>>

\* receiveMsg_WakeupMessage; while the thread is running, it only schedules the
\* next wake-up.
WakeupDone(e) ==
    /\ e \notin exited
    /\ wakeup[e] /\ future[e].thread = "done"
    /\ future' = [future EXCEPT ![e] = NoFuture]
    /\ wakeup' = [wakeup EXCEPT ![e] = FALSE]
    /\ toPreparator' = Sent(toPreparator, e, Msg("ReadyForWork"))
    /\ UNCHANGED <<preparatorVars, executed, coordinatorVars, environmentVars, fromCoordinator,
                   toCoordinator, toExecutor>>

\* Mutant: asks for more work after a failure.
WakeupFailedGoesOn(e) ==
    /\ e \notin exited
    /\ wakeup[e] /\ future[e].thread = "failed"
    /\ future' = [future EXCEPT ![e] = NoFuture]
    /\ wakeup' = [wakeup EXCEPT ![e] = FALSE]
    /\ toPreparator' = [toPreparator EXCEPT ![e] =
                          @ \o <<Msg("BenchmarkFailure"), Msg("ReadyForWork")>>]
    /\ UNCHANGED <<preparatorVars, executed, coordinatorVars, environmentVars,
                   fromCoordinator, toCoordinator, toExecutor>>

\* A failed task's future stays, so that the executor counts as busy.
WakeupFailed(e) ==
    /\ e \notin exited
    /\ wakeup[e] /\ future[e].thread = "failed"
    /\ wakeup' = [wakeup EXCEPT ![e] = FALSE]
    /\ toPreparator' = Sent(toPreparator, e, Msg("BenchmarkFailure"))
    /\ UNCHANGED <<preparatorVars, future, executed, coordinatorVars, environmentVars,
                   fromCoordinator, toCoordinator, toExecutor>>

\* receiveMsg_BenchmarkFailure: sent back by the preparator's no_retry
ExecutorForwardsFailure(e) ==
    /\ Receives(e, toExecutor, e, "BenchmarkFailure")
    /\ toExecutor' = Popped(toExecutor, e)
    /\ toPreparator' = Sent(toPreparator, e, Msg("BenchmarkFailure"))
    /\ UNCHANGED <<preparatorVars, executorVars, coordinatorVars, environmentVars,
                   fromCoordinator, toCoordinator>>

ExecutorExits(e) ==
    /\ Receives(e, toExecutor, e, "ActorExitRequest")
    /\ toExecutor' = Popped(toExecutor, e)
    /\ exited' = exited \union {e}
    /\ UNCHANGED <<preparatorVars, executorVars, coordinatorVars, failures, crashes,
                   fromCoordinator, toCoordinator, toPreparator>>

-----------------------------------------------------------------------------
(* The coordinator *)

Coordinator == "coordinator"

\* receiveMsg_WorkloadPrepared and, for the last one, _after_workload_prepared
WorkloadPrepared(h) ==
    /\ Receives(Coordinator, toCoordinator, h, "WorkloadPrepared")
    /\ toCoordinator' = Popped(toCoordinator, h)
    /\ IF prepared + 1 = Cardinality(Hosts)
       THEN /\ prepared' = 0
            /\ reports' = reports \union {"PreparationComplete"}
            /\ fromCoordinator' = [g \in Hosts |-> Append(fromCoordinator[g], Msg("ActorExitRequest"))]
       ELSE /\ prepared' = prepared + 1
            /\ UNCHANGED <<reports, fromCoordinator>>
    /\ UNCHANGED <<preparatorVars, executorVars, environmentVars, toExecutor, toPreparator>>

\* receiveMsg_BenchmarkFailure
CoordinatorFails(h) ==
    /\ Receives(Coordinator, toCoordinator, h, "BenchmarkFailure")
    /\ toCoordinator' = Popped(toCoordinator, h)
    /\ reports' = reports \union {"BenchmarkFailure"}
    /\ UNCHANGED <<preparatorVars, executorVars, prepared, environmentVars, fromCoordinator,
                   toExecutor, toPreparator>>

-----------------------------------------------------------------------------
\* A process dies.  The coordinator logs that "a workload preparator has
\* exited", a preparator does not handle ChildActorExited: nothing follows.
Crash(a) ==
    /\ crashes < MaxCrashes
    /\ a \notin exited
    /\ exited' = exited \union {a}
    /\ crashes' = crashes + 1
    /\ UNCHANGED <<preparatorVars, executorVars, coordinatorVars, failures, fromCoordinator,
                   toCoordinator, toExecutor, toPreparator>>

PreparatorStep(h) ==
    \/ PrepareWorkload(h) \/ PrepareWorkloadRaises(h) \/ PreparatorExits(h)
    \/ \E e \in Children(h) :
          \/ ReadyForWork(e) \/ WorkerIdle(e) \/ ResumeNextProcessor(e) \/ ResumeRaises(e)
          \/ ResumeDone(e) \/ PreparatorForwardsFailure(e)

ExecutorStep(e) ==
    \/ StartTaskLoop(e) \/ DoNothing(e) \/ SubmitTask(e) \/ WakeupDone(e) \/ WakeupFailed(e)
    \/ ExecutorForwardsFailure(e) \/ ExecutorExits(e)

CoordinatorStep == \E h \in Hosts : WorkloadPrepared(h) \/ CoordinatorFails(h)

PreparationNext ==
    \/ CoordinatorStep
    \/ \E h \in Hosts : PreparatorStep(h)
    \/ \E e \in Executors : ExecutorStep(e) \/ TaskEnds(e)
    \/ \E a \in Hosts \union Executors : Crash(a)

PreparationSpec == PreparationInit /\ [][PreparationNext]_preparationVars

-----------------------------------------------------------------------------
(* Correctness *)

Heads(channel, e) == IF channel[e] = <<>> THEN "none" ELSE Head(channel[e]).type

\* Neither assertion of transition_when_all_children_responded, nor the one of
\* send_to_children_and_transition, nor the "was already busy" check of
\* receiveMsg_DoTask ever fails, whatever the executors' order.
AssertionsHold ==
    \A e \in Executors :
        /\ Heads(toPreparator, e) = "WorkerIdle" =>
              status[HostOf[e]] = "PROCESSOR_RUNNING"
                /\ responses[HostOf[e]] < Cardinality(Children(HostOf[e]))
        /\ Heads(toExecutor, e) = "DoTask" => future[e] = NoFuture
        /\ Heads(fromCoordinator, HostOf[e]) = "PrepareWorkload" => status[HostOf[e]] = "INITIALIZING"

\* A processor's tasks run only when all tasks of all earlier processors on the
\* host have been executed: idleness is counted per round.
ProcessorsInOrder ==
    \A e \in Executors : future[e].thread = "running" =>
        \A p \in 1 .. future[e].task.processor - 1 : TasksOf(HostOf[e], p) \subseteq executed[HostOf[e]]

\* Where a task of h's current processor is: still listed, in a DoTask message,
\* in an executor's pool, or executed.
Places(h, t) ==
    LET pool == {e \in Children(h) : future[e].task = t}
        sent == {e \in Children(h) : \E i \in DOMAIN toExecutor[e] : toExecutor[e][i].task = t}
    IN  {<<"pool", e>> : e \in pool} \union {<<"message", e>> : e \in sent}
          \union {x \in {<<"list">>} : t.number <= tasks[h]}
          \union {x \in {<<"executed">>} : t \in executed[h] /\ pool = {}}

\* No task is handed out twice, and none gets lost on its way.
TaskInOnePlace ==
    \A h \in Hosts : status[h] = "PROCESSOR_RUNNING" =>
        \A t \in TasksOf(h, processor[h]) : Cardinality(Places(h, t)) = 1

\* start_sender is told that the preparation is complete only if every task of
\* every processor has been executed on every host, and is then not told of a
\* failure, nor the other way round.
CompleteMeansPrepared ==
    "PreparationComplete" \in reports =>
        /\ "BenchmarkFailure" \notin reports
        /\ \A h \in Hosts : executed[h] = AllTasks(h)

\* No executor is stopped while its thread runs, unless its process dies.
NoTaskInterrupted ==
    \A e \in exited' \ exited : e \in Executors /\ crashes' = crashes => future[e] = NoFuture

\* Has start_sender got an answer, or a process died?
PreparationReported == reports # {} \/ crashes > 0

(***************************************************************************)
(* Preparation is orderly in every step: processors run one after the      *)
(* other, each task is in one place and is not interrupted, the assertions *)
(* of BenchmarkActor hold, and completion is claimed only when all is      *)
(* done.                                                                   *)
(***************************************************************************)
PreparationIsOrderly ==
    [][/\ (PreparationTypeOK /\ AssertionsHold /\ ProcessorsInOrder /\ TaskInOnePlace /\ CompleteMeansPrepared)'
       /\ NoTaskInterrupted]_preparationVars
=============================================================================
