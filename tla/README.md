# solr-benchmark in TLA+

A verification project for solr-benchmark, the load generator under
`src/osbenchmark`.  The modules follow a test run through the program: the
command line and the actor system, the orchestration from the main process down
to the nodes, the supply and launch of Solr, the workload repository, the
loading and preparation of a workload, the allocation of its schedule, the
coordination of the load generating workers, the clients and the operations they
send, redline testing and streaming, and the way of the measurements to the
stored and printed results.  TLC checks every module on small instances; TLAPS
proves the safety of fourteen of them for every value of the constants.

Everything is translated from the source.  `PROJECT.json` names, for every
definition that models code, the file and the lines it stands for.

## 1. Inventory

### The system

A run of the program is a tree of Thespian actors.  An actor handles one
message at a time; messages from one actor to another arrive in order; an
exception in a handler decorated with `no_retry` is sent to the *sender* of the
message as `BenchmarkFailure`.

    benchmark.py (command line)
      test_run_orchestrator.BenchmarkActor
        builder.BuilderActor -> Dispatcher -> NodeBuilderActor   (one per host)
        WorkerCoordinatorActor  (owns WorkerCoordinator)
          WorkloadPreparationActor -> TaskExecutionActor         (host, core)
          FeedbackActor                                          (redline only)
          Worker                                                 (core)
            AsyncIoAdapter in a thread, one AsyncExecutor per client
            S3DataProducer process                               (streaming only)

| component | state | operations | interacts with |
|---|---|---|---|
| allocation (`Allocator`, `calculate_worker_assignments`) | none, pure | matrix of clients and rows; clients per worker | read by coordinator and workers |
| `WorkerCoordinator` + actor | `current_step`, `currently_completed`, `workers_completed_current_step`, `complete_current_task_sent`, `raw_samples`, `most_recent_sample_per_client` | join point reached, samples arrive, wake-up, failure, death of a child | workers (messages), feedback actor, metrics store |
| `Worker` | `current_task_index`, `start_driving`, `complete` event, `cancel` event, `executor_future`, two samplers, a pending wake-up | StartWorker, Drive, CompleteCurrentTask, wake-up | coordinator; its executor thread through samplers, events and the future |
| `AsyncExecutor` | its schedule; `complete`; shared client states | one request after the other until the schedule or the event ends it | the worker's samplers, the error queue of redline testing |
| `FeedbackActor` | state machine, `total_active_client_count`, `max_error_threshold`, time stamps | wake-up every second, Enable, Disable, exit | executors of all workers through shared dictionaries, queue and lock |
| `WorkloadPreparationActor`, `TaskExecutionActor` | status, responses, list of tasks; one future per executor | one round per processor, tasks handed out on request | worker coordinator |
| `IngestionManager`, `S3DataProducer`, streaming `Slice` | `rd_index`, `wr_count`, two conditions, the chunk files | producer writes and publishes, readers claim and remove | several processes through shared memory and files |
| `ThroughputCalculator` | statistics per task, unprocessed samples | calculate on a timer and at join points | fed by the coordinator |
| runners and `client.py` | collections, configsets and documents in Solr; calls in the thread pool | one operation per call, several HTTP requests each | the executor awaits them under a timeout; threads go on without it |
| schedules (`ScheduleHandle`, `TimePeriodBased`, `IterationBased`, `scheduler.py`) | position in the schedule | next invocation | the executor |
| `run_test` in the main process | where it waits; its own Solr | provision, ask, interrupt, tear down | orchestrator (ask and answer) |
| orchestrator (`BenchmarkActor`, `BenchmarkCoordinator`) | `cancelled`, `error`, metrics store | set up, engine started, task finished, complete, failure, cancellation | main process, builder, worker coordinator |
| `BuilderActor`, `Dispatcher`, `NodeBuilderActor` | `status`, `children`, `received_responses`; hosts to wait for; the nodes of a host | start and stop of the cluster, failures, exits | orchestrator; remote hosts join and leave |
| bulk and search parameter sources | partitions, position in the bulks, ids used; pools of standard values | partition, next parameters | the clients of a worker share one |
| workload loader and its processors | the workload, edited in place | read, filter, test mode, choose a procedure | coordinator and every worker load it again |
| `DocumentSetPreparator`, `utils/net.py`, `utils/io.py` | archive, document file, offset table on disk | download, decompress, build the table | outlive the process that writes them |
| `BenchmarkRepository`, `utils/git.py`, `utils/versions.py` | a working copy per host | fetch, choose a branch, check out | the remote and the user change them meanwhile |
| suppliers, `SolrProvisioner`, `SolrDockerLauncher` | artifact cache, tarball, installation, the port | build or download, extract, start, wait, stop | whoever else uses the port |
| `install`, `start`, `stop` | node file, process id, state of the devices | one process per command | `ProcessLauncher`, telemetry, metrics store |
| `benchmark.py`, `benchmarkd.py` | commands and actor system of a machine | look for others, bootstrap or join, iterate, shut down | one another |
| metrics stores, polling devices | records, the file, one thread per device, relative clock | put, hand over, close, flush | coordinator and orchestrator |
| statistics, test run store, publishers | results, `test_run.json` | calculate, store, print, compare | run on the orchestrator |
| config, conversion, generators | see `components` in `PROJECT.json` | | files |

### Behaviours that are hard

* **Two clocks in every worker.**  The executor thread runs beside the message
  handlers and, above all, in the middle of them: between "send the samples"
  and "is the executor done?" a client may take its last sample.
* **Three ways into `Worker.drive`** (StartWorker, Drive followed by a wake-up,
  a wake-up that finds the executor done) and wake-ups that cannot be cancelled.
* **A counter and a dictionary** that must agree for the barrier to hold.
* **Completion of a parallel element**, which may reach a worker that is not
  there yet, that is already at the join point, or that has a row left to skip.
* **Processes that share memory without a lock**: the client states and the
  error queue of redline testing, the indices of streaming ingestion.
* **Failures that travel hop by hop**, from a task in a thread pool through
  three actors, and children that die without a message.

* **Threads that nobody can stop**: a request that timed out goes on in its
  thread, and so does a telemetry poller that is not joined in time.
* **Files and processes that outlive a run**: half-written archives and offset
  tables, caches under final names, a Solr on the port, a process id that is
  somebody else's by now.
* **Looking and acting in two steps**: for a free port, for another benchmark,
  for the process to stop.
* **Numbers that are rounded twice**: shares of documents, buckets of
  throughput, percentiles of few samples.

The list of hazards in `PROJECT.json` names the line of each, with the
properties that would catch it.

### What makes each component correct

* coordination: join points are passed in lockstep; no sample is lost or
  counted twice; a task is cut short only for the reason it may be; every
  benchmark ends with a result or a failure;
* orchestration: the benchmark runs on a complete cluster; success means
  published results and stopped nodes; a failed or cancelled run publishes
  nothing afterwards; the main process gets an answer and the nodes are stopped
  whatever went wrong;
* allocation: the matrix is rectangular, its join points fill rows, the clients
  of a sub-task are numbered without gaps, each client belongs to one worker;
* redline: the count of active clients is right, errors lower the load, recovery
  waits and finally succeeds;
* preparation: processors run one after the other, each task once, completion
  is never claimed early, and the orchestrator gets an answer;
* streaming: each chunk has one reader, the backlog is bounded, and the stream
  is read to its end;
* clients: samples mean what they say, throttling is kept, schedules have the
  length they were given, errors have the consequence that was asked for, and
  every task ends;
* operations: what is reported as indexed is, what is committed is found, and
  late calls are bounded;
* parameters and loading: each document is sent once, ids do not cross clients,
  filters and test mode keep what they should, repeated queries do repeat;
* files and hosts: a run measures what it asked for, whatever earlier runs left
  behind, leaves nothing running, and can be repeated;
* measurements: no record is lost silently or counted twice, and the results
  show every task, its failures and no warm-up.

## 2. Modules

| module | models | composes |
|---|---|---|
| `StepBarrier` | abstract specification: workers reach, the coordinator releases | |
| `WorkerCoordination` | coordinator, workers, samplers, executors, clients | refines `StepBarrier` |
| `WorkerCoordinationMC` | test procedures and hosts as instances | `WorkerCoordination` with the matrix that `Allocator` computes |
| `WorkerCoordinationProofs` | theorems: the barrier | `WorkerCoordination` |
| `WorkerEventsProofs` | theorems: wake-ups, completion, samples, join points | `WorkerCoordinationProofs` |
| `Allocator` | allocation matrix and worker assignment as functions | |
| `FeedbackScaling`, `...MC`, `...Proofs` | redline testing | |
| `WorkloadPreparation`, `...MC` | preparation on all hosts | |
| `StreamingIngestion`, `...MC` | streaming of chunks | |
| `IngestionMC` | where documents come from | the two above |
| `IngestionProofs` | theorems: preparation, streaming | the two above |
| `Orchestration`, `...MC`, `...Proofs` | main process, orchestrator, builder, dispatcher, node builders | the worker coordinator as the orchestrator sees it |
| `LoadGeneration`, `...MC` | executors, schedules, throttling, timeouts, error policies | runners that do anything |
| `SolrOperations`, `...MC` | runners, thread pool, Solr | |
| `ClientsMC` | what a client does and when | the two above |
| `ClientsProofs` | theorems: schedules, errors, operations | the two above |
| `ParameterSources` | shares, bulks, ids | |
| `WorkloadLoading` | reading, filters, test mode, procedures | |
| `QueryRandomization` | pools of values, randomized ranges | |
| `Versions` | matching versions with branches | |
| `AlgorithmsMC` | all small inputs as states | `Allocator` and the four above |
| `CorpusPreparation` | archive, document file, offset table over restarts | |
| `WorkloadRepository` | working copies of all hosts | uses `Versions` |
| `SourceArtifacts` | suppliers and the artifact cache | |
| `SolrPipelines` | the pipelines' own Solr | |
| `NodeCommands` | install, start, stop | |
| `CommandLine` | concurrent commands and the daemon | |
| `HostMC` | what outlives a test run | the six above |
| `HostProofs` | theorems: files, working copies, artifacts, pipelines, nodes, commands | the six above |
| `MetricsFlow` | stores, devices, hand-over, relative clock | |
| `MetricsFlowProofs` | theorems: the records on their way | `MetricsFlow` |
| `Throughput` | the calculator over batches | |
| `Results` | statistics, test run store, summary, comparison | |
| `MeasurementMC` | what becomes of measurements | the three above |

`ClientsMC`, `IngestionMC`, `HostMC`, `MeasurementMC` and `AlgorithmsMC` hold
parts that do not share state in the program.  Their variable `part` says which
of them a behaviour is about; the others are parked in one of their initial
states, so that the states add up and do not multiply.

A definition whose comment starts with "Mutant" is a plausible bug in the
definition below it.  It is used by no specification; it is there to show that
the properties can tell the difference.

### WorkerCoordination

The variables carry the names of the attributes.  The mailboxes are one
sequence per worker and direction (`to_worker`, `to_master`), because order is
only guaranteed between two actors.  `timers[w]` counts the pending wake-ups,
`alive[w]` is the life of the worker's process, and `taken` is a history of all
samples.  A row of the matrix is a task, a join point or nothing; a task keeps
what matters to coordination: whether it completes its parent, whether its
schedule ends by itself, how it reports progress, and how many of its requests
are profiled.

* One action per handler.  `JoinPointPending`, `JoinPointRaises`,
  `MoveToNextTask` and `BenchmarkCompleted` are the four outcomes of
  `joinpoint_reached`; `WorkerStart`, `WorkerDrive`,
  `WorkerCompleteCurrentTask`, `WorkerForwardsFailure` are the worker's message
  handlers, and `DriveOn` is `Worker.drive` with its three branches.
* `receiveMsg_WakeupMessage` of a worker is split in two where the executor
  thread matters: `WakeupToCheck` sends the samples, `CheckDone`,
  `CheckFailed` and `CheckBusy` look at the future.  `handling` holds what the
  first part leaves for the second.
* `ClientContinues`, `ClientFinishes`, `ClientRaises` are one pass of
  `AsyncExecutor`'s loop each.
* Faults: requests that raise and workers that die (`Faults`), and the
  progress message, which raises on its own when it meets a bare float or two
  units (`Quiet` switches it off, as the command line option does).

Simplifications, and why they are harmless.  A failure that an actor sends to
itself is merged with its forwarding, since nothing can come between that
changes it.  The sampler's queue holds 2^20 entries and drops beyond that; no
instance gets there.  `runner.completed` is the end of the schedule.  The
`cancel` event is set on `ActorExitRequest` only, which is the last message of
an actor, so no behaviour follows it.  The first handler of a worker
(`StartWorker`) is taken not to raise.  Redline's messages to the feedback
actor are in `FeedbackScaling`.  Worker ids start at 1 instead of 0.

`PromptStart` is an assumption on time: a worker acts on Drive, which names a
start time one second ahead, before another worker's wake-up interval (five
seconds; half a second in test mode) has passed.  One run shows what happens
without it.

### Allocator

`AllocationMatrix` follows the append loops of `Allocator.allocations`,
`TasksPerJoinPoint` the loop of `tasks_per_joinpoint`, `WorkerAssignments` the
splitting of clients over hosts and cores.  Each is compared with a definition
that says what it should be: entry (c, i) is the sub-task that round-robin
gives to client c, and so on.

### FeedbackScaling

The actor's three time stamps are kept as ages, capped at `Patience`, the
longest pause any test looks at.  A wake-up lets between one and `MaxDelay`
seconds pass.  `scale_down` is a step of its own after the wake-up that found
errors, because executors run in between; `queue_lock` is true in between.
`quiet` is a history: seconds since the last scale-down of the step.  CPU-based
feedback is left out: its set-up raises before the benchmark starts.

### WorkloadPreparation

`toExecutor`, `toPreparator` and the two channels between coordinator and
preparators are sequences.  `Raises` is `no_retry`.  A task runs in the
executor's thread pool, so it ends (`TaskEnds`) at any time, and a wake-up finds
it done or failed.  Processes may die (`Crash`) in the safety run.

### StreamingIngestion

Each access to shared memory is a step of its own, since the producer holds no
lock while it writes a chunk, looks at the read index, publishes and looks
again.  Consumers are worker processes: the clients of one worker share the
thread of its event loop.  `PromptOpen` says that every reader has opened its
slice before the producer's last notification; `Slice.open` waits for a
notification unconditionally.

### Orchestration

`net` has one sequence of messages per pair of actors that talk to each other;
`Handles(src, me, msg, out)` is "me takes msg from src and sends out", so that a
handler reads as one line of messages and its assignments.  `alive` and `died`
are the actors' processes.  `setup` holds the arguments of `run_test`: the
pipelines pass `external`, with or without a Solr of their own around the call;
a cluster that the builder manages is started by the remaining setting, which
the actors implement and no pipeline uses at present.

* An exception in a handler is a disjunct of the handler's action that sends
  `BenchmarkFailure` to the sender; for the orchestrator that is the main
  process, the builder or the worker coordinator, and the latter two send it
  back up.
* `node[h]` tells apart whether the node builder has a `Builder`, whether that
  knows its nodes, and whether nodes are up: `self.nodes` is assigned only when
  all of them have started.
* `Exits` is Thespian's: an actor that exits tells its children.  `Dies` is the
  death of a process, of which the parent is told; `Poisoned` returns the first
  message of an actor that cannot be created.
* The worker coordinator is reduced to its phases and the number of elements it
  has still to run; it goes on after a failure, as it does in the code.
* `ResetRelativeTime` is received and has no effect, since the clocks of the
  metrics stores are in `MetricsFlow`.  A flush that raises (`FlushRaises`) goes
  round in the node builder for ever.

### LoadGeneration and SolrOperations

`LoadGeneration` is one pass of `AsyncExecutor.__call__` in steps: ramp-up, the
next invocation of the schedule, the wait for its slot, the request under
`asyncio.wait_for`, the result.  `Tick` lets time pass only when no coroutine is
due.  A scenario holds the tasks of the clients, with iterations or times,
target throughput and unit, `on_error` and the completing task.  The answer of
a runner is any of success, failure, a transport error, a lost connection, a
missing parameter or another exception; `Raises` says which of them end the
executor.  `ExecutorRaises` abandons the other coroutines, as the gather does.

`SolrOperations` gives each caller a script of operations.  A runner issues one
call after the other; a call waits for one of `PoolSize` threads, is executed by
Solr, and returns, fails or is lost.  When the caller is cancelled a waiting
call disappears and a running one goes on (`CancelCall`).  Solr is its
collections, configsets, documents and merges.  Payloads are left out.  `added`
counts, for every operation, the documents that Solr has accepted from it.  They
are `searchable` only after a `commit`, which an optimize includes, or when Solr
commits by itself (`CommitsWithin`), since the bulks send commit=False and
commitWithin=1000.  `Visible` are the documents a cursor may come by: those that
were searchable when the search began, and any number of those that have become
so, which may sort behind it.  A search with a body (`body-search`) is a raw
request to /query whose errors are those of requests and not of pysolr
(`Raised`): a lost connection ends its client for good.

### ParameterSources, WorkloadLoading, QueryRandomization, Versions

Sequential code over inputs.  `bounds` rounds half to even as Python does;
`Bulks` is what a slice reads through the offset table; `params` is one call of
a client, and two workers ask in any order.  `WorkloadLoading` reads a record
that stands for the rendered file, either rejects it or yields procedures and
corpora, then applies the filter and the test mode in place.  Names are
sequences, so that a name made from a clients list can collide with a given one.
`QueryRandomization` fills the pools once per process, with a source that
numbers its draws, and repeats from them with a Zipf distribution whose
weights are a constant (`Weights`; which values it can give is what matters).

### CorpusPreparation, WorkloadRepository, SourceArtifacts

What is on disk survives `Kill`.  A file is a version and how much of it has
been written; a download, a decompression and the writing of the offset table
are several steps each.  Concatenation, decompression and the table are written
under their final names (`WritesInPlace`): a kill, or an exception (`WriteFails`:
a full disk, a corrupt archive, a line that is no UTF-8), leaves whatever part is
there (`LeftBehind`), which the code does not remove.  `cut` remembers that this
has happened.  A tar archive gives the document the time it had when it was
packed (`TarKeepsTime`), so that an old offset table may be younger.
`Publish` lets the workload declare a new version.
`WorkloadRepository` has one coordinator and one other host; a fetch may fail,
the remote may move, the user may edit a copy.  `SourceArtifacts` has both ways
to a binary, with a cache that is on or off, pushes, edits and old entries.

### SolrPipelines, NodeCommands, CommandLine

`SolrPipelines` runs one pipeline after the other; every step may fail, the run
may be killed and another program may take the port (`IntruderComes`).
`NodeCommands` has the processes of a host as a set of process ids that are used
again, the node file with the state of the disk device inside it, and
what the last stop has stored.  `CommandLine` starts commands of one or two users,
with or without `--kill-running-processes`, next to a daemon; the list of
processes and the actor system are shared.  A process of the list is passed over
if it has ended or belongs to another user (`PassesOver`, AccessDenied), reported
(`Finds`) or killed (`KillsProcess`); the processes of its actor system may
outlast it, since they are waited for three seconds at most.  When the killing is
broken off, `run_test` goes on all the same (`KillFails`).  A bootstrap joins or
creates the actor system, falls back to one that is not on the port for the
rest of the process (`use_offline_actor_system`), or fails the iteration
(`BootstrapFails`).

### MetricsFlow, Throughput, Results

`MetricsFlow` has the coordinator, the orchestrator and one thread per device
(`PollStep`), each access to a store being a step.  Records are numbered as they
come; `origin` says from which thread.  `Filesystem` selects the store that also
writes `metrics.jsonl`, of which the length is kept.  `out_of_memory` is
the stores' refusal of further records, which the code warns about.

`Throughput` processes batches of sorted samples with the calculator's own
statistics; `Lag` is how much later than another one a worker sends.
`Results` calculates percentiles with exact fractions (`Scale`), filters them by
the number of samples, stores the run, prints and compares it.

## 3. Runs

All runs switch the deadlock check off: every modelled part comes to rest when
the benchmark, the preparation, the stream or the script has ended, or after a
failure.

| run | instance | shows |
|---|---|---|
| `lockstep` | 2 workers, 3 clients; an element with more tasks than clients and a completing task, then a completed-by element whose tasks share a worker; faults, progress messages, no assumption on time | barrier refinement, counting, one reason to drive, one wake-up, justified completion, each sample in one place |
| `completed_by_ends` | 2 workers, a completed-by element and a step, faults, `PromptStart` | the benchmark ends, nobody is stranded, samples are stored at join points |
| `feedback` | 2 steps, 3 clients, 3 errors | count, effective scale-down, pause before recovery, full load is reached again |
| `orchestration` | a local and a remote host, 2 elements, 2 faults of any kind | counted answers, complete cluster, success means that all records are stored, published and the nodes stopped, nothing published after the answer; the run ends and the nodes are stopped |
| `clients` | 2 clients in every scenario of `LoadGenerationMC`, 14 units of time; 2 callers with the scripts of `SolrOperationsMC`, 2 threads, 2 faults | timing of samples, bounded rate, exact iterations, ordered ramp-down, error policies; reported documents are indexed, late calls bounded, pagination complete, committed bulks found by later searches; everything ends |
| `ingestion` | 2 hosts, 3 executors, 2 processors, 2 failures, 1 crash; 3 consumers, 4 chunks, backlog 2, `PromptOpen` | assertions, order, task hand-out, honest completion; one reader per chunk, bounded backlog, end of stream; documents arrive unless a process dies or the producer is blocked |
| `host` | all 9 flags of a document set, 2 versions, 2 kills, errors or broken connections; 2 hosts, 2 pushes; 2 revisions; 3 faults of a pipeline; 2 process ids, 2 faults of a node; 2 commands of 2 users with up to 2 iterations | prepared is current, same revision everywhere, supplied is requested, measures its own Solr, known nodes, one benchmark of a user at a time unless a kill was given up, and recovery of corpora and pipelines |
| `measurement` | 2 devices, 3 records, 2 steps, memory that runs short, the file; 2 workers, buckets of 2, time up to 7; 4 tasks, 2 batches of 1, 4 or 11 records | no silent loss, nothing counted twice, the file is as long as the records, batches add up, every type reported, ordered percentiles, visible failures, results on the shelf, right colours of a comparison; results are calculated |
| `algorithms` | all schedules of up to 2 elements with up to 3 sub-tasks of up to 2 clients, up to 3 hosts; corpora of 1, 4 and 7 documents; workload files, filters and modes of `AlgorithmsMC`; pools of 3 values; branches of up to 3 components | each algorithm agrees with a reference stated independently of it |

What a run checks under one name is often a conjunction of named parts, defined
at the end of the component's module with a comment for each part:
`ScheduleIsKept` of `LoadGeneration`, for example, is made of
`LatencyCoversServiceTime`, `RateIsBounded`, `IterationsAreExact`,
`RampDownInOrder` and `WarmupNeverReturns`.  Where a part is about a step, the
conjunction is an action property and the other parts are about the state after
the step.  `PROJECT.json` has a mutant for every part.

Why the bounds are enough.

* Coordination: two workers are the smallest number for which a barrier can
  fail, and one of them simulates two clients so that clients of one worker
  interact; a step after a parallel element lets a late message reach the wrong
  step; `MaxRequests` = 1 gives every client a first and a last request.
* Redline: three clients and a step of two make rounding matter, the pause of
  four seconds is longer than the three wake-ups that lead from an error to the
  next client, and the ceiling of 5 above 3 clients leaves room for the probe.
* Orchestration: one host is there at once and one has to join; two elements
  give a `TaskFinished` before `BenchmarkComplete`; two faults let an interrupt
  or a death meet a failure.
* Clients: two of them show ramp-down and completion; a timeout of 2 units
  against slots of 1 or 2 makes a client fall behind and catch up.  As many threads
  as callers, so that abandoned calls can fill the pool.
* Ingestion: more chunks than the backlog holds, and a consumer more than can
  find work.
* Host: two faults are a kill or an error and something else before the next
  attempt; two users can own different commands or the same; two
  versions make a file old; two process ids make one of them be used again.
* Measurement: three records are one before, one during and one after a
  hand-over; 1, 4 and 11 records lie on different sides of the numbers from which
  more percentiles are shown; a throughput may come for several tasks at once, as
  it does when they run in parallel.
* Algorithms: 7 documents and 3 clients give shares with remainders on both
  sides and an offset between two entries of the table.

Three runs are expected to be violated; each states what a comment or a docstring
of the code says and the finding in `PROJECT.json` quotes it.

| run | what the code does |
|---|---|
| `completion_lost` | CompleteCurrentTask that finds the worker still before its Drive is ignored |
| `streaming_stalls` | readers are notified before the chunk is published, and only by the chunk they wait for; producer and readers can wait for each other |
| `counted_twice` | samples that wait for their bucket are kept once more by each batch that ends none, and are all counted later |

### Seen while modelling

Kept in the models as the code has it, and excluded by name in the properties
where they matter.

* Coordination.  A worker that skips a row schedules nothing and never reaches
  the join point; samples put between `send_samples` and the end of the executor
  vanish when another row follows; the progress of a completed task is a bare
  float that the progress message cannot handle; profile samples travel only
  with default samples; the first client of a completing task ends the element
  on its worker before its siblings are done; an element whose sub-tasks are all
  excluded shifts the names in the progress message.
* Redline.  Join points disable scaling and pause nobody, although a comment
  says so; the report prints the current number of clients; only the feedback
  actor takes `queue_lock`; the Solr runners record no timings, so that every
  request counts as an error; a missing parameter ends the executor after all.
* Orchestration.  A failure to store a task's metrics takes the way over the
  worker coordinator and can arrive after the results have been published; a
  remote host that leaves early is reported by calling an address; dying
  children are ignored (`SilentLoss`).
* Operations.  The weight of a bulk subtracts its errors twice; a composite of
  anything but sleeps raises, since no timings are recorded, and it reads
  `requests` where the documentation says `operations`; a cancelled operation
  leaves its thread running and skips the clean-up of its configset.  A bulk
  without a commit reports documents that a search may not find for another
  second (runner.py:1155, 1164).  A lost connection is fatal where requests
  reports it, for administration, metrics and searches with a body; pysolr wraps
  it in a SolrError, so that it is a mere transport error of bulks, commits and
  other searches, although exceptions.py:171 and worker_coordinator.py:2484 call
  an unreachable node fatal.
* Parameters and loading.  Ids start again with each document set; a source
  without bulks divides by zero in its progress; a filter that removes the
  completing task leaves an element without end; iterations with a time period
  are accepted; test mode keeps ramp times and does not rename file parts; a
  name from a clients list can collide with a given one; a target collection is
  not looked up; randomization looks at the default procedure only and never
  sets optional parameters (it asks the list, not the value); a source that
  fails leaves an empty pool.
* Files.  Only downloads get their name when they are complete: a concatenation,
  a decompression or an offset table that is killed or raises is left under its
  final name.  Without declared sizes such a file passes (`UndeclaredIsComplete`
  excepts it by `cut`); the cut offset table is newer than its document and
  passes too (`TableMatchesDocument` excepts it); a bundled corpus that was cut
  makes later runs fail.  A document from a tar archive keeps the time it was
  packed with, so that the offset table of an older version may count as valid
  (`TableMatchesDocument` says nothing of tar archives); an edited source tree is cached under
  its clean commit, by a copy that is not atomic; a failed rebase leaves the
  working copy half-way; a killed download leaves a tarball that is taken for
  whole.
* Nodes and commands.  `bin/solr stop -p` stops whoever is on the port; a
  process id that comes late leaves an unknown node; a second node's failed
  start leaves the first running; with several iterations a failed one is
  swallowed and the command reports success; a shutdown that takes too long
  leaves the actor system.  "Only one benchmark is allowed to run at the same
  time" is not so for the machine: another user's processes are passed over, a
  kill that fails is logged and the benchmark begins beside the process it could
  not end, and a process that was started as a module (`python -m`) is not
  recognised; `OneBenchmarkAtATime` is about commands of one user none of which
  has given its killing up.
* Measurements.  Two stores open `metrics.jsonl` for writing and write over each
  other's lines; a poller is waited for 15 seconds while its request may take
  30; without a process the index size is missing; settings of a clients list
  other than the best are not shown; `50,90` of one sample shows nothing; a
  comparison from zero is neutral; it marks every increase by more than 5 % with
  a red circle and every decrease with a green one, whatever is compared
  (publisher.py:790-792), so that a gain of throughput is green and has a red
  circle on a terminal, and has only the red circle in the file and without a
  terminal, while docs/reference/commands/compare.md:49 calls positive
  differences in throughput improvements: `ColoursAreRight` claims the colours
  for all rows, and the marks only for those where less is better; a stored run comes back without its latency
  percentiles; `aggregate` always fails.

### Fairness

* Coordination: weak fairness of the coordinator's handlers, a worker's
  wake-ups, its executor's end and the last request of each client (every
  request has a timeout); strong fairness of a worker's mailbox, which competes
  with its wake-ups.  Nothing forces a fault, nor an eternal task to end.
* Redline: weak fairness of wake-ups, which reschedule themselves first of all,
  and of the scale-down; strong fairness of the two messages.
* Orchestration: weak fairness of all steps that are not faults taken together;
  there are finitely many of them, so each of them happens.  It stands for
  delivered messages, a worker coordinator that gets on, and remote hosts that
  join unless they leave.
* Clients: weak fairness of time, of each executor's step (the event loop
  resumes what is due) and of the calls in the pool, which have a timeout of
  their own; nobody is forced to be paused or resumed.
* Ingestion: weak fairness of every preparation actor's step and of the end of
  each task; strong fairness of producer and consumers, since the lock they
  compete for is granted again and again.
* Host: weak fairness of a preparation and of a pipeline, which go on once begun
  and are started again after a failure, as the user would; other programs do
  not keep the port for ever.  Nothing forces a kill or a publication.
* Measurement: weak fairness of coordinator and orchestrator, and of the shard
  sampler, whose requests time out.  The other devices may hang.

## 4. Proofs

Every safety theorem is proved from an inductive invariant: it holds initially,
every action of the next-state relation keeps it, and it implies the property
that a run checks.  The proofs have one step per action.  The invariants were
checked with TLC before they were proved.

| module | theorems about a run's properties | inductive invariant |
|---|---|---|
| `WorkerCoordinationProofs` | `TypeCorrect`, `CountedOnce`, `DrivenOnce`, `ImplementsBarrier` | `IInv` |
| `WorkerEventsProofs` | `EventsHaveReasons`, `SamplesAreUnique`, `JoinPointsAreComplete` | `IInv` with `EventsInv`, with `SamplesInv`, with `EventsInv` and `DeliveryInv` |
| `FeedbackScalingProofs` | `CountNeverDrifts`, `RecoveryWaits`, `ScaleDownIsEffective` | `FInv` |
| `OrchestrationProofs` | `AnswersCounted`, `SuccessComplete`, `AnswerIsFinal` | `OrchestrationInv` |
| `IngestionProofs` | `StreamIsReadOnce`, `PreparationOrderly` | `StreamInv`, `PreparationInv` |
| `HostProofs` | `CommandsAreApart`, `SolrIsOwn`, `NodesAreNotLost`, `SupplyIsRight`, `RevisionsAreSame`, `CorpusIsUsable` | `CliInv`, `PipelineInv`, `NodeInv`, `SupplyInv`, `RepoInv`, `CorpusInv` |
| `MetricsFlowProofs` | `RecordsDoArrive` | `FlowInv` |
| `ClientsProofs` | `ScheduleKept`, `ErrorsConsequential`, `OperationsHonest` | `LoadInv`, `OperationsInv` with `FoundInv` |

### WorkerCoordinationProofs

Assumptions: a finite, non-empty set of workers, each with a client, and a
matrix that is rectangular with join points in full rows, at the beginning and
at the end (what `Allocator` is checked to produce).

`IInv` is the conjunction of

* `TypeOK`;
* `RunningInv`: an executor exists only on a row of tasks, at which the worker
  is;
* `CompletionsCounted`;
* `OneReasonToDrive`;
* `LockInv`: each worker is either before the barrier (its join points equal
  the released ones, and it has not reported) or at it (one more), its report
  is in the mailbox or in `workers_completed_current_step`, never in both, and
  a reason to drive exists only before it.

None of these is inductive alone.  The counter agrees with the set only because
a worker reports a join point once; it does so because it drives once; it
drives once because the coordinator sends Drive only when all workers have
reported.  `LockInv` closes that circle.

Theorems: `Invariance` (Spec => []IInv), `TypeCorrect`, `CountedOnce`,
`DrivenOnce`, and `ImplementsBarrier`: `WorkerCoordination` implements
`StepBarrier` for all workers, matrices and faults.  The lemmas about
mailboxes (`HasMessage` and `OneMessage` under append and tail) and about the
number of join points up to a row are stated once and cited.

### WorkerEventsProofs

Assumptions: those above, and `CompletersAssumption`: a client with a completing
task is named by the next join point, as `Allocator.allocations` does when it
closes an element.

`EventsAreJustified` is two things: a worker has at most one wake-up, and its
complete event is set only when the element it is in may be cut short.

* `WakeupOf`: a wake-up, pending or being handled, belongs to an executor or to
  an announced start, never to both.  That is what keeps the three ways into
  `Worker.drive` from adding wake-ups.
* `StartsFirst`, `WaitsAtJoinPoint`: StartWorker is the first message, who waits
  is at a join row, and a report names the row its worker is in.
* `CompletesItsStep`: a CompleteCurrentTask in a mailbox is about the current
  step, or a Drive follows it, or the benchmark is over.  Without this part a
  late message could set the event of the next step; it holds because the
  coordinator releases a step only after all reports, so that the Drive lies
  behind the message in the same mailbox, and a worker at a join point ignores
  the message.

`SampleInOnePlace` needs more than disjointness of the places.  A client could
record a sample that is stored already, so `SamplesAreNumbered` says that what a
client records next is new (rows only grow, and within a row the number of
requests does); two messages of one mailbox could share a sample, so
`SamplesOfWorker` keeps them separate; and two workers cannot, because every
sample in a worker's places is its own.

`JoinPointsComplete` is two things as well: no worker is left behind at its
tasks, and once the coordinator has moved past a join point all samples taken
before it are stored.  Neither holds for every matrix.  A worker whose tasks are
cut short while another row of tasks follows skips that row without a wake-up
(`DriveSkips`); drive() starts a further row of tasks with fresh samplers, and a
sample recorded after the handler has sent its samples is gone; and
`send_samples` leaves the profile queue alone while the default queue is empty.
The theorem therefore has two hypotheses about the matrix, both met in the run
`completed_by_ends`:

* `OneRowEach`: of two neighbouring rows one is a join point, which is so when
  no parallel element has more tasks than clients;
* `NothingProfiled`: no task has profiled requests.

`DeliveryInv` adds to `SamplesStoredAtJoinPoint`, for each worker:

* `LooksAgain`: at tasks a worker has its one wake-up, is handling it, or its
  failure is on the way or reported; its complete event is set at tasks only, so
  that a drive() from a join point never skips;
* `SamplesPrecede`: in a mailbox no samples come behind the report of a join
  point, and there are none once the report is counted;
* `SamplesArrive`: a sample of the worker is stored, raw, in a message or in its
  sampler, and the sampler is empty unless the worker is at tasks.

With all reports in, every worker is at the join point (`LastWorkerReaches`), so
its sampler is empty; nothing of it is in a message; so every sample is raw or
stored when the raw ones are stored.

Theorems: `EventsHaveReasons`, `SamplesAreUnique`, for all workers, clients,
matrices, requests and faults, with and without `PromptStart`;
`JoinPointsAreComplete` for those matrices.

### FeedbackScalingProofs

`FInv` says that the active clients are clients, that the count agrees
(`ActiveCounted`), and `AgesInv`: the time since the last error is never longer
than the time since the last scale-down of the step, is zero while a scale-down
is under way, and scaling up implies that the pause is over.  Without
`AgesInv` the pause does not follow, because the actor tests the age of the
last error, not of the last scale-down.

Theorems: `FeedbackInvariance`, `CountNeverDrifts`, `RecoveryWaits`,
`ScaleDownIsEffective`, for all numbers of clients, percentages and pauses.

### OrchestrationProofs

Assumptions: a finite, non-empty set of hosts, some of them local, none with the
name of an actor; at least one element in the schedule; any kinds and any number
of faults.  `OrchestrationInv` has four layers.

* *The run is in one place.*  `Stages` are the messages that hand the run on
  (Setup, StartEngine, ..., Success) and the phases in which somebody works on it.
  `OneStage`: at most one of them is the case.  `NothingTwice`: no such message
  is in a channel twice.  `StageFits`: what builder and worker coordinator know
  in each stage.  A failure or a death may take the run away; nothing can double
  it.
* *The hosts.*  Starting and stopping the cluster split the run over the hosts.
  `HostStarts`: a host is asked, waits, is told, answers and is counted, and is
  in one of these states only; `HostStops` says the same of stopping.  `Counts`:
  `received_responses` is the number of hosts that have been filled into
  `children`, from the front.  `HostKeeps`: a host that has answered keeps its
  nodes until it is told to stop.  The last one needs `ExitsInOrder` (an exit
  travels down the tree only after the actor above has exited), since a node
  builder that exits stops its nodes.
* *The answer.*  `AnswerInv`: what may still be published and what has been
  published exclude each other, and as soon as an answer is on its way to the
  main process, or has arrived, nothing is left to publish (`Settled`): the
  orchestrator has set `error` or `cancelled`, or the run is behind its results.
* *The metrics.*  `StoredInv` keeps an account: elements stored, on their way as
  TaskFinished or BenchmarkComplete, and still to run add up to at most `Tasks`,
  and to exactly `Tasks` while there was no fault; BenchmarkComplete comes after
  every TaskFinished.

`AnswersCounted` follows from the second layer with the first (the assertions of
the builder, and the complete cluster), `AnswerIsFinal` from the third with the
first, `SuccessComplete` from all of them: when Success has arrived the run is
at its end, so that the results are published, the account is closed and the
nodes are stopped.

### IngestionProofs: StreamingIngestion

Assumptions: finitely many consumers, `Ballast <= Plimsoll` (the code halves).
`StreamInv`: the lock is held exactly by the consumer between its check and the
end of its claim (`LockIsHeld`); `wr_count` is what has been published, also at
the end marker (`CountersAgree`); the producer passes its check with a backlog of
at most `Plimsoll` (`BacklogChecked`); the index that a consumer has read stays the
next one until it is claimed, and readers have different ones (`ClaimsAreApart`);
the files are the chunks not yet claimed, about to be published or being read
(`FilesAreNeeded`).  That each chunk has one reader follows from
`ClaimsAreApart`, which is inductive only with the lock; that a reader finds its file
follows from `FilesAreNeeded`.

Theorem: `StreamIsReadOnce`.

### IngestionProofs: WorkloadPreparation

Assumptions: finitely many hosts, each with an executor, at least one processor
(the registry has two that are required), any number of tasks of each on each
host, any number of failures and crashes.  `PreparationInv` has three layers.

* *One turn.*  `OneTurn`: in a round an executor and its preparator pass one
  turn to and fro; the executor is told something, or asks for something, or
  works, and never two of these.  `RoundsCounted`: the responses and the
  executors that have their turn are together never more than all of them.  The
  assertion on the responses and the order of the processors follow.
* *The tasks.*  `TasksInv`: a task of the current processor is in the list, in
  an order, in one executor's future, or executed, and in one of these only
  (`Placed`); an executor is told that there is nothing to do only when the list
  is empty.  All earlier processors have been executed.
* *Failure and completion.*  `HostsCounted`: a failure leaves a host that will
  never report (`Stuck`), or fewer answers than hosts.  This is what completion
  "never claimed after a failure" needs: a failed executor does not respond, so
  that its preparator's count cannot be reached.  `ExitsKnown`: exits are sent
  after completion only, so that no executor stops in the middle of a round.

Theorem: `PreparationOrderly`, an action property.

### HostProofs: CommandLine

No assumption but that commands are not named as the daemon.  The central part
of `CliInv` is `OneHasToLook`: of two commands past the beginning, one has
still to look at the other, or may have missed it (`MayMiss`: they have different
users, or it has given its killing up).  A command takes the list of processes and then
looks at one after the other, which is why "at most one runs" is not inductive:
of two that look at the same time, one must see the other.  `OwnerIsKnown`
says that, unless somebody interfered, the actor system on the port is named by
the command that has created it and has still to shut it down (`Owns`); an offline
one is nobody's on the port.

Theorem: `CommandsAreApart`, an action property.

### HostProofs: SolrPipelines

`PipelineInv`: the port is the run's own while it waits and measures
(`PortIsOwn`), each kind of pipeline stays on its path, Solr is started from an
installation, and a Solr on the port that was not abandoned has still to be
stopped by the run (`SolrHasRun`).  The last is what makes "nothing is left
running" inductive over failed steps and kills.

Theorem: `SolrIsOwn`, for any number of faults.

### HostProofs: NodeCommands

Assumption: 0 is no process id.  `NodeInv`: start works without a node file and
stop on the node in it (`CommandsHaveFile`); there is one node at most, known to
the start command, then to the node file, or to nobody after a start has lost it
(`NodeIsKnown`); a node file without its node means that the node died, and what
stop found when it looked is still so (`GoneIsNoted`), which is the part that
makes looking and killing in two steps safe; the disk counters are the
difference by the time they are stored (`DiskIsDetached`).

Theorem: `NodesAreNotLost`, an action property.

### HostProofs: SourceArtifacts

Assumption: there is a commit to ask for; any number of commits, kills and
failing commands, with or without a cache and a remote.  `SupplyInv`: an
artifact in the cache was built from the commit it is named by, and is whole
unless a copy was cut off (`ArtifactsAreNamed`); the supplier goes on with the
commit it has resolved, and the tree is on that commit unless the artifact was
found without it (`CommitIsFixed`); what is not in the cache is built before it
is added (`BuiltFromCommit`).  `SuppliedIsRequested` names one exception, a copy to
the cache that was cut off, and the invariant shows that there is no other.

Theorem: `SupplyIsRight`.

### HostProofs: WorkloadRepository

Assumption: the coordinator is one of the hosts; any number of hosts and pushes,
and nothing is known of `best_match` but that it is a function of the branches
and the version.  `RepoInv`: others begin when the coordinator is through
(`CoordinatorIsFirst`); by then a revision is recorded, and whoever has loaded
the workload since has checked it out (`RevisionIsRecorded`).  The recorded
revision is the remote's only because a copy that was never cloned has no
changes of the user (`UnclonedIsClean`).

Theorem: `RevisionsAreSame`.

### HostProofs: CorpusPreparation

Assumption: a document set has the nine flags of the model; any number of
versions, kills, errors and broken connections.  The idea of `CorpusInv` is that a size
tells a version: `FilesAreGenuine` says that a file is the beginning of one
published version, so that one of the declared size is whole and of the current
version.  `PhaseIsKnown`, `PartsAreCurrent` and `DirectoryIsRight` say which
files are there in each phase; `IncompleteIsWritten`, that only the file being
written is incomplete unless something was broken off while a file was written
in place (`cut`); `TablesBelong`, that an offset table that
is not older than its document is that document's.  The last is the hard one: a
table is judged by its age alone, so each step that writes a document must make
it older.  The extraction of a tar archive does not, which is why `TablesBelong`,
as the property, leaves tar archives out.

Theorem: `CorpusIsUsable`.

### MetricsFlowProofs

Assumptions: a list of devices without further conditions (it may be empty, or
name a device twice), any number of steps, records and warnings.  `FlowInv`:

* every record is in at most one place: with the thread that adds it, in the
  coordinator's store, on its way, or in the orchestrator's store (`InOnePlace`),
  and without a warning it is in one (`NoneDropped`);
* devices are stopped one after the other, all before the records are handed
  over, so that whatever comes later is of a device that was given up
  (`StoppedInTurn`), and the message with the last records is the last one
  (`LastComesLast`);
* `LinesAreCounted`: the coordinator's position in the file and the number of
  threads that still have a line to write add up to the records and one, and the
  orchestrator's position is at most the records that have left the coordinator
  and one.  This is a statement about cardinalities, which the theorems on
  finite sets carry through each step: a record moves from one set into
  another.

Theorem: `RecordsDoArrive`.

### ClientsProofs: LoadGeneration

Assumptions: finitely many clients; scenarios of well-formed tasks; positive
weights and timeout.  `LoadInv` is stated per client, since the executors of a
worker share only the events, the client states and the error queue:

* `RequestsInTime`: no request goes out before its time, which is why latency
  covers the service time;
* `RateInTime`: the throttled requests so far, times their interval, are not
  later than the slot of the next one;
* `InOrder`: the invocations of the schedule are the iterations begun, with the
  one under way, and the warm-up's come first;
* `Exact` and `IsGood`: what is to be shown about the end of a schedule and
  about a sample, which are facts about the past and have to be kept by every
  later step of any client;
* `PausedInRedline`, `RedlineSurvivesFailures`: who may be paused and what
  redline testing lets pass.

Theorems: `ScheduleKept`, an action property, and `ErrorsConsequential`.

### ClientsProofs: SolrOperations

Assumptions: finitely many callers with finite scripts of operations, a bulk has
documents, a thread and a poll at least; any number of faults.  `OperationsInv`:

* `UnderWay`: an operation is in a step of its own type, has counted no more
  than Solr has accepted from it (`BulkFits`) and has read what lies before
  its cursor (`PagesFit`);
* `Reported`: every operation that has ended has one report, which is honest;
* `CallFits`, `OneLiveCall`: a call that somebody waits for belongs to the step
  its owner is in, and each caller waits for one; a call nobody waits for has a
  thread.  Without these an answer could be taken for that of another call;
* `Behind`: no document is searchable that has not been accepted;
* `PoolFits`: the calls with a thread are never more than the threads, although
  abandoned calls keep theirs.

`FoundInv` is needed for `CommittedIsFound`, while nothing is deleted.  All that
Solr has accepted from a bulk is in its collection (`Kept`); what the committed
bulks of a caller report is searchable, and was when a later search of the same
caller began (`ShownBy`).  The step that matters is the answer to the commit,
which shows all that is kept (`BulksEndCommitted`, `CommitIsSound`).

Theorem: `OperationsHonest`.

### Only model-checked

Liveness (`BenchmarkEnds`, `FullLoadReached`, `RunTestEnds`,
`NodesStoppedInTheEnd`, `ClientsEnd`, `DocumentsArrive`, `LaterRunsSucceed`,
`FlowEnds`): the prover does not handle fairness.

The agreement of the algorithms with their references, which needs induction
over data: `AllocationIsExact`, `DocumentsAreShared`, `WorkloadIsKept`,
`QueriesRepeat` and `BranchFits` compare functions that walk along sequences;
`ThroughputIsComplete` is a sum over the samples of all batches;
`StatisticsAreRight` and `ResultsAreShown` are about sorted values and their
percentiles.

What the proofs brought to light in the models, which were changed accordingly:
the executor reads its client state before it waits for its slot, and not after;
a task whose runner completes it, or whose client is paused, need not do all its
iterations; a cursor may miss documents that are added during the search; an
operation that raises counts nothing as indexed; the list of telemetry devices
may be empty; a throughput may belong to several tasks.

## 5. Not modelled, and why

* Deaths of preparation actors are in the safety properties only: the code logs
  the first kind and does not notice the second, so no answer follows.
* Streaming: a reader closed before the end, a producer that dies, and the
  parsing of chunks.
* The feedback actor's `ResetErrorThreshold`, which nothing sends, and CPU-based
  feedback, whose set-up raises.
* Poison messages, except for the first message to a new actor: they stand for
  messages that cannot be unpickled.
* Orchestration: the reaction to a dead builder, worker coordinator or node
  builder and to a remote host that leaves; the code has none.
* `DockerLauncher`, `DockerProvisioner`, `ClusterBuilder` with its installers,
  launchers and downloaders: file copies and commands without a protocol, or
  not called by any pipeline.
* Templates, schema validation and plugins of workloads; tags of workload
  repositories (there are none); registration of randomized sources in other
  processes; vector parameter sources.
* Provisioning: a Solr that dies between its launch and its stop; an installation
  that `rmtree(ignore_errors=True)` (solr_provisioner.py:234) leaves in part; a
  `bin/solr start` that fails although Solr runs on (launcher.py:258); a node's
  process that belongs to another user (launcher.py:285-298 handles a process that
  is gone, and no other error).
* Metrics: a record added while `to_externalizable` swaps its list, which is one
  step in `MetricsFlow` (metrics.py:616-629), and the contents of `metrics.jsonl`,
  whose lines are counted only; the duration in the results, which is that of the
  last record whether warm-up or not (metrics.py:1441).
* The throughput of runners that measure it themselves, `SamplePostprocessor`'s
  fields, segment statistics, the HTML report, the aggregator (it raises on
  every input) and the remote metrics store.
* Configuration, conversion of workloads and the generators: one file, a
  syntactic translation, and random data.

## 6. Plan

1. **Proofs**: the refinement of the algorithms (`Allocator`,
   `ParameterSources`) needs an induction that the installed provers cannot
   do; with one, `AllocationMatrix` would discharge the assumptions on the matrix
   that the coordination proofs make.
2. **Streaming**: the early close of readers together with the cancellation of
   a task.
3. **Composition** of `LoadGeneration` with `FeedbackScaling`: the shared client
   states are free in one and the errors in the other.
