---------------------------- MODULE MetricsFlow ----------------------------
(***************************************************************************)
(* The way of a metric record from the load drivers and the telemetry      *)
(* devices to the results (metrics.py, telemetry.py and the parts of       *)
(* worker_coordinator.py that use them).  The worker coordinator's store   *)
(* is filled by its actor and by one polling thread per device, is emptied *)
(* into a message after every step and closed after the last one; the      *)
(* orchestrator adds the records to a store of its own.  With              *)
(* datastore.type = filesystem both stores write the same metrics.jsonl,   *)
(* each at its own position.  Records are numbers in the order of their    *)
(* creation; all records of one answer of Solr are one.                    *)
(***************************************************************************)
EXTENDS Integers, Sequences, SequencesExt

CONSTANTS
    Order,          \* the telemetry devices, in the order in which they are started and stopped
    MaxSteps,       \* steps of the test procedure
    MaxDocs,        \* bound: records that are created
    CheckEvery,     \* MEMORY_CHECK_FREQUENCY
    MaxWarnings,    \* bound: how often memory is found to be short
    Filesystem      \* datastore.type: whether the records are also written to a file

Devices == Range(Order)
Threads == Devices \cup {"main"}

ASSUME FlowAssumption ==
    /\ Order \in Seq({"jvm", "node", "collection", "query", "indexing", "cache", "shard"})
    /\ {MaxSteps, MaxDocs, CheckEvery} \subseteq Nat \ {0} /\ MaxWarnings \in Nat
    /\ Filesystem \in BOOLEAN

VARIABLES
    docs,           \* the coordinator's records in memory
    out_of_memory,  \* the coordinator's and the orchestrator's store: no further records are added
    warned,         \* warnings on the console so far
    position,       \* where in metrics.jsonl each of the two stores goes on writing
    opened,         \* whether the coordinator's store is there
    results,        \* the orchestrator's records in memory
    inbox,          \* messages to the orchestrator: TaskFinished, BenchmarkComplete
    complete,       \* whether the orchestrator has calculated the results
    thread,         \* the actor and the polling threads
    stop,           \* devices whose stop event is set
    abandoned,      \* devices whose thread did not end in time
    step,           \* finished steps
    resets,         \* pending wake-ups that reset the relative time
    failed,         \* whether such a wake-up found no store
    origin          \* who created each record

flowVars == <<docs, out_of_memory, warned, position, opened, results, inbox, complete,
              thread, stop, abandoned, step, resets, failed, origin>>

Stores == {"coordinator", "orchestrator"}
Ids == 1 .. MaxDocs

\* The stores, messages, threads and positions of the flow keep their types; memory and
\* warnings stay within their bounds.
FlowTypeOK ==
    /\ docs \in Seq(Ids) /\ results \in Seq(Ids)
    /\ out_of_memory \in [Stores -> BOOLEAN]
    /\ warned \in 0 .. MaxWarnings /\ position \in [Stores -> Nat]
    /\ opened \in BOOLEAN /\ complete \in BOOLEAN /\ failed \in BOOLEAN
    /\ thread \in [Threads -> [pc : {"off", "start", "run", "ask", "add", "line", "sleep", "stop", "hand", "close",
                                     "done", "ended"}, n : Nat, doc : 0 .. MaxDocs]]
    /\ stop \subseteq Devices /\ abandoned \subseteq Devices
    /\ step \in 0 .. MaxSteps /\ resets \in Nat /\ origin \in Seq(Threads)
    /\ inbox \in Seq([docs : Seq(Ids), last : BOOLEAN])

FlowInit ==
    /\ docs = <<>> /\ results = <<>> /\ inbox = <<>>
    /\ out_of_memory = [s \in Stores |-> FALSE]
    /\ warned = 0 /\ position = [s \in Stores |-> 1] /\ opened = TRUE /\ complete = FALSE
    /\ thread = [t \in Threads |-> [pc |-> IF t = "main" THEN "start" ELSE "off", n |-> 1, doc |-> 0]]
    /\ stop = {} /\ abandoned = {} /\ step = 0 /\ resets = 0 /\ failed = FALSE /\ origin = <<>>

At(t, pc) == thread[t].pc = pc
Go(t, pc) == thread' = [thread EXCEPT ![t].pc = pc]

-----------------------------------------------------------------------------
(***************************************************************************)
(* What a device asks Solr for in one poll: whether the answer is stored   *)
(* and whether the poll ends when there is none.                           *)
(***************************************************************************)
Stored(fatal) == [puts |-> TRUE, fatal |-> fatal]
Needed == [puts |-> FALSE, fatal |-> TRUE]

SolrJvmStats == <<Stored(TRUE)>>
SolrNodeStats == <<Stored(FALSE), Stored(FALSE)>>
SolrCollectionStats == <<Needed, Stored(FALSE), Stored(FALSE)>>
SolrQueryStats == <<Stored(TRUE)>>
SolrIndexingStats == <<Stored(TRUE)>>
SolrCacheStats == <<Stored(TRUE)>>
ShardStatsRecorder == <<Needed, Stored(FALSE)>>

\* _create_solr_telemetry_devices, without segment-stats, which only writes a log
_create_solr_telemetry_devices ==
    [jvm |-> SolrJvmStats, node |-> SolrNodeStats, collection |-> SolrCollectionStats, query |-> SolrQueryStats,
     indexing |-> SolrIndexingStats, cache |-> SolrCacheStats, shard |-> ShardStatsRecorder]

Poll(d) == _create_solr_telemetry_devices[d]

\* The next request of the poll, or the pause after it.
Further(d) ==
    thread' = [thread EXCEPT ![d] = IF @.n < Len(Poll(d)) THEN [pc |-> "ask", n |-> @.n + 1, doc |-> 0]
                                    ELSE [pc |-> "sleep", n |-> 1, doc |-> 0]]

\* _put_metric: a record gets its time, its context and the meta-information of its level.
_put_metric(t) ==
    /\ Len(origin) < MaxDocs /\ origin' = Append(origin, t)
    /\ thread' = [thread EXCEPT ![t].pc = "add", ![t].doc = Len(origin) + 1]

\* An answer of Solr, or none: a refusal, an error or a time-out.
_collect(d) ==
    LET request == Poll(d)[thread[d].n] IN
    /\ At(d, "ask")
    /\ \/ request.puts /\ _put_metric(d)
       \/ ~ request.puts /\ Further(d) /\ UNCHANGED origin
       \/ /\ IF request.fatal THEN thread' = [thread EXCEPT ![d].pc = "sleep", ![d].n = 1] ELSE Further(d)
          /\ UNCHANGED origin
    /\ UNCHANGED <<docs, out_of_memory, warned, position, opened, results, inbox, complete,
                   stop, abandoned, step, resets, failed>>

\* _poll_loop and SamplerThread.run: the stop flag is looked at before every poll.
_poll_loop(d) ==
    /\ At(d, "sleep") /\ Go(d, IF d \in stop THEN "ended" ELSE "ask")
    /\ UNCHANGED <<docs, out_of_memory, warned, position, opened, results, inbox, complete,
                   stop, abandoned, step, resets, failed, origin>>

-----------------------------------------------------------------------------
\* InMemoryMetricsStore._add: the next value of a store's records.  doc_count is their number;
\* once in a while memory is looked at, and when it is short the store takes no more records.
_add(s, records, d) ==
    \/ out_of_memory[s] /\ records' = records /\ UNCHANGED <<out_of_memory, warned>>
    \/ /\ ~ out_of_memory[s] /\ Len(records) % CheckEvery = 0 /\ warned < MaxWarnings
       /\ warned' = warned + 1 /\ out_of_memory' = [out_of_memory EXCEPT ![s] = TRUE]
       /\ records' = records
    \/ /\ ~ out_of_memory[s]
       /\ records' = Append(records, d)
       /\ UNCHANGED <<out_of_memory, warned>>

\* The lines of metrics.jsonl: as far as the store that is ahead has written
FileLength == Max(Range(position)) - 1

\* Mutant: the file is opened for appending.
AppendLine(s) == position' = IF Filesystem THEN [position EXCEPT ![s] = FileLength + 2] ELSE position

\* FilesystemMetricsStore._add: the line goes to the store's own position in the file.
WriteLine(s) == position' = IF Filesystem THEN [position EXCEPT ![s] = @ + 1] ELSE position

AddInMemory(t) ==
    /\ At(t, "add") /\ _add("coordinator", docs, thread[t].doc) /\ Go(t, "line")
    /\ UNCHANGED <<position, opened, results, inbox, complete, stop, abandoned, step, resets, failed, origin>>

AddToFile(t) ==
    /\ At(t, "line")
    /\ IF opened THEN WriteLine("coordinator") ELSE UNCHANGED position
    /\ IF t = "main" THEN thread' = [thread EXCEPT ![t].pc = "run", ![t].doc = 0] ELSE Further(t)
    /\ UNCHANGED <<docs, out_of_memory, warned, opened, results, inbox, complete, stop, abandoned,
                   step, resets, failed, origin>>

-----------------------------------------------------------------------------
\* on_benchmark_start: shard-stats does not run when there is no cluster status.
on_benchmark_start ==
    /\ At("main", "start")
    /\ \E running \in {Devices, Devices \ {"shard"}} :
         thread' = [t \in Threads |-> IF t = "main" THEN [thread[t] EXCEPT !.pc = "run"]
                                      ELSE [thread[t] EXCEPT !.pc = IF t \in running THEN "ask" ELSE "ended"]]
    /\ UNCHANGED <<docs, out_of_memory, warned, position, opened, results, inbox, complete,
                   stop, abandoned, step, resets, failed, origin>>

\* DefaultSamplePostprocessor and ProfileMetricsSamplePostprocessor: the records of a batch of samples
PostprocessSamples ==
    /\ At("main", "run") /\ step < MaxSteps /\ _put_metric("main")
    /\ UNCHANGED <<docs, out_of_memory, warned, position, opened, results, inbox, complete,
                   stop, abandoned, step, resets, failed>>

\* Mutant: the records stay in the store after the hand-over.
ExternalizeWithoutClear(last) ==
    /\ inbox' = Append(inbox, [docs |-> docs, last |-> last]) /\ UNCHANGED <<docs, out_of_memory, warned>>

\* to_externalizable(clear=True): the records of the step, or none when memory is short
to_externalizable(last) ==
    /\ docs' = <<>>
    /\ out_of_memory' = [out_of_memory EXCEPT !["coordinator"] = FALSE]
    /\ \/ inbox' = Append(inbox, [docs |-> docs, last |-> last]) /\ UNCHANGED warned
       \/ /\ warned < MaxWarnings /\ warned' = warned + 1
          /\ inbox' = Append(inbox, [docs |-> <<>>, last |-> last])

\* joinpoint_reached and move_to_next_task; outside the test mode the relative time is reset later.
MoveToNextTask ==
    /\ At("main", "run") /\ step < MaxSteps - 1
    /\ to_externalizable(FALSE) /\ step' = step + 1
    /\ \E test_mode \in BOOLEAN : resets' = IF test_mode THEN resets ELSE resets + 1
    /\ UNCHANGED <<position, opened, results, complete, thread, stop, abandoned, failed, origin>>

\* joinpoint_reached of the last step; with static responses there are no devices to stop
LastStepFinished ==
    /\ At("main", "run") /\ step = MaxSteps - 1 /\ step' = MaxSteps
    /\ Go("main", IF Order = <<>> THEN "hand" ELSE "stop")
    /\ UNCHANGED <<docs, out_of_memory, warned, position, opened, results, inbox, complete,
                   stop, abandoned, resets, failed, origin>>

Current == Order[thread["main"].n]
NextDevice ==
    IF thread["main"].n < Len(Order) THEN thread' = [thread EXCEPT !["main"].n = @ + 1] ELSE Go("main", "hand")

\* Mutant: the thread is joined without a time-out.
JoinForever ==
    /\ At("main", "stop") /\ stop' = stop \cup {Current}
    /\ At(Current, "ended") /\ NextDevice /\ UNCHANGED abandoned
    /\ UNCHANGED <<docs, out_of_memory, warned, position, opened, results, inbox, complete,
                   step, resets, failed, origin>>

\* Mutant: the thread is told to stop but not joined.
StopWithoutJoin ==
    /\ At("main", "stop") /\ stop' = stop \cup {Current} /\ NextDevice /\ UNCHANGED abandoned
    /\ UNCHANGED <<docs, out_of_memory, warned, position, opened, results, inbox, complete,
                   step, resets, failed, origin>>

\* on_benchmark_stop of one device after the other: the stop flag is set and the thread joined, for
\* a limited time only unless it is the sampler of the shard statistics.
on_benchmark_stop ==
    /\ At("main", "stop") /\ stop' = stop \cup {Current}
    /\ \/ At(Current, "ended") /\ NextDevice /\ UNCHANGED abandoned
       \/ Current \notin stop /\ UNCHANGED <<thread, abandoned>>
       \/ /\ Current \in stop /\ Current # "shard" /\ ~ At(Current, "ended")
          /\ abandoned' = abandoned \cup {Current} /\ NextDevice
    /\ UNCHANGED <<docs, out_of_memory, warned, position, opened, results, inbox, complete,
                   step, resets, failed, origin>>

\* Mutant: the store is closed before its records are handed over.
CloseFirst ==
    /\ At("main", "hand") /\ opened' = FALSE /\ Go("main", "done") /\ UNCHANGED inbox
    /\ UNCHANGED <<docs, out_of_memory, warned, position, results, complete, stop, abandoned,
                   step, resets, failed, origin>>

HandOver ==
    /\ At("main", "hand") /\ to_externalizable(TRUE) /\ Go("main", "close")
    /\ UNCHANGED <<position, opened, results, complete, stop, abandoned, step, resets, failed, origin>>

\* close, after which the coordinator has no store; then BenchmarkComplete is sent
CloseStore ==
    /\ At("main", "close") /\ opened' = FALSE /\ Go("main", "done")
    /\ UNCHANGED <<docs, out_of_memory, warned, position, results, inbox, complete, stop,
                   abandoned, step, resets, failed, origin>>

\* Mutant: every wake-up resets the relative time.
ResetUnasked ==
    /\ thread["main"].pc \in {"run", "done"} /\ resets' = resets - 1
    /\ failed' = (failed \/ ~ opened)
    /\ UNCHANGED <<docs, out_of_memory, warned, position, opened, results, inbox, complete,
                   thread, stop, abandoned, step, origin>>

\* receiveMsg_WakeupMessage with the reset marker, between two other messages
ResetRelativeTime ==
    /\ thread["main"].pc \in {"run", "done"} /\ resets > 0 /\ resets' = resets - 1
    /\ failed' = (failed \/ ~ opened)
    /\ UNCHANGED <<docs, out_of_memory, warned, position, opened, results, inbox, complete,
                   thread, stop, abandoned, step, origin>>

-----------------------------------------------------------------------------
\* The last message is sent after the store has been closed.
Arrived == inbox # <<>> /\ (Head(inbox).last => At("main", "done"))

\* bulk_add, one record after the other
bulk_add ==
    /\ Arrived /\ Head(inbox).docs # <<>>
    /\ LET d == Head(Head(inbox).docs) IN _add("orchestrator", results, d) /\ WriteLine("orchestrator")
    /\ inbox' = [inbox EXCEPT ![1].docs = Tail(@)]
    /\ UNCHANGED <<docs, opened, complete, thread, stop, abandoned, step, resets, failed, origin>>

\* The rest of on_task_finished and on_benchmark_complete: the results are calculated and stored.
MessageDone ==
    /\ Arrived /\ Head(inbox).docs = <<>> /\ inbox' = Tail(inbox) /\ complete' = Head(inbox).last
    /\ UNCHANGED <<docs, out_of_memory, warned, position, opened, results, thread, stop,
                   abandoned, step, resets, failed, origin>>

PollStep(d) == _collect(d) \/ AddInMemory(d) \/ AddToFile(d) \/ _poll_loop(d)
CoordinatorStep ==
    \/ on_benchmark_start \/ MoveToNextTask \/ LastStepFinished \/ on_benchmark_stop \/ HandOver \/ CloseStore
    \/ AddInMemory("main") \/ AddToFile("main")
OrchestratorStep == bulk_add \/ MessageDone

FlowNext ==
    \/ \E d \in Devices : PollStep(d)
    \/ CoordinatorStep \/ PostprocessSamples \/ ResetRelativeTime
    \/ OrchestratorStep

FlowSpec == FlowInit /\ [][FlowNext]_flowVars

-----------------------------------------------------------------------------
Created == 1 .. Len(origin)

(***************************************************************************)
(* No record is counted twice: what is handed over after one step is not   *)
(* handed over again after the next one, although threads go on adding     *)
(* records while the store is emptied.                                     *)
(***************************************************************************)
CountedAtMostOnce == IsInjective(results)

(***************************************************************************)
(* A record is missing in the calculated results only when a warning about *)
(* the memory has been printed or when it came from a thread that did not  *)
(* end in time.                                                            *)
(***************************************************************************)
NoSilentLoss ==
    complete /\ warned = 0 => \A d \in Created : d \in Range(results) \/ origin[d] \in abandoned

(***************************************************************************)
(* A wake-up that finds the store gone makes the coordinator fail, but by  *)
(* then the records of the last step are on their way to the orchestrator. *)
(***************************************************************************)
FailsOnlyAfterHandOver ==
    failed => complete \/ \E i \in DOMAIN inbox : inbox[i].last

(***************************************************************************)
(* The results are calculated even if Solr no longer answers the polling   *)
(* devices: the last step waits for their threads for a limited time only. *)
(* The sampler of the shard statistics is waited for without limit; its    *)
(* requests time out.                                                      *)
(***************************************************************************)
ResultsAreCalculated == <> complete

(***************************************************************************)
(* In the end metrics.jsonl is as long as all records written once, even   *)
(* if memory was short: the orchestrator's store opens the file anew and   *)
(* writes over the lines of the coordinator's instead of behind them.      *)
(***************************************************************************)
FileHasEachRecordOnce == Filesystem /\ complete /\ abandoned = {} => FileLength = Len(origin)

(***************************************************************************)
(* Each record arrives once: none is counted twice, none is lost without a *)
(* warning, not even when the store is gone for the last wake-up, and the  *)
(* file is as long as all of them.                                         *)
(***************************************************************************)
RecordsArrive ==
    /\ FlowTypeOK /\ CountedAtMostOnce /\ NoSilentLoss
    /\ FailsOnlyAfterHandOver /\ FileHasEachRecordOnce
=============================================================================
