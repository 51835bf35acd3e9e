---------------------------- MODULE Throughput -----------------------------
(***************************************************************************)
(* ThroughputCalculator (worker_coordinator.py) for one task whose samples *)
(* come from several workers.  Batches of samples are processed every half *)
(* minute and at the end of a step; workers send theirs every few seconds, *)
(* so that some of the samples that belong to a batch come with the next   *)
(* one.  Every sample is one operation.  Time is counted in fractions of   *)
(* the bucket interval.                                                    *)
(***************************************************************************)
EXTENDS Integers, SequencesExt, FiniteSetsExt

CONSTANTS
    Sources,        \* the workers
    Bucket,         \* the bucket interval
    Horizon,        \* bound: the time of the last sample
    Batch,          \* the least time between two batches
    Lag,            \* how far a worker's samples may be behind
    MaxBatch        \* bound: samples in one batch

ASSUME ThroughputAssumption == {Bucket, Horizon, Batch, Lag, MaxBatch} \subseteq Nat \ {0}

VARIABLES
    stats,          \* TaskStats of the task, or NoStats
    handed,         \* the samples handed over so far
    clock,          \* when the last batch was processed
    warm,           \* until when each worker warms up
    final,          \* whether the step is over
    reports,        \* the throughput records
    steady          \* whether every batch so far has ended a bucket

throughputVars == <<stats, handed, clock, warm, final, reports, steady>>

NoStats == [unprocessed |-> <<>>, total |-> 0, interval |-> 0, bucket |-> 0, type |-> 0, has |-> FALSE, start |-> -1]

ThroughputInit ==
    /\ stats = NoStats /\ handed = {} /\ clock = 0 /\ final = FALSE /\ reports = <<>> /\ steady = TRUE
    /\ warm \in [Sources -> {0, Bucket}]

\* SampleType: Warmup = 0, Normal = 1
TypeOf(s) == IF s.time > warm[s.source] THEN 1 ELSE 0

Listed(batch) == FoldSet(LAMBDA s, list : Append(list, s), <<>>, batch)

\* sorted by absolute_time; sorted() is stable and the new samples come first
ByTime(samples) == SortSeq(samples, LAMBDA x, y : x.time < y.time)

-----------------------------------------------------------------------------
\* TaskStats(...) for the first sample of a task; its time period is one unit.
NewStats(first) ==
    [NoStats EXCEPT !.bucket = Bucket, !.type = TypeOf(first), !.start = first.time - 1]

maybe_update_sample_type(c, type) ==
    IF c.type < type THEN [c EXCEPT !.type = type, !.has = FALSE] ELSE c

update_interval(c, time) ==
    [c EXCEPT !.interval = IF time - c.start > @ THEN time - c.start ELSE @]

\* Mutant: the samples of the finished bucket stay unprocessed.
FinishKeepsUnprocessed(c, count) ==
    [c EXCEPT !.total = count, !.has = TRUE, !.bucket = (c.interval \div Bucket) * Bucket + Bucket]

finish_bucket(c, count) ==
    [c EXCEPT !.unprocessed = <<>>, !.total = count, !.has = TRUE,
              !.bucket = (c.interval \div Bucket) * Bucket + Bucket]

Report(c) == [type |-> c.type, count |-> c.total, interval |-> c.interval]

\* One round of the loop in calculate_task_throughput
Round(acc, s) ==
    LET c == update_interval(maybe_update_sample_type(acc.c, TypeOf(s)), s.time)
        count == acc.count + 1
    IN  IF c.interval > 0 /\ c.interval >= c.bucket
        THEN LET done == finish_bucket(c, count)
             IN  [c |-> done, count |-> count, out |-> Append(acc.out, Report(done))]
        ELSE [c |-> [c EXCEPT !.unprocessed = Append(@, s)], count |-> count, out |-> acc.out]

\* Mutant: no record when a type of samples ends within its first bucket.
NoFinalSample(current, samples) ==
    FoldLeft(Round, [c |-> current, count |-> current.total, out |-> <<>>], samples)

\* calculate_task_throughput, with the last sample when there is no record of its type yet
calculate_task_throughput(current, samples) ==
    LET looped == FoldLeft(Round, [c |-> current, count |-> current.total, out |-> <<>>], samples)
    IN  IF looped.c.interval > 0 /\ ~ looped.c.has
        THEN LET done == finish_bucket(looped.c, looped.count)
             IN  [looped EXCEPT !.c = done, !.out = Append(@, Report(done))]
        ELSE looped

\* calculate: the samples of a batch together with those not processed yet
calculate(batch) ==
    LET samples == ByTime(Listed(batch) \o stats.unprocessed)
        done == calculate_task_throughput(IF stats = NoStats THEN NewStats(samples[1]) ELSE stats, samples)
    IN  stats' = done.c /\ reports' = reports \o done.out /\ steady' = (steady /\ done.out # <<>>)

Unsent(upTo) == {s \in [source : Sources, time : 1 .. upTo] : s.time > clock - Lag /\ s \notin handed}

\* post_process_samples, by the timer or at the join point
ProcessBatch ==
    /\ ~ final
    /\ \E now \in clock .. Horizon : \E batch \in UNION {kSubset(n, Unsent(now)) : n \in 0 .. MaxBatch} :
         /\ final' \in BOOLEAN
         /\ final' \/ now >= clock + Batch
         /\ clock' = now /\ handed' = handed \cup batch
         /\ IF batch = {} THEN UNCHANGED <<stats, reports, steady>> ELSE calculate(batch)
    /\ UNCHANGED warm

ThroughputNext == ProcessBatch

-----------------------------------------------------------------------------
(***************************************************************************)
(* No sample is lost, and as long as every batch ends a bucket none is     *)
(* counted twice: the total is that of the samples handed over without     *)
(* those that wait for their bucket to end.                                *)
(***************************************************************************)
BatchesAddUp ==
    /\ stats.total + Len(stats.unprocessed) >= Cardinality(handed)
    /\ steady => stats.total + Len(stats.unprocessed) = Cardinality(handed)

(***************************************************************************)
(* Samples that wait for their bucket to end are never counted twice.      *)
(***************************************************************************)
NeverCountedTwice == stats.total <= Cardinality(handed)

(***************************************************************************)
(* As soon as there are samples of a type the task has a throughput record *)
(* of it, however short it was (otherwise the summary has none), and the   *)
(* records never go back to an earlier type.                               *)
(***************************************************************************)
EveryTypeIsReported ==
    /\ handed # {} => \E i \in DOMAIN reports : reports[i].type = stats.type
    /\ \A i, j \in DOMAIN reports : i < j => reports[i].type <= reports[j].type

(***************************************************************************)
(* The calculated throughput accounts for every sample and every type of   *)
(* samples, however they were split into batches.                          *)
(***************************************************************************)
ThroughputIsComplete == BatchesAddUp /\ EveryTypeIsReported
=============================================================================
