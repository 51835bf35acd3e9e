------------------------------ MODULE Results ------------------------------
(***************************************************************************)
(* From the records of a test run to its results: GlobalStatsCalculator    *)
(* and the in-memory queries of metrics.py, the test run on the shelf      *)
(* (test_run.json), the summary (publisher.py), the result writer and the  *)
(* comparison of stored runs.  Numbers are multiples of                    *)
(* 1 / Scale; percentiles are counted in hundredths of a percent.  The     *)
(* rows on shards, segments, collectors and transforms are left out: no    *)
(* device of the program records what they would show.                     *)
(***************************************************************************)
EXTENDS Integers, SequencesExt, FiniteSetsExt

CONSTANTS
    Tasks,          \* the tasks of the test procedure
    Reported,       \* those with include-in-reporting
    Clients,        \* per task: the number of clients in its name (_N_clients), or 0
    Portions,       \* how many equal records are added at once
    MaxRecords,     \* bound: portions of records
    LatencyLists,   \* choices for --latency-percentiles
    ThroughputLists \* choices for --throughput-percentiles

ASSUME ResultsAssumption ==
    /\ Reported \subseteq Tasks /\ Clients \in [Tasks -> Nat]
    /\ Portions \subseteq Nat \ {0} /\ MaxRecords \in Nat \ {0}

VARIABLES
    asked,          \* the options of the command
    records,        \* the records in the orchestrator's store
    portions,       \* portions added so far
    final_results,  \* results of the run, or NoResults
    shelf,          \* test_run.json: "none", "initial" or "final"
    summary,        \* what has been printed, or how printing failed
    copied,         \* test_run.json in the directory of the result writer
    comparison      \* the rows of a comparison with an earlier run

resultsVars == <<asked, records, portions, final_results, shelf, summary, copied, comparison>>

Scale == 120000
None == -1          \* no value
NoResults == <<>>
Requests == [value : 1 .. 2, success : BOOLEAN, type : {"warmup", "normal"}]
Rates == [value : 0 .. 2, type : {"warmup", "normal"}]
Nothing == [t \in Tasks |-> [requests |-> <<>>, rates |-> <<>>]]

-----------------------------------------------------------------------------
\* _get, get: the values of the records of a task, all or of one sample type
_get(docs, sample_type) == SelectSeq(docs, LAMBDA d : sample_type = "any" \/ d.type = sample_type)

Sorted(docs) == SortSeq([i \in DOMAIN docs |-> docs[i].value], <)
Total(values) == FoldLeft(+, 0, values)

\* Mutant: the rank counts from the number of values.
RankBeyond(sorted_values, percentile) ==
    LET rank == percentile * Len(sorted_values)
        lr == rank \div 10000
        At(i) == sorted_values[IF i < Len(sorted_values) THEN i + 1 ELSE 1]
    IN  At(lr) * Scale + (At(lr + 1) - At(lr)) * (rank % 10000) * (Scale \div 10000)

\* percentile_value: between the two values next to the rank
percentile_value(sorted_values, percentile) ==
    LET rank == percentile * (Len(sorted_values) - 1)
        lr == rank \div 10000 + 1
    IN  IF rank % 10000 = 0 THEN sorted_values[lr] * Scale
        ELSE sorted_values[lr] * Scale
             + (sorted_values[lr + 1] - sorted_values[lr]) * (rank % 10000) * (Scale \div 10000)

get_mean(values) == (Total(values) * Scale) \div Len(values)

\* Mutant: requests of the warm-up count as well.
ErrorsOfWarmup(docs) ==
    LET failed == SelectSeq(docs, LAMBDA d : ~ d.success)
    IN  IF docs = <<>> THEN 0 ELSE (Len(failed) * Scale) \div Len(docs)

\* get_error_rate
get_error_rate(docs) ==
    LET normal == _get(docs, "normal")
        failed == SelectSeq(normal, LAMBDA d : ~ d.success)
    IN  IF normal = <<>> THEN 0 ELSE (Len(failed) * Scale) \div Len(normal)

PowerOfTen(n) == CHOOSE e \in {10, 100, 1000, 10000} : e <= n /\ n < 10 * e

\* Mutant: the exact number of samples instead of a power of ten.
FilterExactly(sample_size, percentiles) ==
    LET shown == CASE sample_size = 1 -> {10000}
                 []   sample_size \in 2 .. 3 -> percentiles \cap {5000, 10000}
                 []   sample_size \in 4 .. 9 -> percentiles \cap {2500, 5000, 7500, 10000}
                 []   OTHER -> {p \in percentiles : (sample_size * p) % 10000 = 0}
    IN  IF shown = {} THEN {10000} ELSE shown

\* filter_percentiles_by_sample_size; the delta only makes up for rounding
filter_percentiles_by_sample_size(sample_size, percentiles) ==
    LET shown == CASE sample_size = 1 -> {10000}
                 []   sample_size \in 2 .. 3 -> percentiles \cap {5000, 10000}
                 []   sample_size \in 4 .. 9 -> percentiles \cap {2500, 5000, 7500, 10000}
                 []   OTHER -> {p \in percentiles : \/ (PowerOfTen(sample_size) * p) % 10000 = 0
                                                    \/ p \in {2500, 7500}}
    IN  IF shown = {} THEN {10000} ELSE shown

\* percentiles_for_sample_size and get_percentiles
Percentiles(values, list) ==
    [p \in filter_percentiles_by_sample_size(Len(values), list) |-> percentile_value(values, p)]

\* single_latency, which is also used for service, processing and client processing time
single_latency(docs, list) ==
    LET values == Sorted(_get(docs, "normal"))
    IN  IF values = <<>> THEN [mean |-> None, at |-> <<>>]
        ELSE [mean |-> get_mean(values), at |-> Percentiles(values, list)]

\* summary_stats: a mean or a median of 0 counts as none, and percentiles of nothing fail.
SummaryFails(docs, list) == list # {} /\ _get(docs, "normal") = <<>>
summary_stats(docs, list) ==
    LET values == Sorted(_get(docs, "normal"))
        median == percentile_value(values, 5000)
        at == IF list = {} THEN <<>> ELSE Percentiles(values, list)
    IN  IF values # <<>> /\ get_mean(values) # 0 /\ median # 0
        THEN [min |-> values[1] * Scale, mean |-> get_mean(values), median |-> median,
              max |-> values[Len(values)] * Scale, at |-> at]
        ELSE [min |-> None, mean |-> None, median |-> None, max |-> None, at |-> at]

\* GlobalStatsCalculator.__call__: a task that is not reported counts when requests failed.
op_metrics(stored, task) ==
    [throughput |-> summary_stats(stored[task].rates, asked.throughput),
     latency |-> single_latency(stored[task].requests, asked.latency),
     error_rate |-> get_error_rate(stored[task].requests)]

Counted(stored) == {t \in Tasks : t \in Reported \/ get_error_rate(stored[t].requests) > 0}
CalculationFails(stored) == \E t \in Counted(stored) : SummaryFails(stored[t].rates, asked.throughput)
GlobalStatsCalculator(stored) == [t \in Counted(stored) |-> op_metrics(stored, t)]

-----------------------------------------------------------------------------
\* SummaryResultsPublisher: the rows of one task
Rows(task, op) ==
    {[task |-> task, metric |-> <<name, 0>>, value |-> op.throughput[name]] :
        name \in {n \in {"min", "mean", "median", "max"} : op.throughput[n] # None}}
    \cup {[task |-> task, metric |-> <<"latency", p>>, value |-> op.latency.at[p]] : p \in DOMAIN op.latency.at \cap asked.latency}
    \cup {[task |-> task, metric |-> <<"error rate", 0>>, value |-> op.error_rate]}

\* Mutant: a warning only when there is no throughput.
WarnsWithoutThroughput(op) == op.throughput.median = None

\* add_warnings
add_warnings(op) == op.error_rate > 0 \/ op.throughput.median = None

\* Mutant: the last client setting that was measured.
LastSetting(stats) ==
    IF \E t \in DOMAIN stats : Clients[t] > 0
    THEN {CHOOSE t \in DOMAIN stats : Clients[t] > 0 /\ \A u \in DOMAIN stats : Clients[u] <= Clients[t]} ELSE {}

\* The client setting with the best throughput, the first of several
BestSetting(stats) ==
    LET tested == {t \in DOMAIN stats : Clients[t] > 0}
        Better(t, u) == \/ stats[t].throughput.mean > stats[u].throughput.mean
                        \/ stats[t].throughput.mean = stats[u].throughput.mean /\ Clients[t] < Clients[u]
    IN  {t \in tested : \A u \in tested \ {t} : Better(t, u)}

\* A setting without throughput cannot be compared, and --show-in-results=all cannot format it.
PublishFails(stats) ==
    \E t \in DOMAIN stats : stats[t].throughput.mean = None /\ (Clients[t] > 0 \/ asked.values = "all")

publish(stats) ==
    LET shown == {t \in DOMAIN stats : Clients[t] = 0} \cup BestSetting(stats)
    IN  [state |-> "printed", rows |-> UNION {Rows(t, stats[t]) : t \in shown},
         warnings |-> {t \in shown : add_warnings(stats[t])},
         clients |-> {Clients[t] : t \in BestSetting(stats)}]

Unprinted(state) == [state |-> state, rows |-> {}, warnings |-> {}, clients |-> {}]

-----------------------------------------------------------------------------
ResultsInit ==
    /\ asked \in [latency : LatencyLists, throughput : ThroughputLists, values : {"available", "all"}]
    /\ records = Nothing /\ portions = 0 /\ final_results = NoResults /\ shelf = "none"
    /\ summary = Unprinted("none") /\ copied = "none" /\ comparison = {}

\* on_preparation_complete: the run is stored without results.
StoreInitially ==
    /\ shelf = "none" /\ shelf' = "initial"
    /\ UNCHANGED <<asked, records, portions, final_results, summary, copied, comparison>>

\* bulk_add, for a portion of equal records: of one task, or a throughput of tasks that run in parallel
AddRecords ==
    /\ shelf = "initial" /\ portions < MaxRecords /\ final_results = NoResults /\ summary.state = "none"
    /\ portions' = portions + 1
    /\ \/ \E t \in Tasks, n \in Portions, r \in Requests :
            records' = [records EXCEPT ![t].requests = @ \o [i \in 1 .. n |-> r]]
       \/ \E together \in SUBSET Tasks \ {{}}, r \in Rates :
            records' = [t \in Tasks |-> IF t \in together THEN [records[t] EXCEPT !.rates = Append(@, r)]
                                       ELSE records[t]]
    /\ UNCHANGED <<asked, final_results, shelf, summary, copied, comparison>>

\* summarize and write_results; the writer copies the run that is on the shelf
Summarize(stats) ==
    IF PublishFails(stats) THEN summary' = Unprinted("failed") /\ UNCHANGED copied
    ELSE summary' = publish(stats) /\ copied' = shelf'

\* Mutant: the summary is printed before the run is stored.
SummarizeFirst ==
    /\ shelf = "initial" /\ summary.state = "none"
    /\ IF CalculationFails(records) THEN summary' = Unprinted("failed") /\ UNCHANGED <<shelf, copied, final_results>>
       ELSE LET stats == GlobalStatsCalculator(records) IN
            /\ final_results' = stats
            /\ IF PublishFails(stats) THEN summary' = Unprinted("failed") /\ UNCHANGED <<copied, shelf>>
               ELSE summary' = publish(stats) /\ copied' = shelf /\ shelf' = "final"
    /\ UNCHANGED <<asked, records, portions, comparison>>

\* on_benchmark_complete: the results are calculated, stored and printed.
on_benchmark_complete ==
    /\ shelf = "initial" /\ summary.state = "none"
    /\ IF CalculationFails(records) THEN summary' = Unprinted("failed") /\ UNCHANGED <<shelf, copied, final_results>>
       ELSE LET stats == GlobalStatsCalculator(records)
            IN  final_results' = stats /\ shelf' = "final" /\ Summarize(stats)
    /\ UNCHANGED <<asked, records, portions, comparison>>

-----------------------------------------------------------------------------
\* What a change looks like in a table: its colour and the mark behind it.  Only the table for the
\* console is coloured, and only on a terminal; the one for the file is plain, and has the marks as well.
Shown(colour, mark, plain) == [colour |-> IF plain THEN "none" ELSE colour, mark |-> mark]

\* Mutant: more is better, whatever is measured.
MoreIsBetter(baseline, contender, increase_is_improvement, factor, plain) ==
    LET change == factor * 20 * (contender - baseline)
    IN  CASE baseline # 0 /\ change > baseline -> Shown("green", "green_circle", plain)
        []   baseline # 0 /\ change < - baseline -> Shown("red", "red_circle", plain)
        []   OTHER -> Shown("neutral", "none", plain)

\* Mutant: the marks are swapped as if a decrease were bad.
MarksSwapped(baseline, contender, increase_is_improvement, factor, plain) ==
    LET change == factor * 20 * (contender - baseline)
    IN  CASE baseline # 0 /\ change > baseline ->
                 Shown(IF increase_is_improvement THEN "green" ELSE "red", "green_circle", plain)
        []   baseline # 0 /\ change < - baseline ->
                 Shown(IF increase_is_improvement THEN "red" ELSE "green", "red_circle", plain)
        []   OTHER -> Shown("neutral", "none", plain)

\* _diff: a change by more than 5 %.  The formatter of the value, here a factor, is applied to the
\* percentage, too, and a change from 0 counts as none.  The colour tells whether it is an improvement;
\* the mark does not ask: every increase gets a red circle and every decrease a green one.
_diff(baseline, contender, increase_is_improvement, factor, plain) ==
    LET change == factor * 20 * (contender - baseline)
    IN  CASE baseline # 0 /\ change > baseline ->
                 Shown(IF increase_is_improvement THEN "green" ELSE "red", "red_circle", plain)
        []   baseline # 0 /\ change < - baseline ->
                 Shown(IF increase_is_improvement THEN "red" ELSE "green", "green_circle", plain)
        []   OTHER -> Shown("neutral", "none", plain)

CompareRow(task, metric, b, c, increase, factor) ==
    IF b = None \/ c = None THEN {}
    ELSE {[task |-> task, metric |-> metric, baseline |-> b, contender |-> c, more_is_better |-> increase,
           plain |-> plain, diff |-> _diff(b, c, increase, factor, plain)] : plain \in BOOLEAN}

\* ComparisonPublisher._metrics_table, for the tasks that both runs have, once rich and once plain
_metrics_table(baseline, contender) ==
    UNION {LET b == baseline[t]
               c == contender[t]
           IN  UNION {CompareRow(t, <<n, 0>>, b.throughput[n], c.throughput[n], TRUE, 1) : n \in {"min", "mean", "median", "max"}}
               \cup UNION {CompareRow(t, <<"latency", p>>, b.latency.at[p], c.latency.at[p], FALSE, 1) :
                              p \in DOMAIN b.latency.at \cap DOMAIN c.latency.at \cap asked.latency}
               \cup CompareRow(t, <<"error rate", 0>>, b.error_rate, c.error_rate, FALSE, 100) :
           t \in DOMAIN baseline \cap DOMAIN contender}

\* Earlier runs on the shelf had one portion of requests and one throughput for every task.
EarlierRuns ==
    {[t \in Tasks |-> [requests |-> <<r>>, rates |-> <<[value |-> v, type |-> "normal"]>>]] :
        r \in {q \in Requests : q.type = "normal"}, v \in 1 .. 2}

\* compare: two runs that are found on the shelf with their results
compare ==
    /\ shelf = "final" /\ summary.state # "none" /\ comparison = {}
    /\ \E earlier \in EarlierRuns : comparison' = _metrics_table(GlobalStatsCalculator(earlier), final_results)
    /\ UNCHANGED <<asked, records, portions, final_results, shelf, summary, copied>>

ResultsNext == StoreInitially \/ AddRecords \/ on_benchmark_complete \/ compare

-----------------------------------------------------------------------------
(***************************************************************************)
(* The percentiles of a task rise from its least to its greatest latency   *)
(* among the requests after the warm-up, whatever has been asked for.      *)
(***************************************************************************)
PercentilesAreOrdered ==
    \A t \in DOMAIN final_results :
        LET at == final_results[t].latency.at
            values == {d.value : d \in Range(_get(records[t].requests, "normal"))}
        IN  \A p, q \in DOMAIN at : /\ p <= q => at[p] <= at[q]
                                    /\ \E v, w \in values : v * Scale <= at[p] /\ at[p] <= w * Scale

(***************************************************************************)
(* More samples never take a percentile away (but for the fallback, 100).  *)
(***************************************************************************)
MoreSamplesShowMore ==
    \A t \in Tasks, list \in LatencyLists :
        LET m == Len(records[t].requests)
        IN  \A n \in 1 .. m : filter_percentiles_by_sample_size(n, list)
                                \subseteq filter_percentiles_by_sample_size(m, list) \cup {10000}

(***************************************************************************)
(* Requests of the warm-up do not show in the results.                     *)
(***************************************************************************)
WarmupDoesNotCount ==
    final_results # NoResults =>
        final_results = GlobalStatsCalculator([t \in Tasks |-> [requests |-> _get(records[t].requests, "normal"),
                                                          rates |-> _get(records[t].rates, "normal")]])

(***************************************************************************)
(* A task with failed requests is shown with its error rate and a warning, *)
(* even if it is not reported otherwise (the settings of a clients list    *)
(* other than the best one are not shown at all).                          *)
(***************************************************************************)
FailuresAreVisible ==
    summary.state = "printed" =>
        \A t \in Tasks :
            (Clients[t] = 0 /\ \E d \in Range(records[t].requests) : d.type = "normal" /\ ~ d.success)
                => t \in summary.warnings /\ \E row \in summary.rows : row.task = t /\ row.metric = <<"error rate", 0>> /\ row.value > 0

(***************************************************************************)
(* The number of clients that is printed as the best one belongs to a      *)
(* setting no other setting has a higher mean throughput than.             *)
(***************************************************************************)
BestSettingIsShown ==
    \A n \in summary.clients : \E t \in DOMAIN final_results :
        /\ Clients[t] = n
        /\ \A u \in DOMAIN final_results : Clients[u] > 0 => final_results[u].throughput.mean <= final_results[t].throughput.mean

(***************************************************************************)
(* What the result writer copies is the run with its results, and when     *)
(* printing fails the results are on the shelf nevertheless.               *)
(***************************************************************************)
ResultsAreOnTheShelf ==
    /\ copied # "none" => copied = "final"
    /\ final_results # NoResults => shelf = "final"

IsBetter(row) == IF row.more_is_better THEN row.contender > row.baseline ELSE row.contender < row.baseline
IsWorse(row) == IF row.more_is_better THEN row.contender < row.baseline ELSE row.contender > row.baseline

(***************************************************************************)
(* Whatever the metric, a change is shown in green only if the contender   *)
(* is better and in red only if it is worse.  The circles behind the       *)
(* change, all that the plain table has, keep to that for latencies and    *)
(* error rates only: where more is better they are the wrong way round.    *)
(***************************************************************************)
ColoursAreRight ==
    \A row \in comparison :
        /\ row.diff.colour = "green" => IsBetter(row)
        /\ row.diff.colour = "red" => IsWorse(row)
        /\ ~ row.more_is_better /\ row.diff.mark = "green_circle" => IsBetter(row)
        /\ ~ row.more_is_better /\ row.diff.mark = "red_circle" => IsWorse(row)

(***************************************************************************)
(* The results are those of the measured requests: percentiles are in      *)
(* order and only grow in number, and warm-up requests do not count.       *)
(***************************************************************************)
StatisticsAreRight == PercentilesAreOrdered /\ MoreSamplesShowMore /\ WarmupDoesNotCount

(***************************************************************************)
(* The user sees them as they are: failures and the best setting are in    *)
(* the summary, the stored run has its results, and the colours of a       *)
(* comparison never call worse what is better (its marks do so for         *)
(* throughput, see ColoursAreRight).                                       *)
(***************************************************************************)
ResultsAreShown == FailuresAreVisible /\ BestSettingIsShown /\ ResultsAreOnTheShelf /\ ColoursAreRight
=============================================================================
