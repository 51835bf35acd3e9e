--------------------------- MODULE SolrOperations ---------------------------
(***************************************************************************)
(* The runners of a workload's operations and the client they talk to Solr *)
(* with (osbenchmark/worker_coordinator/runner.py, osbenchmark/client.py). *)
(*                                                                         *)
(* A runner is a coroutine that issues blocking HTTP calls one after the   *)
(* other through a pool of threads.  When asyncio.wait_for gives up on the *)
(* coroutine, a call that still waits for a thread is cancelled, but one   *)
(* that has a thread goes on and changes Solr although nobody listens.     *)
(***************************************************************************)
EXTENDS Integers, Sequences, FiniteSets

CONSTANTS
    Callers,        \* the clients of one load generating process
    Scripts,        \* what they may execute: functions from Callers to sequences of operations
    Names,          \* collections; a configset has the name of its collection
    PoolSize,       \* threads of the default executor
    MaxPolls,       \* max-wait-seconds divided by retry-wait-period
    MaxFaults       \* bound: calls that go wrong, and requests that time out

\* Types of operations that issue one call.  A search with a body is sent as a raw request to /query.
Single == {"search", "body-search", "commit", "optimize", "raw-request"}

\* What the parameter sources hand out; a bulk has documents.
Operation ==
    [type : Single \union {"wait-for-merges"}, name : Names]
    \union [type : {"composite"}, name : Names, child : Single]
    \union [type : {"bulk-index"}, name : Names, batches : Seq(Nat \ {0}) \ {<<>>}, commit : BOOLEAN]
    \union [type : {"paginated-search"}, name : Names, rows : Nat \ {0}]
    \union [type : {"create-collection"}, name : Names, upload : BOOLEAN, cleanup : BOOLEAN]
    \union [type : {"delete-collection"}, name : Names, ignore_missing : BOOLEAN, cleanup : BOOLEAN]

ASSUME SolrAssumption ==
    /\ IsFiniteSet(Callers) /\ Callers # {} /\ IsFiniteSet(Names)
    /\ Scripts \subseteq [Callers -> Seq(Operation)]
    /\ PoolSize \in Nat \ {0} /\ MaxPolls \in Nat \ {0} /\ MaxFaults \in Nat

VARIABLES
    script,         \* the member of Scripts that runs
    solr,           \* the server: collections, configsets, documents accepted and searchable, running merges
    added,          \* documents Solr has accepted from each operation of a client
    op,             \* a client's operation: its position, step and counters
    calls,          \* HTTP calls that wait for a thread or have one
    results,        \* what the operations of a client have returned
    faults          \* calls gone wrong so far

operationVars == <<script, solr, added, op, calls, results, faults>>

Current(c) == script[c][op[c].at]
Idle == [at |-> 0, step |-> "idle", batch |-> 0, total |-> 0, errors |-> 0, polls |-> 0, seen |-> 0,
         from |-> 0, why |-> "none"]

-----------------------------------------------------------------------------
(***************************************************************************)
(* The client: what a call may do to Solr and how it answers.  Solr has    *)
(* refused a call that is wrong or answered another one with an "error";   *)
(* when the connection is "lost" or the answer "late", it may or may not   *)
(* have executed the call.                                                 *)
(***************************************************************************)
Answer(s, a) == [solr |-> s, answer |-> a]

Unreliable(s, applied) ==
    {Answer(s, "error"), Answer(s, "lost"), Answer(s, "late"), Answer(applied, "lost"), Answer(applied, "late")}

upload_configset(s, n) ==
    LET new == [s EXCEPT !.configsets = @ \union {n}]
    IN  {Answer(new, "ok")} \union Unreliable(s, new)

\* Solr refuses to delete the configset of a collection.
delete_configset(s, n) ==
    LET new == [s EXCEPT !.configsets = @ \ {n}]
    IN  IF n \in s.collections THEN {Answer(s, "refused")}
        ELSE {Answer(new, "ok")} \union Unreliable(s, new)

\* An answer 400 that says so is CollectionAlreadyExistsError.
create_collection(s, n) ==
    LET new == [s EXCEPT !.collections = @ \union {n}]
    IN  IF n \in s.collections THEN {Answer(s, "exists")}
        ELSE IF n \notin s.configsets THEN {Answer(s, "refused")}
        ELSE {Answer(new, "ok")} \union Unreliable(s, new)

\* An answer 404, or 400 that says so, is CollectionNotFoundError.
delete_collection(s, n) ==
    LET new == [s EXCEPT !.collections = @ \ {n}, !.docs[n] = 0, !.searchable[n] = 0]
    IN  IF n \notin s.collections THEN {Answer(s, "missing")}
        ELSE {Answer(new, "ok")} \union Unreliable(s, new)

\* pysolr's add with commit=False: the documents are accepted, and searchable only after a commit
add(s, n, count) ==
    LET new == [s EXCEPT !.docs = [s.docs EXCEPT ![n] = s.docs[n] + count], !.merging = 1]
    IN  IF n \notin s.collections THEN {Answer(s, "refused")}
        ELSE {Answer(new, "ok")} \union Unreliable(s, new)

\* A commit shows what has been accepted so far, and so does an optimize, which commits first.
commit(s, n) ==
    LET new == [s EXCEPT !.searchable = [s.searchable EXCEPT ![n] = s.docs[n]]]
    IN  IF n \notin s.collections THEN {Answer(s, "refused")}
        ELSE {Answer(new, "ok")} \union Unreliable(s, new)

\* Calls that only read: search, raw_request
request(s, n) ==
    IF n \notin s.collections THEN {Answer(s, "refused")} ELSE {Answer(s, "ok")} \union Unreliable(s, s)

get_node_metrics(s) == {Answer(s, "ok")} \union Unreliable(s, s)

Execute(s, call) ==
    CASE call.call = "upload" -> upload_configset(s, call.name)
      [] call.call = "delete-configset" -> delete_configset(s, call.name)
      [] call.call = "create" -> create_collection(s, call.name)
      [] call.call = "delete" -> delete_collection(s, call.name)
      [] call.call = "add" -> add(s, call.name, call.count)
      [] call.call \in {"commit", "optimize"} -> commit(s, call.name)
      [] call.call = "metrics" -> get_node_metrics(s)
      [] OTHER -> request(s, call.name)

-----------------------------------------------------------------------------
(***************************************************************************)
(* The runners.  Each says what its coroutine does with an answer: go on   *)
(* with another step, which names the next call, or end with a result.     *)
(* pysolr raises SolrError for whatever goes wrong.  The other calls raise *)
(* an exception of requests when no answer arrives.  When Solr refuses,    *)
(* the administrative ones raise SolrClientError, which nobody translates, *)
(* and the search with a body and the metrics an HTTPError.                *)
(***************************************************************************)
Ends(o, result) == [o EXCEPT !.step = result]

IsPysolr(step) == step \in {"add", "commit", "search", "optimize", "page"}

\* Calls whose answer goes through raise_for_status
IsChecked(step) == step \in {"body-search", "metrics"}

\* _translate_solr_error and what it leaves alone: a lost connection is fatal, where requests reports it.
Raised(o, answer) ==
    Ends(o, IF o.step = "raw-request" THEN "exception"
            ELSE IF IsPysolr(o.step) \/ answer = "late" \/ (IsChecked(o.step) /\ answer # "lost") THEN "transport"
            ELSE IF answer = "lost" THEN "connection" ELSE "exception")

\* Mutant: the commit that was asked for is left to Solr.
NeverCommits(p, o) ==
    IF o.batch < Len(p.batches) THEN [o EXCEPT !.step = "add", !.batch = @ + 1]
    ELSE Ends(o, IF o.errors = 0 THEN "ok" ELSE "failed")

\* The batches of a bulk that are left, and then the commit that was asked for.
NextBatch(p, o) ==
    IF o.batch < Len(p.batches) THEN [o EXCEPT !.step = "add", !.batch = @ + 1]
    ELSE IF p.commit THEN [o EXCEPT !.step = "commit"]
    ELSE Ends(o, IF o.errors = 0 THEN "ok" ELSE "failed")

\* Mutant: documents are counted before Solr has answered.
CountedEarly(p, o, answer) ==
    IF o.step = "add" THEN NextBatch(p, [o EXCEPT !.total = @ + p.batches[o.batch]])
    ELSE IF answer = "ok" THEN Ends(o, IF o.errors = 0 THEN "ok" ELSE "failed")
    ELSE Raised(o, answer)

\* A batch that fails is counted and the next one is sent.
SolrBulkIndex(p, o, answer) ==
    IF o.step = "add" THEN
        IF answer = "ok" THEN NextBatch(p, [o EXCEPT !.total = @ + p.batches[o.batch]])
        ELSE NextBatch(p, [o EXCEPT !.errors = @ + p.batches[o.batch]])
    ELSE IF answer = "ok" THEN Ends(o, IF o.errors = 0 THEN "ok" ELSE "failed")
    ELSE Raised(o, answer)

\* SolrSearch, SolrCommit and SolrOptimize issue one call.
OneCall(o, answer) == IF answer = "ok" THEN Ends(o, "ok") ELSE Raised(o, answer)

\* Whatever Solr answers to a raw request is a success.
RawRequest(o, answer) == IF answer \in {"lost", "late"} THEN Raised(o, answer) ELSE Ends(o, "ok")

\* Mutant: a short page is taken for the last one and not counted.
ShortPageDropped(p, o, answer, docs) ==
    LET found == docs - o.seen
    IN  IF answer # "ok" THEN Raised(o, answer)
        ELSE IF found < p.rows THEN Ends(o, "ok")
        ELSE [o EXCEPT !.total = @ + p.rows, !.seen = @ + p.rows]

\* Pages are read until the cursor does not move any more.
SolrPaginatedSearch(p, o, answer, docs) ==
    LET left == IF docs > o.seen THEN docs - o.seen ELSE 0
        found == IF left < p.rows THEN left ELSE p.rows
    IN  IF answer # "ok" THEN Raised(o, answer)
        ELSE IF found = 0 THEN Ends(o, "ok")
        ELSE [o EXCEPT !.total = @ + found, !.seen = @ + found]

\* Mutant: merges are awaited without a limit.
WaitForever(o, answer, merging) ==
    IF answer # "ok" THEN Raised(o, answer)
    ELSE IF merging = 0 THEN Ends(o, "ok") ELSE o

\* Merges are polled until none is running or the time is over.
SolrWaitForMerges(o, answer, merging) ==
    IF answer # "ok" THEN Raised(o, answer)
    ELSE IF merging = 0 THEN Ends(o, "ok")
    ELSE IF o.polls + 1 >= MaxPolls THEN Ends(o, "failed")
    ELSE [o EXCEPT !.polls = @ + 1]

\* A failed creation deletes the configset it has uploaded and then raises.
SolrCreateCollection(p, o, answer) ==
    IF o.step = "upload" THEN IF answer = "ok" THEN [o EXCEPT !.step = "create"] ELSE Raised(o, answer)
    ELSE IF o.step = "delete-configset" THEN Ends(o, o.why)
    ELSE IF answer \in {"ok", "exists"} THEN Ends(o, "ok")
    ELSE IF p.upload /\ p.cleanup THEN [o EXCEPT !.step = "delete-configset", !.why = Raised(o, answer).step]
    ELSE Raised(o, answer)

\* Mutant: a deletion that fails returns the answer instead of raising.
AnswerReturned(p, o, answer) ==
    IF o.step = "delete" /\ answer = "ok" THEN [o EXCEPT !.step = "delete-configset"]
    ELSE IF o.step = "delete" THEN Ends(o, answer) ELSE Ends(o, "ok")

\* A missing collection is no error, nor is a configset that cannot be deleted.
SolrDeleteCollection(p, o, answer) ==
    IF o.step = "delete" /\ answer # "ok" /\ ~ (answer = "missing" /\ p.ignore_missing) THEN Raised(o, answer)
    ELSE IF o.step = "delete" /\ p.cleanup THEN [o EXCEPT !.step = "delete-configset"]
    ELSE Ends(o, "ok")

\* RequestTiming subtracts the start of the child's request from its end.  None
\* of the runners above records them, so that a child which returns fails here.
Composite(p, o, answer) ==
    IF answer # "ok" THEN Raised(o, answer) ELSE Ends(o, "exception")

\* Documents a cursor finds: those that were searchable when the search began, and of those that
\* became so later the ones whose ids lie ahead of it.
Visible(p, o) == {solr.searchable[p.name]} \union (o.from .. solr.searchable[p.name])

\* Dispatch to the runner registered for the type of the operation.
RunnerFor(p, o, answer, docs) ==
    CASE p.type = "bulk-index" -> SolrBulkIndex(p, o, answer)
      [] p.type = "paginated-search" -> SolrPaginatedSearch(p, o, answer, docs)
      [] p.type = "wait-for-merges" -> SolrWaitForMerges(o, answer, solr.merging)
      [] p.type = "create-collection" -> SolrCreateCollection(p, o, answer)
      [] p.type = "delete-collection" -> SolrDeleteCollection(p, o, answer)
      [] p.type = "composite" -> Composite(p, o, answer)
      [] p.type = "raw-request" -> RawRequest(o, answer)
      [] OTHER -> OneCall(o, answer)

\* What the runner does before its first call.
FirstStep(p, o) ==
    CASE p.type = "bulk-index" -> NextBatch(p, o)
      [] p.type = "paginated-search" -> [o EXCEPT !.step = "page", !.from = solr.searchable[p.name]]
      [] p.type = "wait-for-merges" -> [o EXCEPT !.step = "metrics"]
      [] p.type = "create-collection" -> [o EXCEPT !.step = IF p.upload THEN "upload" ELSE "create"]
      [] p.type = "delete-collection" -> [o EXCEPT !.step = "delete"]
      [] p.type = "composite" -> [o EXCEPT !.step = p.child]
      [] OTHER -> [o EXCEPT !.step = p.type]

Results == {"ok", "failed", "transport", "connection", "exception", "timeout"}
Fatal == {"connection", "exception"}
Steps == {"idle", "upload", "create", "delete", "delete-configset", "add", "commit", "search", "body-search",
          "optimize", "page", "metrics", "raw-request"}

-----------------------------------------------------------------------------
(***************************************************************************)
(* Operations under way                                                    *)
(***************************************************************************)
Server == [collections : SUBSET Names, configsets : SUBSET Names, docs : [Names -> Nat], searchable : [Names -> Nat],
           merging : {0, 1}]

Progress ==
    [at : Nat, step : Steps \union Results, batch : Nat, total : Nat, errors : Nat, polls : Nat, seen : Nat,
     from : Nat, why : Results \union {"none"}]

HttpCalls ==
    [owner : Callers, at : Nat, id : Nat \X Nat \X Nat, call : Steps, name : Names, count : Nat,
     running : BOOLEAN, live : BOOLEAN]

Reports == [result : Results, total : Nat, from : Nat, docs : Nat]

\* Scripts advance only through the steps of their runners, and what Solr holds, the calls
\* under way and the reports keep their types.
OperationsTypeOK ==
    /\ script \in Scripts
    /\ solr \in Server
    /\ DOMAIN added = Callers /\ \A c \in Callers : added[c] \in [1 .. Len(script[c]) -> Nat]
    /\ op \in [Callers -> Progress]
    /\ \A c \in Callers : op[c].step \in Steps /\ op[c].at \in 0 .. Len(script[c])
    /\ calls \subseteq HttpCalls
    /\ results \in [Callers -> Seq(Reports)]
    /\ faults \in 0 .. MaxFaults

OperationsInit ==
    /\ script \in Scripts
    /\ solr = [collections |-> {}, configsets |-> {}, docs |-> [n \in Names |-> 0],
               searchable |-> [n \in Names |-> 0], merging |-> 0]
    /\ added = [c \in Callers |-> [i \in 1 .. Len(script[c]) |-> 0]]
    /\ op = [c \in Callers |-> Idle]
    /\ calls = {}
    /\ results = [c \in Callers |-> <<>>]
    /\ faults = 0

\* _run_in_executor submits the call of the step; a call has an identity of its own.
Submit(c, o) ==
    [owner |-> c, at |-> o.at, id |-> <<o.batch, o.polls, o.total>>, call |-> o.step, name |-> script[c][o.at].name,
     count |-> IF o.step = "add" THEN script[c][o.at].batches[o.batch] ELSE 0,
     running |-> FALSE, live |-> TRUE]

\* The executor draws the client's next operation; an exception has ended it for good.
BeginOperation(c) ==
    /\ op[c].step = "idle" /\ op[c].at < Len(script[c])
    /\ op[c].at > 0 => results[c][op[c].at].result \notin Fatal
    /\ LET o == FirstStep(script[c][op[c].at + 1], [Idle EXCEPT !.at = op[c].at + 1])
       IN  /\ op' = [op EXCEPT ![c] = o]
           /\ calls' = calls \union {Submit(c, o)}
    /\ UNCHANGED <<script, solr, added, results, faults>>

\* A thread of the pool takes the call.
TakeThread(k) ==
    /\ ~ k.running /\ Cardinality({j \in calls : j.running}) < PoolSize
    /\ calls' = (calls \ {k}) \union {[k EXCEPT !.running = TRUE]}
    /\ UNCHANGED <<script, solr, added, op, results, faults>>

\* Records the result of an operation; execute_single counts nothing for one that raised.
Record(c, o, result) ==
    results' = [results EXCEPT ![c] =
                   Append(results[c], [result |-> result, total |-> IF result \in {"ok", "failed"} THEN o.total ELSE 0,
                              from |-> o.from, docs |-> solr.searchable[Current(c).name]])]

\* Documents of the call that Solr has accepted
Accepted(k, s) == IF k.call = "add" /\ s # solr THEN k.count ELSE 0

\* The coroutine ends with the result o.step, or issues the call of its next step.
GoesOn(k, o) ==
    IF o.step \in Results
    THEN /\ calls' = calls \ {k}
         /\ op' = [op EXCEPT ![k.owner] = [Idle EXCEPT !.at = o.at]]
         /\ Record(k.owner, o, o.step)
    ELSE /\ calls' = (calls \ {k}) \union {Submit(k.owner, o)}
         /\ op' = [op EXCEPT ![k.owner] = o]
         /\ UNCHANGED results

\* Solr has executed the call, or it is lost; the coroutine goes on if it still waits.
CallReturns(k) ==
    /\ k.running
    /\ \E a \in Execute(solr, k) :
          /\ \/ a.answer \in {"ok", "exists", "missing", "refused"} /\ UNCHANGED faults
             \/ a.answer \in {"error", "lost", "late"} /\ faults < MaxFaults /\ faults' = faults + 1
          /\ solr' = a.solr
          /\ added' = [added EXCEPT ![k.owner] = [added[k.owner] EXCEPT ![k.at] = @ + Accepted(k, a.solr)]]
          /\ \/ ~ k.live /\ calls' = calls \ {k} /\ UNCHANGED <<op, results>>
             \/ /\ k.live
                /\ \E docs \in Visible(Current(k.owner), op[k.owner]) :
                      GoesOn(k, RunnerFor(Current(k.owner), op[k.owner], a.answer, docs))
    /\ UNCHANGED script

\* Mutant: a call that waits for a thread is not cancelled.
KeepCall(k) == {[k EXCEPT !.live = FALSE]}

\* What is left of a call once its coroutine is cancelled.
CancelCall(k) == IF k.running THEN {[k EXCEPT !.live = FALSE]} ELSE {}

\* The calls once caller c's coroutine is cancelled
CallsWithout(c) ==
    {k \in calls : k.owner # c \/ ~ k.live} \union UNION {CancelCall(k) : k \in {j \in calls : j.owner = c /\ j.live}}

\* asyncio.wait_for cancels the coroutine; CancelledError passes every handler of a runner.
TimesOut(c) ==
    /\ op[c].step # "idle" /\ faults < MaxFaults
    /\ faults' = faults + 1
    /\ calls' = CallsWithout(c)
    /\ op' = [op EXCEPT ![c] = [Idle EXCEPT !.at = op[c].at]]
    /\ Record(c, op[c], "timeout")
    /\ UNCHANGED <<script, solr, added>>

\* A merge in Solr ends.
MergeEnds ==
    /\ solr.merging = 1
    /\ solr' = [solr EXCEPT !.merging = 0]
    /\ UNCHANGED <<script, added, op, calls, results, faults>>

\* Solr commits by itself, within a second of the documents that came with commitWithin=1000.
CommitsWithin(n) ==
    /\ solr.searchable[n] # solr.docs[n]
    /\ solr' = [solr EXCEPT !.searchable = [solr.searchable EXCEPT ![n] = solr.docs[n]]]
    /\ UNCHANGED <<script, added, op, calls, results, faults>>

OperationsNext ==
    \/ \E c \in Callers : BeginOperation(c) \/ TimesOut(c)
    \/ \E k \in calls : TakeThread(k) \/ CallReturns(k)
    \/ MergeEnds
    \/ \E n \in Names : CommitsWithin(n)

OperationsSpec == OperationsInit /\ [][OperationsNext]_operationVars

-----------------------------------------------------------------------------
(***************************************************************************)
(* Properties                                                              *)
(***************************************************************************)
\* The documents that a bulk operation reports as indexed have been accepted by
\* Solr, whatever was lost, timed out or applied behind its back.
ReportedIsIndexed ==
    \A c \in Callers : \A i \in 1 .. Len(results[c]) :
        script[c][i].type = "bulk-index" => results[c][i].total <= added[c][i]

\* A call nobody waits for occupies a thread; cancelled calls in the queue never
\* reach Solr.  So late effects are bounded by the pool, and clients by one call.
AbandonedCallsBounded ==
    /\ \A k \in calls : ~ k.live => k.running
    /\ Cardinality({k \in calls : k.running}) <= PoolSize
    /\ \A c \in Callers : Cardinality({k \in calls : k.owner = c /\ k.live}) <= 1

NothingDeleted == \A c \in Callers : \A i \in 1 .. Len(script[c]) : script[c][i].type # "delete-collection"

\* A paginated search that succeeds has returned no document twice and, when nothing is
\* deleted, none too few: at least those that were searchable when it began, at most those at
\* its end.  Documents of a bulk without a commit may be missing, although it reports them as indexed.
PaginationComplete ==
    NothingDeleted =>
        \A c \in Callers : \A i \in 1 .. Len(results[c]) :
            LET report == results[c][i]
            IN  script[c][i].type = "paginated-search" /\ report.result = "ok"
                    => report.from <= report.total /\ report.total <= report.docs

\* Bulks that have returned and were to commit
Committed(c, i) ==
    script[c][i].type = "bulk-index" /\ script[c][i].commit /\ results[c][i].result \in {"ok", "failed"}

\* What a bulk with a commit reports, a later paginated search of the same client finds, whatever
\* batches failed or were executed unnoticed and whatever another client indexes meanwhile.
CommittedIsFound ==
    NothingDeleted =>
        \A c \in Callers : \A i, j \in 1 .. Len(results[c]) :
            /\ i < j /\ Committed(c, i) /\ script[c][i].name = script[c][j].name
            /\ script[c][j].type = "paginated-search" /\ results[c][j].result = "ok"
            => results[c][i].total <= results[c][j].total

\* Has every client that is not stopped by an exception executed its whole script?
OperationsEnded ==
    \A c \in Callers :
        /\ op[c].step = "idle"
        /\ \/ Len(results[c]) = Len(script[c])
           \/ \E i \in 1 .. Len(results[c]) : results[c][i].result \in Fatal

(***************************************************************************)
(* The runners say what they have done: documents they report are          *)
(* accepted by Solr, and found by a search if they were committed; a       *)
(* paginated search has all documents that are searchable, and what goes   *)
(* on behind their backs is bounded by the pool of threads.                *)
(***************************************************************************)
OperationsAreHonest ==
    OperationsTypeOK /\ ReportedIsIndexed /\ PaginationComplete /\ CommittedIsFound /\ AbandonedCallsBounded
=============================================================================
