---------------------------- MODULE AlgorithmsMC ----------------------------
(***************************************************************************)
(* From a workload file to what the clients send: the file is loaded, its  *)
(* schedule is allocated to workers, the corpora are shared out, queries   *)
(* are randomized, and a branch of a repository is matched with a version. *)
(* Each is checked over all inputs within the bounds; a behaviour is about *)
(* one of them: part.                                                      *)
(*                                                                         *)
(* Schedules, hosts and branches grow element by element, so that the      *)
(* states are all inputs within the bounds.  Several hosts are combined    *)
(* with schedules of one element only: the assignment of clients depends   *)
(* on the schedule through its number of clients alone.                    *)
(***************************************************************************)
EXTENDS Allocator, ParameterSources, WorkloadLoading, QueryRandomization, Versions

CONSTANTS MaxElements,   \* bound: elements of a schedule
          MaxSubTasks,   \* bound: sub-tasks of a parallel element
          MaxSubClients, \* bound: clients of a sub-task
          MaxHosts,      \* bound: load generation hosts
          MaxCores,      \* bound: cores of a host
          CorpusSizes    \* documents of a corpus that is shared out

VARIABLES schedule, hosts,   \* input of the allocator
          branches, wanted,  \* input of best_match
          part

-----------------------------------------------------------------------------
(* Workload files *)

Times ==
    {NoTimes,
     [NoTimes EXCEPT !.warmup_iterations = 3, !.iterations = 4],
     [NoTimes EXCEPT !.iterations = 1, !.time_period = 20],
     [NoTimes EXCEPT !.warmup_time_period = 5, !.time_period = 20],
     [NoTimes EXCEPT !.warmup_time_period = 5, !.ramp_up = 5],
     [NoTimes EXCEPT !.ramp_up = 7],
     [NoTimes EXCEPT !.time_period = 20, !.ramp_down = 15]}

TaskOf(n, operation, tags, clients, times) ==
    [name |-> <<n>>, operation |-> <<operation>>, tags |-> tags, clients |-> clients, times |-> times,
     throttle |-> IF operation = "find" THEN "user" ELSE "none"]
Searching(n, clients, times) == TaskOf(n, "find", {<<"x">>}, clients, times)
Indexing(n, times) == TaskOf(n, "index", {}, 3, times)
Sleeping == TaskOf("c", "sleep", {}, 1, NoTimes)

Plain(t) == [parallel |-> FALSE, clients |-> 0, clients_list |-> <<>>, times |-> NoTimes,
             completed_by |-> NoName, tasks |-> <<t>>]
Listed(t, list) == [Plain(t) EXCEPT !.clients_list = list]
Together(ts, times, by) == [parallel |-> TRUE, clients |-> 0, clients_list |-> <<>>, times |-> times,
                            completed_by |-> by, tasks |-> ts]

TwoOperations == <<[name |-> <<"find">>, type |-> <<"search">>], [name |-> <<"index">>, type |-> <<"bulk">>]>>
TestProcedure(n, default, s) == [name |-> n, default |-> default, schedule |-> s]
File(ps, defined, collections, cs) ==
    [rendered |-> "fine", version |-> 2, params |-> {"size"}, defined |-> defined, operations |-> TwoOperations,
     procedures |-> ps, collections |-> collections, corpora |-> cs]
Scheduled(s) == File(<<TestProcedure("p", FALSE, s)>>, {"schedule"}, <<>>, <<>>)

\* Parallel elements that give their tasks times, which may have their own
Parallels ==
    {Scheduled(<<Together(<<Searching("a", 2, t), Indexing(n, u)>>, d, by), Plain(Sleeping)>>) :
        t \in Times, u \in Times, n \in {"a", "b"}, d \in Times, by \in {NoName, <<"a">>, <<"c">>}}
\* Lists of clients, whose tasks have generated names
ClientsLists ==
    {Scheduled(<<Listed(Searching("a", 1, NoTimes), <<1, 2>>), e>>) :
        e \in {Listed(Sleeping, <<2>>), Listed(Sleeping, <<3>>), Plain(Sleeping)}}
\* Several test procedures
SeveralProcedures ==
    {File(<<TestProcedure("p", d, <<Plain(Searching("a", 2, NoTimes))>>), TestProcedure(q, e, <<Plain(Sleeping)>>)>>,
          defined, <<>>, <<>>) :
        q \in {"p", "q"}, d, e \in BOOLEAN, defined \in {{"test_procedures"}, {"schedule", "test_procedure"}, {}}}
\* Corpora with and without targets
SeveralCorpora ==
    {File(<<TestProcedure("p", TRUE, <<Plain(Sleeping)>>)>>, {"test_procedures"}, cs,
          <<[name |-> "k", target |-> t, streaming |-> s,
             documents |-> <<[format |-> f, meta |-> m, target |-> u, count |-> n, sizes |-> TRUE]>>],
            [name |-> l, target |-> NoName, streaming |-> FALSE,
             documents |-> <<[format |-> "hdf5", meta |-> TRUE, target |-> NoName, count |-> 7, sizes |-> FALSE]>>]>>) :
        cs \in {<<>>, <<<<"k1">>>>, <<<<"k1">>, <<"k2">>>>}, t, u \in {NoName, <<"k2">>}, s, m \in BOOLEAN,
        f \in {"bulk", "hdf5", "tar"}, n \in {None, 9}, l \in {"k", "l"}}
\* Files that cannot be used
FaultyFiles ==
    {[Scheduled(<<Plain(Sleeping)>>) EXCEPT !.rendered = r, !.version = v, !.operations = o] :
        r \in {"fine", "missing", "malformed", "invalid"}, v \in {None, 1, 2, 3},
        o \in {TwoOperations, TwoOperations \o TwoOperations}}

SomeSpecs == Parallels \cup ClientsLists \cup SeveralProcedures \cup SeveralCorpora \cup FaultyFiles

Filter(kind, value) == [kind |-> kind, value |-> <<value>>]
SomeFilters == {{}, {Filter("name", "a")}, {Filter("type", "search"), Filter("name", "b")},
                {Filter("tag", "x"), Filter("type", "sleep")}}
SomeOptions ==
    [exclude : BOOLEAN, filters : SomeFilters, test_mode : BOOLEAN, procedure : {"none"}, params : {{}}]
    \cup [exclude : {TRUE}, filters : {{}}, test_mode : {FALSE}, procedure : {"p", "q", "x"},
          params : {{}, {"size"}, {"other"}}]

-----------------------------------------------------------------------------
(* Corpora, queries and branches *)

SomeSets ==
    {<<[docs |-> d, meta |-> m]>> : d \in 0 .. 5, m \in BOOLEAN}
    \cup {<<[docs |-> d, meta |-> m], [docs |-> 3, meta |-> FALSE]>> : d \in {1, 4}, m \in BOOLEAN}
SomeBulks == [sets : SomeSets, clients : {3}, second : {1, 2, 3}, size : {2}, percentage : {50, 100},
              conflicts : {"none", "sequential", "random"}, looped : BOOLEAN]

Section(in_range, names) == [in_range |-> in_range, names |-> names]
SomeSections ==
    {Section(r, n) : r \in BOOLEAN, n \in {{"gte", "lte"}, {"gt", "lt", "format"}, {"gte", "gt", "lt"}, {"gte"}}}
SomeQueries == [type : {"search", "bulk"}, sources : {{"f"}, {"f", "g"}}, sections : [{"f", "g"} -> SomeSections]]
Harmonic == <<6, 9, 11>>

SomeBranches == {Main, <<8>>, <<8, 2>>, <<9>>, <<9, 0>>, <<9, 1>>, <<9, 1, 0>>}
SomeVersions == {Main, <<8, 2, 1>>, <<9, 0, 0>>, <<9, 1, 0>>, <<9, 1, 0, 5>>, <<10, 0, 0>>}

-----------------------------------------------------------------------------
\* At most one sub-task of an element completes it, and its name is unique.
ElementsAt(k) ==
    {[clients |-> n,
      tasks |-> [i \in 1 .. m |-> [name |-> <<k, i>>, clients |-> f[i], completes |-> i = done]]] :
        n \in 0 .. MaxSubClients, done \in 0 .. MaxSubTasks,
        m \in 1 .. MaxSubTasks, f \in [1 .. MaxSubTasks -> 1 .. MaxSubClients]}

\* What the other parts have got while a behaviour is about one of them
BulkParked ==
    /\ bulks = [sets |-> <<[docs |-> 0, meta |-> FALSE]>>, clients |-> 3, second |-> 1, size |-> 2,
                percentage |-> 50, conflicts |-> "none", looped |-> FALSE]
    /\ BulkInit
LoaderParked ==
    /\ spec = Scheduled(<<Plain(Sleeping)>>)
    /\ options = [exclude |-> TRUE, filters |-> {}, test_mode |-> FALSE, procedure |-> "none", params |-> {}]
    /\ LoaderInit
RandomParked ==
    /\ query = [type |-> "bulk", sources |-> {"f"}, sections |-> [f \in {"f", "g"} |-> Section(FALSE, {"gte"})]]
    /\ RandomInit

Init ==
    /\ schedule = <<>> /\ hosts = <<1>> /\ branches = {}
    /\ \/ part = "allocator" /\ wanted = Main /\ BulkParked /\ LoaderParked /\ RandomParked
       \/ part = "bulks" /\ wanted = Main /\ BulkInit /\ LoaderParked /\ RandomParked
       \/ part = "loading" /\ wanted = Main /\ BulkParked /\ LoaderInit /\ RandomParked
       \/ part = "queries" /\ wanted = Main /\ BulkParked /\ LoaderParked /\ RandomInit
       \/ part = "versions" /\ wanted \in SomeVersions /\ BulkParked /\ LoaderParked /\ RandomParked

AddElement ==
    /\ Len(schedule) < MaxElements
    /\ hosts = <<1>> \/ schedule = <<>>
    /\ \E e \in ElementsAt(Len(schedule) + 1) : schedule' = Append(schedule, e)
    /\ UNCHANGED hosts

AddHost ==
    /\ Len(hosts) < MaxHosts
    /\ Len(schedule) <= 1
    /\ \E cores \in 1 .. MaxCores : hosts' = Append(hosts, cores)
    /\ UNCHANGED schedule

AddBranch == \E b \in SomeBranches \ branches : branches' = branches \cup {b}

OtherThan(p) ==
    /\ part = p /\ UNCHANGED <<part, wanted>>
    /\ p # "allocator" => UNCHANGED <<schedule, hosts>>
    /\ p # "bulks" => UNCHANGED bulkVars
    /\ p # "loading" => UNCHANGED loaderVars
    /\ p # "queries" => UNCHANGED randomVars
    /\ p # "versions" => UNCHANGED branches

Next ==
    \/ (AddElement \/ AddHost) /\ OtherThan("allocator")
    \/ BulkNext /\ OtherThan("bulks")
    \/ LoaderNext /\ OtherThan("loading")
    \/ RandomNext /\ OtherThan("queries")
    \/ AddBranch /\ OtherThan("versions")

vars == <<schedule, hosts, branches, wanted, part, bulkVars, loaderVars, randomVars>>

Spec == Init /\ [][Next]_vars

-----------------------------------------------------------------------------
(***************************************************************************)
(* Reference: with global client indices numbered through an element's     *)
(* sub-tasks, index g runs on physical client g % n in sub-row g \div n.   *)
(***************************************************************************)
StartOf(element, j) ==
    FoldLeft(LAMBDA sum, t : sum + t.clients, 0, SubSeq(element.tasks, 1, j - 1))

ReferenceSegment(element, id, n, c) ==
    LET total == StartOf(element, Len(element.tasks) + 1)
        Owner(g) == CHOOSE j \in 1 .. Len(element.tasks) :
                        g \in StartOf(element, j) .. StartOf(element, j + 1) - 1
        At(g) == IF g >= total THEN NoAllocation
                 ELSE TaskAllocation(element.tasks[Owner(g)], g - StartOf(element, Owner(g)), g,
                                     ElementClients(element))
        finishers == {g % n : g \in {x \in 0 .. total - 1 : element.tasks[Owner(x)].completes}}
    IN  [r \in 1 .. (total + n - 1) \div n |-> At((r - 1) * n + c)] \o <<JoinPoint(id, finishers)>>

\* The matrix the append loop of Allocator.allocations builds is the round-robin
\* one: rectangular, filled with None only at the end of an element, join
\* points aligned and naming exactly the clients of the completing sub-task.
MatrixIsRoundRobin ==
    AllocationMatrix(schedule) =
        [c \in ClientIds(MaxClients(schedule)) |->
            <<JoinPoint(0, {})>> \o
            FlattenSeq([k \in 1 .. Len(schedule) |->
                           ReferenceSegment(schedule[k], k, MaxClients(schedule), c)])]

\* Each sub-task gets one allocation per client, with the indices
\* 0 .. clients - 1 its parameter source is partitioned by.
EverySubTaskIsPartitioned ==
    LET matrix == AllocationMatrix(schedule)
        places == {<<c, i>> : c \in DOMAIN matrix, i \in 1 .. Len(matrix[0])}
    IN  \A k \in 1 .. Len(schedule) : \A t \in ToSet(schedule[k].tasks) :
            LET mine == {p \in places : LET e == matrix[p[1]][p[2]]
                                        IN  e.kind = "task" /\ e.task = t}
            IN  /\ Cardinality(mine) = t.clients
                /\ {matrix[p[1]][p[2]].client_index_in_task : p \in mine} = 0 .. t.clients - 1

\* update_progress_message indexes tasks_per_join_point with current_step:
\* there is one set of tasks per step, the tasks of that schedule element.
OneTaskSetPerStep ==
    LET tasks == TasksPerJoinPoint(schedule)
    IN  /\ Len(tasks) = Len(AllJoinPoints(schedule)) - 1
        /\ \A k \in 1 .. Len(schedule) : tasks[k] = ToSet(schedule[k].tasks)

\* calculate_worker_assignments hands out every client exactly once, in order,
\* its final assertion holds, and the workers of a host differ by at most one
\* client.
ClientsArePartitioned ==
    LET n == MaxClients(schedule)
        result == WorkerAssignments(hosts, n)
    IN  /\ result.remaining = 0
        /\ FlattenSeq(StartedWorkers(hosts, n)) = [i \in 1 .. n |-> i - 1]
        /\ \A h \in 1 .. Len(hosts) :
              /\ Len(result.assignments[h]) = hosts[h]
              /\ \A v, w \in ToSet(result.assignments[h]) : Len(v) <= Len(w) + 1

(***************************************************************************)
(* The documents of a corpus reach the clients of a task exactly once,     *)
(* whatever the hosts, the cores and the other sub-tasks are: a worker     *)
(* reads from the first to the last of its clients' shares in a row of the *)
(* matrix, so the client indices it has there must be consecutive, and the *)
(* rounded shares of all workers and rows must be disjoint and complete.   *)
(* Elements are allocated one by one, so a schedule of one is enough.      *)
(***************************************************************************)
DocumentsArePartitioned ==
    LET matrix == AllocationMatrix(schedule)
        workers == StartedWorkers(hosts, MaxClients(schedule))
        rows == (DOMAIN workers) \X (DOMAIN matrix[0])
        Indices(p, t) == {matrix[c][p[2]].client_index_in_task :
                             c \in {d \in ToSet(workers[p[1]]) : /\ matrix[d][p[2]].kind = "task"
                                                                /\ matrix[d][p[2]].task = t}}
        Share(own, n, t) == LET b == bounds(n, Min(own), Max(own), t.clients) IN b.offset .. b.offset + b.docs - 1
    IN  Len(schedule) = 1 => \A t \in ToSet(schedule[1].tasks) :
            LET groups == [p \in rows |-> Indices(p, t)]
                used == {p \in rows : groups[p] # {}}
            IN  \A n \in CorpusSizes : \A d \in 0 .. n - 1 :
                    Cardinality({p \in used : d \in Share(groups[p], n, t)}) = 1

(***************************************************************************)
(* best_match takes the most specific branch of a version if it has one    *)
(* with a minor; no branch is newer than the version or of another major;  *)
(* main is only taken for a version newer than all branches.  The bundled  *)
(* configuration for a version is as new as possible, and so never older   *)
(* than the branch of an external repository with the same versions.       *)
(***************************************************************************)
BranchFits ==
    LET branch == best_match(branches, wanted)
        bundled == _select_branch_version(wanted, branches)
        exact == {b \in branches : Len(b) >= 2 /\ Len(b) <= Len(wanted) /\ SubSeq(wanted, 1, Len(b)) = b}
    IN  /\ exact # {} => branch \in exact /\ \A b \in exact : Len(b) <= Len(branch)
        /\ branch \notin {Main, NoBranch} => branch \in branches /\ branch[1] = wanted[1] /\ AtMost(branch, wanted)
        /\ (branch = Main /\ wanted # Main) => \A b \in branches \ {Main} : b[1] < wanted[1]
        /\ (Len(wanted) = 3 /\ branch \notin {Main, NoBranch}) => bundled # NoBranch /\ AtMost(branch, bundled)

(***************************************************************************)
(* Allocator and calculate_worker_assignments give every client of every   *)
(* sub-task one place, and every client of the benchmark one worker.       *)
(***************************************************************************)
AllocationIsExact == MatrixIsRoundRobin /\ EverySubTaskIsPartitioned /\ OneTaskSetPerStep /\ ClientsArePartitioned

(***************************************************************************)
(* The clients of a task share the documents of a corpus out: each is sent *)
(* once (or once per loop), under an id of its client's own.               *)
(***************************************************************************)
DocumentsAreShared ==
    DocumentsArePartitioned /\ EveryDocumentOnce /\ LoopsThroughItsShare /\ NoConflictsAcrossClients
=============================================================================
