----------------------------- MODULE Allocator -----------------------------
(***************************************************************************)
(* The pure functions that turn a test procedure's schedule into work for  *)
(* the load generators: Allocator (allocations, join_points,               *)
(* tasks_per_joinpoint, clients), Parallel.clients, and                    *)
(* calculate_worker_assignments, in                                        *)
(* osbenchmark/worker_coordinator/worker_coordinator.py.                   *)
(*                                                                         *)
(* A schedule is a sequence of elements [clients, tasks]: a plain task is  *)
(* an element with one sub-task, a parallel element has several.  clients  *)
(* is the element's explicit number of clients, 0 if it has none.  A       *)
(* sub-task is a record with fields name, clients and completes.           *)
(***************************************************************************)
EXTENDS Integers, Sequences, SequencesExt

\* Parallel.clients (and Task.clients): explicit, or the sum of the sub-tasks
ElementClients(element) ==
    IF element.clients # 0 THEN element.clients
    ELSE FoldLeft(LAMBDA sum, t : sum + t.clients, 0, element.tasks)

\* Allocator.clients
MaxClients(schedule) ==
    FoldLeft(LAMBDA m, element : Max({m, ElementClients(element)}), 1, schedule)

\* Mutant: every client of an element is its own partition.
TaskAllocationGlobal(t, index, global, total) ==
    [kind |-> "task", task |-> t, client_index_in_task |-> global,
     global_client_index |-> global, total_clients |-> total]

JoinPoint(id, clients) == [kind |-> "join", id |-> id, completing |-> clients]
TaskAllocation(t, index, global, total) ==
    [kind |-> "task", task |-> t, client_index_in_task |-> index,
     global_client_index |-> global, total_clients |-> total]
NoAllocation == [kind |-> "none"]

ClientIds(n) == 0 .. n - 1

\* Append an entry to the rows of the given physical clients.
AppendFor(matrix, clients, entry) ==
    [c \in DOMAIN matrix |-> IF c \in clients THEN Append(matrix[c], entry) ELSE matrix[c]]

\* Mutant: the next sub-task starts at the first client again.
AllocateSubTaskFromFirst(st, t, n, total) ==
    LET PlaceOne(acc, k) ==
          [acc EXCEPT !.matrix = AppendFor(@, {(k - 1) % n}, TaskAllocation(t, k - 1, k - 1, total)),
                      !.completing = IF t.completes THEN @ \union {(k - 1) % n} ELSE @]
    IN  FoldLeft(PlaceOne, st, [k \in 1 .. t.clients |-> k])

\* The loop over the clients of one sub-task; st.start is start_client_index,
\* st.completing is clients_executing_completing_task.
AllocateSubTask(st, t, n, total) ==
    LET PlaceOne(acc, k) ==
          LET client_index == st.start + k - 1
              physical == client_index % n
          IN  [acc EXCEPT !.matrix = AppendFor(@, {physical}, TaskAllocation(t, k - 1, client_index, total)),
                          !.completing = IF t.completes THEN @ \union {physical} ELSE @]
        placed == FoldLeft(PlaceOne, st, [k \in 1 .. t.clients |-> k])
    IN  [placed EXCEPT !.start = @ + t.clients]

\* One element of the schedule: its sub-tasks, the filler, the join point
AllocateElement(matrix, element, id, n) ==
    LET start == [matrix |-> matrix, start |-> 0, completing |-> {}]
        st == FoldLeft(LAMBDA acc, t : AllocateSubTask(acc, t, n, ElementClients(element)),
                       start, element.tasks)
        filled == IF st.start % n > 0
                  THEN AppendFor(st.matrix, st.start % n .. n - 1, NoAllocation)
                  ELSE st.matrix
    IN  AppendFor(filled, ClientIds(n), JoinPoint(id, st.completing))

\* Allocator.allocations: client -> sequence of entries
AllocationMatrix(schedule) ==
    LET n == MaxClients(schedule)
        first == [c \in ClientIds(n) |-> <<JoinPoint(0, {})>>]
    IN  FoldLeft(LAMBDA matrix, id : AllocateElement(matrix, schedule[id], id, n),
                 first, [id \in 1 .. Len(schedule) |-> id])

\* Allocator.join_points
AllJoinPoints(schedule) == SelectSeq(AllocationMatrix(schedule)[0], LAMBDA e : e.kind = "join")

\* Mutant: flushes at every join point.
VisitEntryFlushesAlways(acc, e) ==
    CASE e.kind = "task" -> [acc EXCEPT !.current = @ \union {e.task}]
      [] e.kind = "join" -> [tasks |-> Append(acc.tasks, acc.current), current |-> {}]
      [] OTHER -> acc

\* Collect a task; flush the tasks collected so far at a join point.
VisitEntry(acc, e) ==
    CASE e.kind = "task" -> [acc EXCEPT !.current = @ \union {e.task}]
      [] e.kind = "join" /\ acc.current # {} ->
            [tasks |-> Append(acc.tasks, acc.current), current |-> {}]
      [] OTHER -> acc

\* Allocator.tasks_per_joinpoint: scans the matrix row by row
TasksPerJoinPoint(schedule) ==
    LET matrix == AllocationMatrix(schedule)
        n == MaxClients(schedule)
        VisitRow(acc, i) == FoldLeft(VisitEntry, acc, [c \in 1 .. n |-> matrix[c - 1][i]])
        rows == [i \in 1 .. Len(matrix[0]) |-> i]
    IN  FoldLeft(VisitRow, [tasks |-> <<>>, current |-> {}], rows).tasks

-----------------------------------------------------------------------------
\* Mutant: rounds down.
FloorDiv(a, b) == a \div b

CeilDiv(a, b) == (a + b - 1) \div b

\* The clients of each worker of one host with `cores' workers
ClientsPerWorker(clients_on_host, cores) ==
    FoldLeft(LAMBDA counts, c : [counts EXCEPT ![((c - 1) % cores) + 1] = @ + 1],
             [k \in 1 .. cores |-> 0], [c \in 1 .. clients_on_host |-> c])

\* Number the clients of one host consecutively, starting at client_idx.
NumberWorkers(client_idx, counts) ==
    FoldLeft(LAMBDA acc, k :
                [idx |-> acc.idx + k,
                 workers |-> Append(acc.workers, [i \in 1 .. k |-> acc.idx + i - 1])],
             [idx |-> client_idx, workers |-> <<>>], counts)

\* calculate_worker_assignments: hosts is the sequence of the hosts' cores;
\* the result has one sequence of workers per host, and what is left over.
WorkerAssignments(hosts, client_count) ==
    LET per_host == CeilDiv(client_count, Len(hosts))
        AssignHost(acc, cores) ==
            LET here == Min({per_host, acc.remaining})
                numbered == NumberWorkers(acc.client_idx, ClientsPerWorker(here, cores))
            IN  [assignments |-> Append(acc.assignments, numbered.workers),
                 client_idx |-> numbered.idx,
                 remaining |-> acc.remaining - here]
    IN  FoldLeft(AssignHost,
                 [assignments |-> <<>>, client_idx |-> 0, remaining |-> client_count], hosts)

\* start_benchmark: worker ids in order, workers without clients are skipped
StartedWorkers(hosts, client_count) ==
    SelectSeq(FlattenSeq(WorkerAssignments(hosts, client_count).assignments),
              LAMBDA clients : clients # <<>>)
=============================================================================
