------------------------ MODULE WorkerCoordinationMC ------------------------
(***************************************************************************)
(* Instances of WorkerCoordination.  The matrix and the assignment of      *)
(* clients to workers are computed by Allocator from a test procedure's    *)
(* schedule and the cores of the load generation hosts.                    *)
(***************************************************************************)
EXTENDS WorkerCoordination

CONSTANTS Schedule, Hosts

Alloc == INSTANCE Allocator

MCClients == Alloc!ClientIds(Alloc!MaxClients(Schedule))
MCMatrix == Alloc!AllocationMatrix(Schedule)
MCNumRows == Len(MCMatrix[0])
MCStarted == Alloc!StartedWorkers(Hosts, Alloc!MaxClients(Schedule))
MCWorkers == 1 .. Len(MCStarted)
MCAssignedWorker ==
    [c \in MCClients |-> CHOOSE w \in MCWorkers : c \in Elements(MCStarted[w])]

\* What the coordination depends on of an entry of Allocator's matrix
View(e) ==
    CASE e.kind = "task" -> [kind |-> "task", completes |-> e.task.completes,
                             eternal |-> e.task.eternal, progress |-> e.task.progress,
                             profiled |-> e.task.profiled]
      [] e.kind = "join" -> [kind |-> "join", completing |-> e.completing]
      [] OTHER -> NoTask
MCAllocations == [c \in MCClients |-> [i \in 1 .. MCNumRows |-> View(MCMatrix[c][i])]]

-----------------------------------------------------------------------------
(* Test procedures *)

Task(name, clients) ==
    [name |-> name, clients |-> clients, completes |-> FALSE, eternal |-> FALSE,
     progress |-> "%", profiled |-> 0]
Eternal(name, clients) == [Task(name, clients) EXCEPT !.eternal = TRUE, !.progress = "none"]
Profiled(name, clients) == [Task(name, clients) EXCEPT !.profiled = 1]
Completing(name, clients) == [Task(name, clients) EXCEPT !.completes = TRUE]

Step(task) == [clients |-> 0, tasks |-> <<task>>]
Parallel(tasks) == [clients |-> 0, tasks |-> tasks]
ParallelOn(clients, tasks) == [clients |-> clients, tasks |-> tasks]

\* an indexing task next to searches that run until indexing is done
CompletedBy == <<Parallel(<<Completing("index", 1), Eternal("search", 1)>>), Step(Task("count", 1))>>
\* More tasks than clients, so that the second task of a client may be skipped, two
\* of the three clients sharing a worker; then searches on both workers, one of them
\* sharing its worker with indexing.
CompletedByShared ==
    <<ParallelOn(3, <<Profiled("a", 2), Completing("b", 1), Task("c", 1)>>),
      Parallel(<<Completing("index", 1), Eternal("search", 2)>>)>>

OneCoreEach == <<1, 1>>
=============================================================================
