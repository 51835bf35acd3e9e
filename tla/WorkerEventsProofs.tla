------------------------- MODULE WorkerEventsProofs -------------------------
(***************************************************************************)
(* Three more invariants of WorkerCoordination, for every set of workers   *)
(* and clients: what acts on a worker has a reason to, and no sample is in *)
(* two places, for every allocation matrix; and nothing is lost on the way *)
(* to a join point, where a matrix allows it.  All rest on the invariant   *)
(* IInv of WorkerCoordinationProofs.                                       *)
(***************************************************************************)
EXTENDS WorkerCoordinationProofs

-----------------------------------------------------------------------------
(* The invariants *)

Busy(w) == handling[w] # NotHandling

\* A wake-up of worker w, pending or being handled, is there for its executor
\* or for the start it has been told of.
WakeupOf(w) ==
    /\ Busy(w) => timers[w] = 0
    /\ timers[w] <= 1
    /\ executor_future[w] = "none" /\ ~start_driving[w] => timers[w] = 0 /\ ~Busy(w)
    /\ start_driving[w] => ~Busy(w)

\* A worker that has not started yet starts before anything else.
StartsFirst(w) ==
    /\ \A i \in 1 .. Len(to_worker[w]) : to_worker[w][i].type = "StartWorker" => i = 1
    /\ current_task_index[w] = 0 => HasMessage(to_worker[w], "StartWorker")

\* Only at a join point a worker waits for the others, or has been told to go on;
\* its report names the row it is in.
AtJoinRow(w) == current_task_index[w] \in Rows /\ IsJoinRow(current_task_index[w])
Waits(w) == AtStep(w) = current_step + 2 \/ start_driving[w] \/ HasMessage(to_worker[w], "Drive")
ReportsRow(w) ==
    \A i \in 1 .. Len(to_master[w]) :
        to_master[w][i].type = "JoinPointReached" => to_master[w][i].row = current_task_index[w]
WaitsAtJoinPoint(w) == (Waits(w) => AtJoinRow(w)) /\ ReportsRow(w)

\* The completing task of the current step has finished everywhere.
StepCompletes ==
    \E r \in Rows :
        /\ IsJoinRow(r) /\ JoinPointsUpTo(r) = current_step + 2
        /\ \E c \in Clients : Allocations[c][r].completing # {}
        /\ \A c \in Clients : \A d \in Allocations[c][r].completing : AtStep(AssignedWorker[d]) = current_step + 2

\* A CompleteCurrentTask is about the current step, or the worker finds the
\* Drive of a later one behind it, or the benchmark is over.
CompletesItsStep(w) ==
    \A i \in 1 .. Len(to_worker[w]) : to_worker[w][i].type = "CompleteCurrentTask" =>
        \/ \E j \in i + 1 .. Len(to_worker[w]) : to_worker[w][j].type = "Drive"
        \/ StepCompletes
        \/ current_step = NumberOfSteps

EventsInv ==
    /\ CompletionJustified
    /\ \A w \in Workers : WakeupOf(w) /\ StartsFirst(w) /\ WaitsAtJoinPoint(w) /\ CompletesItsStep(w)

\* The samples of a message, of a mailbox and of the samplers of worker w
SamplesOf(m) == IF m.type = "UpdateSamples" THEN Elements(m.samples) \union Elements(m.profile) ELSE {}
Mailed(q) == UNION {SamplesOf(m) : m \in Elements(q)}
Separate(q) == \A i, j \in 1 .. Len(q) : i # j => SamplesOf(q[i]) \intersect SamplesOf(q[j]) = {}
Buffered(w) == Elements(sampler[w]) \union Elements(profile_sampler[w])
OwnSamples(w) == {s \in taken : AssignedWorker[s.client] = w}

\* Samples are numbered: what client c records next is new.
SamplesAreNumbered ==
    \A s \in taken :
        LET index == current_task_index[AssignedWorker[s.client]]
        IN  /\ s.row <= index
            /\ s.row = index /\ client[s.client] = "running" => s.n <= requests[s.client]

\* No sample of worker w is in two of its messages or its samplers.
SamplesOfWorker(w) ==
    /\ Mailed(to_master[w]) \union Buffered(w) \subseteq OwnSamples(w)
    /\ Separate(to_master[w])
    /\ Mailed(to_master[w]) \intersect (raw_samples \union stored) = {}
    /\ Buffered(w) \intersect (Mailed(to_master[w]) \union raw_samples \union stored) = {}

SamplesInv ==
    /\ raw_samples \union stored \subseteq taken
    /\ raw_samples \intersect stored = {}
    /\ SamplesAreNumbered
    /\ \A w \in Workers : SamplesOfWorker(w)

-----------------------------------------------------------------------------
(* Wake-ups *)

\* drive() schedules a wake-up only with an executor.
LEMMA DriveOnWakeups ==
    ASSUME TypeOK, NEW w \in Workers, NEW pending \in Nat, DriveOn(w, pending)
    PROVE  /\ \A v \in Workers \ {w} : timers'[v] = timers[v] /\ executor_future'[v] = executor_future[v]
           /\ \/ executor_future'[w] = "none" /\ timers'[w] = pending
              \/ executor_future'[w] = "running" /\ timers'[w] = pending + 1
<1>1. PICK j \in Rows :
        DriveToJoinPoint(w, j, pending) \/ DriveSkips(w, j, pending) \/ DriveExecutor(w, j, pending)
  BY DEF DriveOn
<1>2. timers \in [Workers -> Nat] /\ executor_future \in [Workers -> Futures]
  BY DEF TypeOK
<1> QED
  BY <1>1, <1>2 DEF DriveToJoinPoint, DriveSkips, DriveExecutor

\* A worker whose timers, executor and handler are left alone keeps its wake-up.
LEMMA WakeupSame ==
    ASSUME NEW v \in Workers, WakeupOf(v), timers'[v] = timers[v], handling'[v] = handling[v],
           start_driving'[v] = start_driving[v],
           executor_future'[v] = executor_future[v] \/ (executor_future[v] # "none" /\ executor_future'[v] # "none")
    PROVE  WakeupOf(v)'
BY DEF WakeupOf, Busy

\* Every step keeps it.
LEMMA WakeupStep ==
    ASSUME TypeOK, OneReasonToDrive, \A v \in Workers : WakeupOf(v), [Next]_vars
    PROVE  \A v \in Workers : WakeupOf(v)'
<1> USE DEF coordinatorVars, workerVars, clientVars
<1>1. /\ timers \in [Workers -> Nat] /\ handling \in [Workers -> Progress \union {NotHandling}]
      /\ start_driving \in [Workers -> BOOLEAN] /\ executor_future \in [Workers -> Futures]
  BY DEF TypeOK
<1>2. ASSUME UNCHANGED <<timers, handling, start_driving>>,
             \A v \in Workers : executor_future'[v] = executor_future[v]
                                  \/ (executor_future[v] # "none" /\ executor_future'[v] # "none")
      PROVE  \A v \in Workers : WakeupOf(v)'
  BY <1>2, WakeupSame
<1>3. CASE MasterWakeup \/ UNCHANGED vars
  BY <1>2, <1>3 DEF MasterWakeup, vars
<1>4. ASSUME NEW w \in Workers, Coordinator(w) \/ WorkerExits(w) PROVE \A v \in Workers : WakeupOf(v)'
  BY <1>2, <1>4 DEF Coordinator, JoinPointPending, JoinPointRaises, MoveToNextTask, BenchmarkCompleted,
     StepCompleted, MasterUpdateSamples, MasterReceivesFailure, ChildActorExited, WorkerExits
<1>5. ASSUME NEW w \in Workers, WorkerCompleteCurrentTask(w) \/ WorkerForwardsFailure(w)
      PROVE  \A v \in Workers : WakeupOf(v)'
  BY <1>2, <1>5 DEF WorkerCompleteCurrentTask, WorkerForwardsFailure
<1>6. ASSUME NEW c \in Clients, Client(c) \/ ClientRaises(c) PROVE \A v \in Workers : WakeupOf(v)'
  <2>1. \A v \in Workers : executor_future'[v] = executor_future[v]
          \/ (executor_future[v] # "none" /\ executor_future'[v] # "none")
    BY <1>1, <1>6, AssignmentAssumption DEF Client, ClientContinues, ClientFinishes, ClientRaises, ClientRuns
  <2> QED
    BY <1>2, <1>6, <2>1 DEF Client, ClientContinues, ClientFinishes, ClientRaises
<1>7. ASSUME NEW w \in Workers, ExecutorFinishes(w) PROVE \A v \in Workers : WakeupOf(v)'
  <2>1. \A v \in Workers : executor_future'[v] = executor_future[v]
          \/ (executor_future[v] # "none" /\ executor_future'[v] # "none")
    BY <1>1, <1>7 DEF ExecutorFinishes
  <2> QED
    BY <1>2, <1>7, <2>1 DEF ExecutorFinishes
<1>8. ASSUME NEW w \in Workers, WorkerStart(w) PROVE \A v \in Workers : WakeupOf(v)'
  <2>1. /\ DriveOn(w, timers[w]) /\ HasMessage(to_worker[w], "StartWorker") /\ handling[w] = NotHandling
        /\ UNCHANGED <<handling, start_driving>>
    BY <1>8, WorkerMail DEF WorkerStart, WorkerReceives
  <2>2. ~start_driving[w] /\ executor_future[w] = "none"
    BY <2>1 DEF OneReasonToDrive
  <2>3. timers[w] = 0
    BY <2>2 DEF WakeupOf
  <2> QED
    BY <1>1, <2>1, <2>2, <2>3, DriveOnWakeups DEF WakeupOf, Busy
<1>9. ASSUME NEW w \in Workers, WorkerDrive(w) PROVE \A v \in Workers : WakeupOf(v)'
  <2>1. /\ HasMessage(to_worker[w], "Drive") /\ handling[w] = NotHandling
        /\ start_driving' = [start_driving EXCEPT ![w] = TRUE]
        /\ timers' = [timers EXCEPT ![w] = timers[w] + 1]
        /\ UNCHANGED <<handling, executor_future>>
    BY <1>9, WorkerMail DEF WorkerDrive, WorkerReceives
  <2>2. ~start_driving[w] /\ executor_future[w] = "none"
    BY <2>1 DEF OneReasonToDrive
  <2>3. timers[w] = 0
    BY <2>2 DEF WakeupOf
  <2> QED
    BY <1>1, <2>1, <2>3 DEF WakeupOf, Busy
<1>10. ASSUME NEW w \in Workers, WakeupToDrive(w) PROVE \A v \in Workers : WakeupOf(v)'
  <2>1. /\ DriveOn(w, timers[w] - 1) /\ timers[w] > 0 /\ handling[w] = NotHandling /\ UNCHANGED handling
        /\ start_driving' = [start_driving EXCEPT ![w] = FALSE]
    BY <1>10 DEF WakeupToDrive
  <2>2. timers[w] - 1 = 0
    BY <1>1, <2>1 DEF WakeupOf
  <2> QED
    BY <1>1, <2>1, <2>2, DriveOnWakeups DEF WakeupOf, Busy
<1>11. ASSUME NEW w \in Workers, WakeupToCheck(w) PROVE \A v \in Workers : WakeupOf(v)'
  <2>1. /\ ~start_driving[w] /\ timers[w] > 0 /\ timers' = [timers EXCEPT ![w] = timers[w] - 1]
        /\ \A v \in Workers \ {w} : handling'[v] = handling[v]
        /\ UNCHANGED <<start_driving, executor_future>>
    BY <1>1, <1>11 DEF WakeupToCheck
  <2>2. timers'[w] = 0 /\ executor_future[w] # "none"
    BY <1>1, <2>1 DEF WakeupOf
  <2> QED
    BY <1>1, <2>1, <2>2 DEF WakeupOf, Busy
<1>12. ASSUME NEW w \in Workers, CheckDone(w) PROVE \A v \in Workers : WakeupOf(v)'
  <2>1. /\ DriveOn(w, timers[w]) /\ Busy(w) /\ UNCHANGED start_driving
        /\ handling' = [handling EXCEPT ![w] = NotHandling]
    BY <1>12 DEF CheckDone, Handled, Busy
  <2>2. timers[w] = 0 /\ ~start_driving[w]
    BY <2>1 DEF WakeupOf
  <2> QED
    BY <1>1, <2>1, <2>2, DriveOnWakeups DEF WakeupOf, Busy
<1>13. ASSUME NEW w \in Workers, CheckFailed(w) \/ CheckBusy(w) PROVE \A v \in Workers : WakeupOf(v)'
  <2>1. /\ Busy(w) /\ UNCHANGED <<start_driving, executor_future>>
        /\ handling' = [handling EXCEPT ![w] = NotHandling]
        /\ timers' = timers \/ timers' = [timers EXCEPT ![w] = timers[w] + 1]
    BY <1>13 DEF CheckFailed, CheckBusy, Handled, Busy
  <2>2. timers[w] = 0 /\ ~start_driving[w] /\ executor_future[w] # "none"
    BY <2>1 DEF WakeupOf
  <2> QED
    BY <1>1, <2>1, <2>2 DEF WakeupOf, Busy
<1> QED
  BY <1>3, <1>4, <1>5, <1>6, <1>7, <1>8, <1>9, <1>10, <1>11, <1>12, <1>13
     DEF Next, WorkerMailbox, WorkerWakeup

-----------------------------------------------------------------------------
(* The order in a mailbox *)

\* What is where in a mailbox after a message was sent, or handled.
LEMMA Positions ==
    ASSUME NEW S, NEW q \in Seq(S)
    PROVE  /\ Len(q) \in Nat
           /\ \A m \in S : /\ Len(Append(q, m)) = Len(q) + 1 /\ Append(q, m)[Len(q) + 1] = m
                           /\ \A i \in 1 .. Len(q) : Append(q, m)[i] = q[i]
           /\ q # <<>> => /\ Len(Tail(q)) = Len(q) - 1 /\ Len(q) > 0 /\ Head(q) = q[1]
                          /\ \A i \in 1 .. Len(q) - 1 : Tail(q)[i] = q[i + 1]
OBVIOUS

\* What a step does to the mailbox of worker v.
MailTo(v, t) == to_worker'[v] = Append(to_worker[v], [type |-> t])
MailTaken(v) == to_worker[v] # <<>> /\ to_worker'[v] = Tail(to_worker[v])

\* The types of what is in a mailbox.
LEMMA MailPositions ==
    ASSUME TypeOK, NEW v \in Workers
    PROVE  LET q == to_worker[v]
           IN  /\ Len(q) \in Nat
               /\ \A t \in {"Drive", "CompleteCurrentTask", "BenchmarkFailure"} : MailTo(v, t) =>
                     /\ Len(q') = Len(q) + 1 /\ q'[Len(q) + 1].type = t
                     /\ \A i \in 1 .. Len(q) : q'[i] = q[i]
               /\ MailTaken(v) => /\ Len(q') = Len(q) - 1 /\ Len(q) > 0 /\ Head(q) = q[1]
                                  /\ \A i \in 1 .. Len(q) - 1 : q'[i] = q[i + 1]
<1>1. to_worker[v] \in Seq(CoordinatorMessages)
  BY DEF TypeOK
<1>2. \A t \in {"Drive", "CompleteCurrentTask", "BenchmarkFailure"} :
        [type |-> t] \in CoordinatorMessages /\ [type |-> t].type = t
  BY DEF CoordinatorMessages
<1> HIDE DEF CoordinatorMessages
<1> DEFINE q == to_worker[v]
<1>3. ASSUME NEW t \in {"Drive", "CompleteCurrentTask", "BenchmarkFailure"}, MailTo(v, t)
      PROVE  Len(q') = Len(q) + 1 /\ q'[Len(q) + 1].type = t /\ \A i \in 1 .. Len(q) : q'[i] = q[i]
  BY <1>1, <1>2, <1>3, Positions DEF MailTo
<1>4. ASSUME MailTaken(v)
      PROVE  /\ Len(q') = Len(q) - 1 /\ Len(q) > 0 /\ Head(q) = q[1]
             /\ \A i \in 1 .. Len(q) - 1 : q'[i] = q[i + 1]
  BY <1>1, <1>4, Positions DEF MailTaken
<1> QED
  BY <1>1, <1>3, <1>4, Positions

\* The first message is the one that is handled.
LEMMA WorkerTakes ==
    ASSUME TypeOK, NEW w \in Workers, NEW t, WorkerReceives(w, t)
    PROVE  /\ MailTaken(w) /\ Head(to_worker[w]).type = t
           /\ \A v \in Workers \ {w} : to_worker'[v] = to_worker[v]
<1>1. to_worker \in [Workers -> Seq(CoordinatorMessages)]
  BY DEF TypeOK
<1> QED
  BY <1>1 DEF WorkerReceives, MailTaken

\* A mailbox that is left alone, gets a message or loses its first one still
\* starts with StartWorker, if it has one.
LEMMA StartsFirstKept ==
    ASSUME TypeOK, NEW v \in Workers, StartsFirst(v)
    PROVE  /\ to_worker'[v] = to_worker[v] /\ current_task_index'[v] = current_task_index[v] => StartsFirst(v)'
           /\ \A t \in {"Drive", "CompleteCurrentTask", "BenchmarkFailure"} :
                 MailTo(v, t) /\ current_task_index'[v] = current_task_index[v] => StartsFirst(v)'
           /\ MailTaken(v) /\ Head(to_worker[v]).type # "StartWorker"
                           /\ current_task_index'[v] = current_task_index[v] => StartsFirst(v)'
           /\ MailTaken(v) /\ current_task_index'[v] # 0 => StartsFirst(v)'
           /\ to_worker'[v] = to_worker[v] /\ current_task_index'[v] # 0 => StartsFirst(v)'
<1> USE MailPositions
<1>1. to_worker'[v] = to_worker[v] /\ current_task_index'[v] = current_task_index[v] => StartsFirst(v)'
  BY DEF StartsFirst, HasMessage
<1>2. ASSUME NEW t \in {"Drive", "CompleteCurrentTask", "BenchmarkFailure"}, MailTo(v, t),
             current_task_index'[v] = current_task_index[v]
      PROVE  StartsFirst(v)'
  BY <1>2 DEF StartsFirst, HasMessage
<1>3. MailTaken(v) => \A i \in 1 .. Len(to_worker'[v]) : to_worker'[v][i].type # "StartWorker"
  BY DEF StartsFirst
<1>4. MailTaken(v) /\ Head(to_worker[v]).type # "StartWorker" => current_task_index[v] # 0
  BY DEF StartsFirst, HasMessage
<1>5. to_worker'[v] = to_worker[v] /\ current_task_index'[v] # 0 => StartsFirst(v)'
  BY DEF StartsFirst
<1> QED
  BY <1>1, <1>2, <1>3, <1>4, <1>5 DEF StartsFirst

-----------------------------------------------------------------------------
(* Steps that drive *)

DriveSteps(w) == WorkerStart(w) \/ WakeupToDrive(w) \/ CheckDone(w)

\* A worker that drives is behind the released join point and has no further
\* reason to.
LEMMA Driven ==
    ASSUME TypeOK, BarrierInv, NEW w \in Workers, DriveSteps(w)
    PROVE  /\ \E pending \in Nat : DriveOn(w, pending)
           /\ UNCHANGED <<coordinatorVars, taken>>
           /\ AtStep(w) = current_step + 1 /\ ~HasMessage(to_master[w], "JoinPointReached")
           /\ executor_future[w] \in {"none", "done"}
           /\ ~HasMessage(to_worker'[w], "Drive") /\ ~start_driving'[w]
           /\ MailTaken(w) \/ to_worker'[w] = to_worker[w]
           /\ \A v \in Workers \ {w} : to_worker'[v] = to_worker[v] /\ start_driving'[v] = start_driving[v]
<1>1. /\ timers[w] \in Nat /\ start_driving \in [Workers -> BOOLEAN]
      /\ current_step \in Nat \union {-1}
  BY DEF TypeOK
<1>2. ASSUME ~Resting(w) PROVE AtStep(w) = current_step + 1 /\ ~HasMessage(to_master[w], "JoinPointReached")
  BY <1>1, <1>2 DEF BarrierInv, LockInv, LockstepOf
<1>3. CASE WorkerStart(w)
  <2>1. /\ WorkerReceives(w, "StartWorker") /\ DriveOn(w, timers[w])
        /\ UNCHANGED <<coordinatorVars, start_driving, taken>>
    BY <1>3 DEF WorkerStart
  <2>2. HasMessage(to_worker[w], "StartWorker") /\ (HasMessage(to_worker'[w], "Drive") => HasMessage(to_worker[w], "Drive"))
    BY <2>1, WorkerMail
  <2>3. /\ MailTaken(w) /\ \A v \in Workers \ {w} : to_worker'[v] = to_worker[v]
    BY <2>1, WorkerTakes
  <2>4. ~HasMessage(to_worker[w], "Drive") /\ ~start_driving[w] /\ executor_future[w] = "none"
    BY <2>2 DEF BarrierInv, OneReasonToDrive
  <2> QED
    BY <1>1, <1>2, <2>1, <2>2, <2>3, <2>4 DEF Resting
<1>4. CASE WakeupToDrive(w)
  <2>1. /\ start_driving[w] /\ timers[w] > 0 /\ DriveOn(w, timers[w] - 1)
        /\ start_driving' = [start_driving EXCEPT ![w] = FALSE]
        /\ UNCHANGED <<coordinatorVars, to_worker, taken>>
    BY <1>4 DEF WakeupToDrive
  <2>2. ~HasMessage(to_worker[w], "Drive") /\ executor_future[w] = "none"
    BY <2>1 DEF BarrierInv, OneReasonToDrive
  <2> QED
    BY <1>1, <1>2, <2>1, <2>2 DEF Resting
<1>5. CASE CheckDone(w)
  <2>1. /\ executor_future[w] = "done" /\ DriveOn(w, timers[w])
        /\ UNCHANGED <<coordinatorVars, start_driving, to_worker, taken>>
    BY <1>5 DEF CheckDone, Handled
  <2>2. ~HasMessage(to_worker[w], "Drive") /\ ~start_driving[w]
    BY <2>1 DEF BarrierInv, OneReasonToDrive
  <2> QED
    BY <1>1, <1>2, <2>1, <2>2 DEF Resting
<1> QED
  BY <1>3, <1>4, <1>5 DEF DriveSteps

\* drive() goes to a later row; it is a join row exactly when the worker
\* reaches one more join point, and then it says so.
LEMMA DriveOnRow ==
    ASSUME TypeOK, NEW w \in Workers, NEW pending \in Nat, DriveOn(w, pending)
    PROVE  LET j == current_task_index'[w]
           IN  /\ j \in Rows /\ j > current_task_index[w]
               /\ \A v \in Workers \ {w} : current_task_index'[v] = current_task_index[v]
               /\ \/ IsJoinRow(j) /\ AtStep(w)' = AtStep(w) + 1 /\ DriveToJoinPoint(w, j, pending)
                  \/ ~IsJoinRow(j) /\ AtStep(w)' = AtStep(w) /\ DriveSkips(w, j, pending)
                  \/ ~IsJoinRow(j) /\ AtStep(w)' = AtStep(w) /\ DriveExecutor(w, j, pending)
<1>1. PICK j \in Rows :
        /\ IsNextRow(w, j)
        /\ current_task_index' = [current_task_index EXCEPT ![w] = j]
        /\ DriveToJoinPoint(w, j, pending) \/ DriveSkips(w, j, pending) \/ DriveExecutor(w, j, pending)
  BY DEF DriveOn
<1>2. current_task_index[w] \in 0 .. NumRows /\ current_task_index'[w] = j
        /\ \A v \in Workers \ {w} : current_task_index'[v] = current_task_index[v]
  BY <1>1 DEF TypeOK
<1>3. AtStep(w)' = IF IsJoinPoint(w, j) THEN AtStep(w) + 1 ELSE AtStep(w)
  BY <1>1, <1>2, NextRowJoinCount DEF AtStep, JoinPointsUpTo
<1>4. IsJoinPoint(w, j) <=> IsJoinRow(j)
  BY <1>1, JoinRowForAll DEF IsNextRow
<1>5. j > current_task_index[w]
  BY <1>1 DEF IsNextRow
<1> QED
  BY <1>1, <1>2, <1>3, <1>4, <1>5 DEF DriveToJoinPoint, DriveSkips, DriveExecutor

\* Every step keeps StartsFirst.
LEMMA StartsStep ==
    ASSUME TypeOK, BarrierInv, \A v \in Workers : StartsFirst(v), [Next]_vars
    PROVE  \A v \in Workers : StartsFirst(v)'
<1> USE DEF coordinatorVars, workerVars, clientVars
<1>1. ASSUME UNCHANGED <<to_worker, current_task_index>> PROVE \A v \in Workers : StartsFirst(v)'
  BY <1>1, StartsFirstKept
<1>2. ASSUME NEW w \in Workers, DriveSteps(w) PROVE \A v \in Workers : StartsFirst(v)'
  <2>1. PICK pending \in Nat : DriveOn(w, pending)
    BY <1>2, Driven
  <2>2. /\ MailTaken(w) \/ to_worker'[w] = to_worker[w]
        /\ \A v \in Workers \ {w} : to_worker'[v] = to_worker[v]
    BY <1>2, Driven
  <2>3. current_task_index'[w] # 0 /\ \A v \in Workers \ {w} : current_task_index'[v] = current_task_index[v]
    BY <2>1, DriveOnRow DEF Rows
  <2> QED
    BY <2>2, <2>3, StartsFirstKept
<1>3. ASSUME NEW w \in Workers, NEW t \in {"Drive", "CompleteCurrentTask", "BenchmarkFailure"},
             WorkerReceives(w, t), UNCHANGED current_task_index
      PROVE  \A v \in Workers : StartsFirst(v)'
  BY <1>3, WorkerTakes, StartsFirstKept
<1>4. ASSUME NEW w \in Workers, WorkerDrive(w) \/ WorkerCompleteCurrentTask(w) \/ WorkerForwardsFailure(w)
      PROVE  \A v \in Workers : StartsFirst(v)'
  BY <1>3, <1>4 DEF WorkerDrive, WorkerCompleteCurrentTask, WorkerForwardsFailure
<1>5. ASSUME NEW w \in Workers, JoinPointPending(w) PROVE \A v \in Workers : StartsFirst(v)'
  <2>1. UNCHANGED current_task_index /\ (UNCHANGED to_worker \/ \A v \in Workers : MailTo(v, "CompleteCurrentTask"))
    BY <1>5 DEF JoinPointPending, MailTo
  <2> QED
    BY <1>1, <2>1, StartsFirstKept
<1>6. ASSUME NEW w \in Workers, JoinPointRaises(w) PROVE \A v \in Workers : StartsFirst(v)'
  <2>1. /\ UNCHANGED current_task_index /\ MailTo(w, "BenchmarkFailure")
        /\ \A v \in Workers \ {w} : to_worker'[v] = to_worker[v]
    BY <1>6 DEF JoinPointRaises, MailTo, TypeOK
  <2> QED
    BY <2>1, StartsFirstKept
<1>7. ASSUME NEW w \in Workers, MoveToNextTask(w) PROVE \A v \in Workers : StartsFirst(v)'
  <2>1. UNCHANGED current_task_index /\ \A v \in Workers : MailTo(v, "Drive")
    BY <1>7 DEF MoveToNextTask, StepCompleted, MailTo
  <2> QED
    BY <2>1, StartsFirstKept
<1>8. CASE MasterWakeup \/ UNCHANGED vars
  BY <1>1, <1>8 DEF MasterWakeup, vars
<1>9. ASSUME NEW w \in Workers, \/ BenchmarkCompleted(w) \/ MasterUpdateSamples(w) \/ MasterReceivesFailure(w)
                                \/ ChildActorExited(w) \/ WorkerExits(w) \/ ExecutorFinishes(w)
                                \/ WakeupToCheck(w) \/ CheckFailed(w) \/ CheckBusy(w)
      PROVE  \A v \in Workers : StartsFirst(v)'
  BY <1>1, <1>9 DEF BenchmarkCompleted, StepCompleted, MasterUpdateSamples, MasterReceivesFailure, ChildActorExited,
     WorkerExits, ExecutorFinishes, WakeupToCheck, CheckFailed, CheckBusy, Handled
<1>10. ASSUME NEW c \in Clients, Client(c) \/ ClientRaises(c) PROVE \A v \in Workers : StartsFirst(v)'
  BY <1>1, <1>10 DEF Client, ClientContinues, ClientFinishes, ClientRaises
<1> QED
  BY <1>2, <1>4, <1>5, <1>6, <1>7, <1>8, <1>9, <1>10
     DEF Next, Coordinator, WorkerMailbox, WorkerWakeup, DriveSteps

-----------------------------------------------------------------------------
(* Waiting at a join point *)

\* The message of send_samples
Update(w) == [type |-> "UpdateSamples", samples |-> sampler[w], profile |-> profile_sampler[w]]

\* send_samples sends it, or there is nothing to send.
LEMMA SamplesMailed ==
    ASSUME TypeOK, NEW w \in Workers
    PROVE  /\ Update(w) \in WorkerMessages /\ Update(w).type = "UpdateSamples"
           /\ \/ sampler[w] = <<>> /\ to_master[w] \o SamplesMessage(w) = to_master[w]
              \/ sampler[w] # <<>> /\ to_master[w] \o SamplesMessage(w) = Append(to_master[w], Update(w))
<1>1. Update(w) \in WorkerMessages /\ Update(w).type = "UpdateSamples"
  BY DEF TypeOK, WorkerMessages, Update
<1>2. to_master[w] \in Seq(WorkerMessages)
  BY DEF TypeOK
<1>3. SamplesMessage(w) = IF sampler[w] = <<>> THEN <<>> ELSE <<Update(w)>>
  BY DEF SamplesMessage, Update
<1> HIDE DEF WorkerMessages, Update
<1>4. to_master[w] \o <<>> = to_master[w] /\ to_master[w] \o <<Update(w)>> = Append(to_master[w], Update(w))
  BY <1>1, <1>2
<1> QED
  BY <1>1, <1>3, <1>4

\* What a step does to the messages of worker v.
Sends(v, m) == m \in WorkerMessages /\ to_master'[v] = Append(to_master[v], m)
Handles(v) == to_master[v] # <<>> /\ to_master'[v] = Tail(to_master[v])

\* What is where among them afterwards.
LEMMA ReportPositions ==
    ASSUME TypeOK, NEW v \in Workers
    PROVE  LET q == to_master[v]
           IN  /\ Len(q) \in Nat
               /\ \A m : Sends(v, m) => /\ Len(q') = Len(q) + 1 /\ q'[Len(q) + 1] = m
                                        /\ \A i \in 1 .. Len(q) : q'[i] = q[i]
               /\ Handles(v) => /\ Len(q') = Len(q) - 1 /\ Len(q) > 0 /\ Head(q) = q[1]
                                /\ \A i \in 1 .. Len(q) - 1 : q'[i] = q[i + 1]
<1>1. to_master[v] \in Seq(WorkerMessages)
  BY DEF TypeOK
<1> HIDE DEF WorkerMessages
<1> DEFINE q == to_master[v]
<1>2. ASSUME NEW m, Sends(v, m)
      PROVE  Len(q') = Len(q) + 1 /\ q'[Len(q) + 1] = m /\ \A i \in 1 .. Len(q) : q'[i] = q[i]
  BY <1>1, <1>2, Positions DEF Sends
<1>3. ASSUME Handles(v)
      PROVE  /\ Len(q') = Len(q) - 1 /\ Len(q) > 0 /\ Head(q) = q[1]
             /\ \A i \in 1 .. Len(q) - 1 : q'[i] = q[i + 1]
  BY <1>1, <1>3, Positions DEF Handles
<1> QED
  BY <1>1, <1>2, <1>3, Positions

\* The master handles the first message of a worker.
LEMMA MasterTakes ==
    ASSUME TypeOK, NEW w \in Workers, NEW t, MasterReceives(w, t)
    PROVE  /\ Handles(w) /\ Head(to_master[w]).type = t
           /\ \A v \in Workers \ {w} : to_master'[v] = to_master[v]
<1>1. to_master \in [Workers -> Seq(WorkerMessages)]
  BY DEF TypeOK
<1> QED
  BY <1>1 DEF MasterReceives, Handles

\* The failure a worker reports is a message.
LEMMA FailureMessage == [type |-> "BenchmarkFailure"] \in WorkerMessages
BY DEF WorkerMessages

\* What keeps the row of a report.
LEMMA ReportsRowKept ==
    ASSUME TypeOK, NEW v \in Workers, ReportsRow(v), current_task_index'[v] = current_task_index[v]
    PROVE  /\ to_master'[v] = to_master[v] \/ Handles(v) => ReportsRow(v)'
           /\ \A m : Sends(v, m) /\ m.type # "JoinPointReached" => ReportsRow(v)'
<1> USE ReportPositions
<1>1. to_master'[v] = to_master[v] => ReportsRow(v)'
  BY DEF ReportsRow
<1>2. Handles(v) => ReportsRow(v)'
  BY DEF ReportsRow
<1>3. ASSUME NEW m, Sends(v, m), m.type # "JoinPointReached" PROVE ReportsRow(v)'
  BY <1>3 DEF ReportsRow
<1> QED
  BY <1>1, <1>2, <1>3

\* drive() leaves a report of the join row it has reached, and no other.
LEMMA WaitsDrive ==
    ASSUME TypeOK, BarrierInv, NEW w \in Workers, DriveSteps(w)
    PROVE  ReportsRow(w)' /\ (Waits(w)' => AtJoinRow(w)')
           /\ \A v \in Workers \ {w} : AtStep(v)' = AtStep(v) /\ to_master'[v] = to_master[v]
<1> DEFINE j == current_task_index'[w]
<1>1. PICK pending \in Nat : DriveOn(w, pending)
  BY Driven
<1>2. /\ UNCHANGED current_step /\ AtStep(w) = current_step + 1 /\ ~HasMessage(to_master[w], "JoinPointReached")
      /\ ~HasMessage(to_worker'[w], "Drive") /\ ~start_driving'[w]
  BY Driven DEF coordinatorVars
<1>3. /\ j \in Rows
      /\ \/ IsJoinRow(j) /\ AtStep(w)' = AtStep(w) + 1 /\ DriveToJoinPoint(w, j, pending)
         \/ ~IsJoinRow(j) /\ AtStep(w)' = AtStep(w) /\ DriveSkips(w, j, pending)
         \/ ~IsJoinRow(j) /\ AtStep(w)' = AtStep(w) /\ DriveExecutor(w, j, pending)
  BY <1>1, DriveOnRow
<1>4. \A v \in Workers \ {w} : AtStep(v)' = AtStep(v) /\ to_master'[v] = to_master[v]
  BY <1>1, DriveOnEffect
<1>5. current_step \in Nat \union {-1}
  BY DEF TypeOK
<1>6. CASE IsJoinRow(j) /\ DriveToJoinPoint(w, j, pending)
  <2> DEFINE q == to_master[w] \o SamplesMessage(w)
             m == [type |-> "JoinPointReached", row |-> j]
  <2>1. q \in Seq(WorkerMessages) /\ ~HasMessage(q, "JoinPointReached")
    BY <1>2, SamplesSent
  <2>2. to_master \in [Workers -> Seq(WorkerMessages)]
    BY DEF TypeOK
  <2>3. m \in WorkerMessages /\ m.row = j
    BY <1>3 DEF WorkerMessages
  <2>4. to_master' = [to_master EXCEPT ![w] = q \o <<m>>]
    BY <1>6 DEF DriveToJoinPoint
  <2> HIDE DEF q, m, WorkerMessages
  <2>5. to_master'[w] = Append(q, m)
    BY <2>1, <2>2, <2>3, <2>4
  <2>6. /\ Len(to_master'[w]) = Len(q) + 1 /\ Len(q) \in Nat /\ to_master'[w][Len(q) + 1] = m
        /\ \A i \in 1 .. Len(q) : to_master'[w][i] = q[i]
    BY <2>1, <2>3, <2>5, Positions
  <2>7. ReportsRow(w)'
    BY <2>1, <2>3, <2>6 DEF ReportsRow, HasMessage
  <2> QED
    BY <1>3, <1>4, <1>6, <2>7 DEF AtJoinRow
<1>7. CASE ~IsJoinRow(j)
  <2>1. to_master' = to_master /\ AtStep(w)' = AtStep(w)
    BY <1>3, <1>7 DEF DriveSkips, DriveExecutor
  <2> QED
    BY <1>2, <1>4, <1>5, <2>1 DEF ReportsRow, HasMessage, Waits
<1> QED
  BY <1>3, <1>6, <1>7

\* A worker that does not move keeps what it waits for.
LEMMA WaitsKept ==
    ASSUME NEW v \in Workers, Waits(v) => AtJoinRow(v), UNCHANGED <<current_step, current_task_index>>,
           start_driving'[v] => start_driving[v] \/ HasMessage(to_worker[v], "Drive"),
           HasMessage(to_worker'[v], "Drive") => HasMessage(to_worker[v], "Drive")
    PROVE  Waits(v)' => AtJoinRow(v)'
BY DEF Waits, AtJoinRow, AtStep

\* Every step keeps WaitsAtJoinPoint.
LEMMA WaitsStep ==
    ASSUME TypeOK, BarrierInv, \A v \in Workers : WaitsAtJoinPoint(v), [Next]_vars
    PROVE  \A v \in Workers : WaitsAtJoinPoint(v)'
<1> USE DEF coordinatorVars, workerVars, clientVars
<1>1. to_master \in [Workers -> Seq(WorkerMessages)] /\ start_driving \in [Workers -> BOOLEAN]
  BY DEF TypeOK
<1>2. ASSUME UNCHANGED <<current_step, current_task_index, start_driving, to_worker>>,
             \A v \in Workers : ReportsRow(v)'
      PROVE  \A v \in Workers : WaitsAtJoinPoint(v)'
  BY <1>2, WaitsKept DEF WaitsAtJoinPoint
<1>3. ASSUME NEW w \in Workers, DriveSteps(w) PROVE \A v \in Workers : WaitsAtJoinPoint(v)'
  <2>1. PICK pending \in Nat : DriveOn(w, pending)
    BY <1>3, Driven
  <2>2. /\ UNCHANGED current_step
        /\ \A v \in Workers \ {w} : /\ to_worker'[v] = to_worker[v] /\ start_driving'[v] = start_driving[v]
                                    /\ current_task_index'[v] = current_task_index[v]
    BY <1>3, <2>1, Driven, DriveOnRow
  <2>3. \A v \in Workers \ {w} : AtStep(v)' = AtStep(v) /\ to_master'[v] = to_master[v]
    BY <1>3, WaitsDrive
  <2>4. WaitsAtJoinPoint(w)'
    BY <1>3, WaitsDrive DEF WaitsAtJoinPoint
  <2> QED
    BY <2>2, <2>3, <2>4 DEF WaitsAtJoinPoint, Waits, AtJoinRow, ReportsRow
<1>4. ASSUME NEW w \in Workers, WorkerDrive(w) PROVE \A v \in Workers : WaitsAtJoinPoint(v)'
  <2>1. /\ UNCHANGED <<current_step, current_task_index, to_master>>
        /\ start_driving' = [start_driving EXCEPT ![w] = TRUE] /\ WorkerReceives(w, "Drive")
    BY <1>4 DEF WorkerDrive
  <2>2. HasMessage(to_worker[w], "Drive") /\ \A v \in Workers :
          HasMessage(to_worker'[v], "Drive") => HasMessage(to_worker[v], "Drive")
    BY <2>1, WorkerMail
  <2> QED
    BY <1>1, <2>1, <2>2, WaitsKept DEF WaitsAtJoinPoint, ReportsRow
<1>5. ASSUME NEW w \in Workers, WorkerCompleteCurrentTask(w) \/ WorkerForwardsFailure(w)
      PROVE  \A v \in Workers : WaitsAtJoinPoint(v)'
  <2>1. /\ UNCHANGED <<current_step, current_task_index, start_driving>>
        /\ \E t : WorkerReceives(w, t)
        /\ to_master' = to_master \/ to_master' = [to_master EXCEPT ![w] = Append(@, [type |-> "BenchmarkFailure"])]
    BY <1>5 DEF WorkerCompleteCurrentTask, WorkerForwardsFailure
  <2>2. \A v \in Workers : HasMessage(to_worker'[v], "Drive") => HasMessage(to_worker[v], "Drive")
    BY <2>1, WorkerMail
  <2>3. \A v \in Workers : to_master'[v] = to_master[v] \/ Sends(v, [type |-> "BenchmarkFailure"])
    BY <1>1, <2>1, FailureMessage DEF Sends
  <2>4. \A v \in Workers : ReportsRow(v)'
    BY <2>1, <2>3, ReportsRowKept DEF WaitsAtJoinPoint
  <2> QED
    BY <2>1, <2>2, <2>4, WaitsKept DEF WaitsAtJoinPoint
<1>6. ASSUME NEW w \in Workers, CheckFailed(w) \/ CheckBusy(w) PROVE \A v \in Workers : WaitsAtJoinPoint(v)'
  <2>1. /\ UNCHANGED <<current_step, current_task_index, start_driving, to_worker>>
        /\ to_master' = to_master \/ to_master' = [to_master EXCEPT ![w] = Append(@, [type |-> "BenchmarkFailure"])]
    BY <1>6 DEF CheckFailed, CheckBusy, Handled
  <2>2. \A v \in Workers : to_master'[v] = to_master[v] \/ Sends(v, [type |-> "BenchmarkFailure"])
    BY <1>1, <2>1, FailureMessage DEF Sends
  <2>3. \A v \in Workers : ReportsRow(v)'
    BY <2>1, <2>2, ReportsRowKept DEF WaitsAtJoinPoint
  <2> QED
    BY <1>2, <2>1, <2>3
<1>7. ASSUME NEW w \in Workers, WakeupToCheck(w) PROVE \A v \in Workers : WaitsAtJoinPoint(v)'
  <2>1. /\ UNCHANGED <<current_step, current_task_index, start_driving, to_worker>>
        /\ to_master' = [to_master EXCEPT ![w] = to_master[w] \o SamplesMessage(w)]
    BY <1>7 DEF WakeupToCheck
  <2>2. \A v \in Workers : to_master'[v] = to_master[v] \/ Sends(v, Update(v))
    BY <1>1, <2>1, SamplesMailed DEF Sends
  <2>3. \A v \in Workers : Update(v).type # "JoinPointReached"
    BY SamplesMailed
  <2>4. \A v \in Workers : ReportsRow(v)'
    BY <2>1, <2>2, <2>3, ReportsRowKept DEF WaitsAtJoinPoint
  <2> QED
    BY <1>2, <2>1, <2>4
<1>8. ASSUME NEW w \in Workers, NEW t, MasterReceives(w, t), UNCHANGED current_task_index
      PROVE  \A v \in Workers : ReportsRow(v)'
  BY <1>8, MasterTakes, ReportsRowKept DEF WaitsAtJoinPoint
<1>9. ASSUME NEW w \in Workers, JoinPointPending(w) \/ JoinPointRaises(w) PROVE \A v \in Workers : WaitsAtJoinPoint(v)'
  <2>1. /\ UNCHANGED <<current_step, current_task_index, start_driving>>
        /\ MasterReceives(w, "JoinPointReached")
        /\ \A v \in Workers : to_worker'[v] = to_worker[v]
                              \/ \E t \in {"CompleteCurrentTask", "BenchmarkFailure"} :
                                    to_worker'[v] = Append(to_worker[v], [type |-> t])
    BY <1>9 DEF JoinPointPending, JoinPointRaises, AllWorkersReached, TypeOK
  <2>2. \A v \in Workers : HasMessage(to_worker'[v], "Drive") => HasMessage(to_worker[v], "Drive")
    BY <2>1, WorkerSent
  <2>3. \A v \in Workers : ReportsRow(v)'
    BY <1>8, <2>1
  <2> QED
    BY <2>1, <2>2, <2>3, WaitsKept DEF WaitsAtJoinPoint
<1>10. ASSUME NEW w \in Workers, MoveToNextTask(w) \/ BenchmarkCompleted(w)
       PROVE  \A v \in Workers : WaitsAtJoinPoint(v)'
  <2>1. LastWorker /\ MasterReceives(w, "JoinPointReached") /\ UNCHANGED current_task_index
    BY <1>10 DEF MoveToNextTask, BenchmarkCompleted, StepCompleted, AllWorkersReached
  <2>2. \A v \in Workers : AtStep(v) = current_step + 2
    BY <2>1, LastWorkerReaches
  <2>3. \A v \in Workers : AtJoinRow(v)'
    BY <2>1, <2>2 DEF WaitsAtJoinPoint, Waits, AtJoinRow
  <2> QED
    BY <1>8, <2>1, <2>3 DEF WaitsAtJoinPoint
<1>11. ASSUME NEW w \in Workers, MasterUpdateSamples(w) \/ MasterReceivesFailure(w)
       PROVE  \A v \in Workers : WaitsAtJoinPoint(v)'
  BY <1>2, <1>8, <1>11 DEF MasterUpdateSamples, MasterReceivesFailure
<1>12. ASSUME UNCHANGED <<current_step, current_task_index, start_driving, to_worker, to_master>>
       PROVE  \A v \in Workers : WaitsAtJoinPoint(v)'
  BY <1>2, <1>12 DEF WaitsAtJoinPoint, ReportsRow
<1>13. CASE MasterWakeup \/ UNCHANGED vars
  BY <1>12, <1>13 DEF MasterWakeup, vars
<1>14. ASSUME NEW w \in Workers, ChildActorExited(w) \/ WorkerExits(w) \/ ExecutorFinishes(w)
       PROVE  \A v \in Workers : WaitsAtJoinPoint(v)'
  BY <1>12, <1>14 DEF ChildActorExited, WorkerExits, ExecutorFinishes
<1>15. ASSUME NEW c \in Clients, Client(c) \/ ClientRaises(c) PROVE \A v \in Workers : WaitsAtJoinPoint(v)'
  BY <1>12, <1>15 DEF Client, ClientContinues, ClientFinishes, ClientRaises
<1> QED
  BY <1>3, <1>4, <1>5, <1>6, <1>7, <1>9, <1>10, <1>11, <1>13, <1>14, <1>15
     DEF Next, Coordinator, WorkerMailbox, WorkerWakeup, DriveSteps

-----------------------------------------------------------------------------
(* Completing a task *)

\* The clients a join row names are clients.
LEMMA CompletingClients ==
    ASSUME NEW r \in Rows, IsJoinRow(r), NEW c \in Clients
    PROVE  Allocations[c][r].completing \subseteq Clients /\ Allocations[c][r].kind = "join"
<1>1. Allocations[c][r].kind = "join"
  BY MatrixAssumption DEF IsJoinRow
<1>2. Allocations[c][r] \in Tasks \union JoinPoints \union {NoTask}
  BY MatrixAssumption
<1> QED
  BY <1>1, <1>2 DEF Tasks, JoinPoints, NoTask

\* Workers do not leave the join point they wait at, before it is released.
LEMMA StepCompletesKept ==
    ASSUME StepCompletes, UNCHANGED current_step,
           \A v \in Workers : AtStep(v) = current_step + 2 => AtStep(v)' = AtStep(v)
    PROVE  StepCompletes'
<1>1. PICK r \in Rows :
        /\ IsJoinRow(r) /\ JoinPointsUpTo(r) = current_step + 2
        /\ \E c \in Clients : Allocations[c][r].completing # {}
        /\ \A c \in Clients : \A d \in Allocations[c][r].completing : AtStep(AssignedWorker[d]) = current_step + 2
  BY DEF StepCompletes
<1>2. ASSUME NEW c \in Clients, NEW d \in Allocations[c][r].completing
      PROVE  AtStep(AssignedWorker[d])' = (current_step + 2)'
  <2>1. AssignedWorker[d] \in Workers
    BY <1>1, CompletingClients, AssignmentAssumption
  <2>2. AtStep(AssignedWorker[d]) = current_step + 2
    BY <1>1
  <2>3. AtStep(AssignedWorker[d])' = AtStep(AssignedWorker[d])
    BY <2>1, <2>2
  <2> QED
    BY <2>2, <2>3
<1> QED
  BY <1>1, <1>2 DEF StepCompletes

\* What keeps the reason of a CompleteCurrentTask.
LEMMA CompletesKept ==
    ASSUME TypeOK, NEW v \in Workers, CompletesItsStep(v), StepCompletes => StepCompletes', UNCHANGED current_step
    PROVE  /\ to_worker'[v] = to_worker[v] => CompletesItsStep(v)'
           /\ MailTaken(v) => CompletesItsStep(v)'
           /\ MailTo(v, "BenchmarkFailure") => CompletesItsStep(v)'
           /\ MailTo(v, "CompleteCurrentTask") /\ StepCompletes' => CompletesItsStep(v)'
<1> USE MailPositions
<1>1. to_worker'[v] = to_worker[v] => CompletesItsStep(v)'
  BY DEF CompletesItsStep
<1>2. ASSUME MailTaken(v), NEW i \in 1 .. Len(to_worker'[v]), to_worker'[v][i].type = "CompleteCurrentTask"
      PROVE  \/ \E j \in i + 1 .. Len(to_worker'[v]) : to_worker'[v][j].type = "Drive"
             \/ StepCompletes' \/ current_step' = NumberOfSteps
  <2>1. i + 1 \in 1 .. Len(to_worker[v]) /\ to_worker[v][i + 1].type = "CompleteCurrentTask"
    BY <1>2
  <2>2. CASE \E j \in i + 2 .. Len(to_worker[v]) : to_worker[v][j].type = "Drive"
    <3>1. PICK j \in i + 2 .. Len(to_worker[v]) : to_worker[v][j].type = "Drive"
      BY <2>2
    <3>2. j - 1 \in i + 1 .. Len(to_worker'[v]) /\ to_worker'[v][j - 1] = to_worker[v][j]
      BY <1>2, <3>1
    <3> QED
      BY <3>1, <3>2
  <2> QED
    BY <2>1, <2>2 DEF CompletesItsStep
<1>3. MailTaken(v) => CompletesItsStep(v)'
  BY <1>2 DEF CompletesItsStep
<1>4. ASSUME MailTo(v, "BenchmarkFailure") PROVE CompletesItsStep(v)'
  <2>1. /\ Len(to_worker[v]) \in Nat /\ Len(to_worker'[v]) = Len(to_worker[v]) + 1
        /\ to_worker'[v][Len(to_worker[v]) + 1].type = "BenchmarkFailure"
        /\ \A i \in 1 .. Len(to_worker[v]) : to_worker'[v][i] = to_worker[v][i]
    BY <1>4
  <2> QED
    BY <2>1 DEF CompletesItsStep
<1>5. MailTo(v, "CompleteCurrentTask") /\ StepCompletes' => CompletesItsStep(v)'
  BY DEF CompletesItsStep
<1> QED
  BY <1>1, <1>3, <1>4, <1>5

\* may_complete_current_task is right about the completing task.
LEMMA CompletedEverywhere ==
    ASSUME TypeOK, BarrierInv, NEW w \in Workers, WaitsAtJoinPoint(w), MasterReceives(w, "JoinPointReached"),
           MayCompleteCurrentTask(workers_completed_current_step \union {w}, Head(to_master[w]).row),
           UNCHANGED <<current_step, current_task_index>>
    PROVE  StepCompletes'
<1> DEFINE r == Head(to_master[w]).row
<1>1. HasMessage(to_master[w], "JoinPointReached") /\ Head(to_master[w]).type = "JoinPointReached" /\ Handles(w)
  BY MasterMail, MasterTakes
<1>2. /\ AtStep(w) = current_step + 2
      /\ \A v \in workers_completed_current_step : AtStep(v) = current_step + 2
  BY <1>1 DEF BarrierInv, LockInv, LockstepOf, TypeOK
<1>3. r = current_task_index[w]
  BY <1>1, ReportPositions DEF WaitsAtJoinPoint, ReportsRow
<1>4. r \in Rows /\ IsJoinRow(r) /\ JoinPointsUpTo(r) = current_step + 2
  BY <1>2, <1>3 DEF WaitsAtJoinPoint, Waits, AtJoinRow, AtStep
<1> HIDE DEF r
<1>5. /\ \E c \in Clients : Allocations[c][r].completing # {}
      /\ \A c \in Clients : \A d \in Allocations[c][r].completing :
            AssignedWorker[d] \in workers_completed_current_step \union {w}
  BY DEF MayCompleteCurrentTask, r
<1>6. \A v \in Workers : AtStep(v)' = AtStep(v)
  BY DEF AtStep
<1>7. \A c \in Clients : \A d \in Allocations[c][r].completing : AtStep(AssignedWorker[d])' = (current_step + 2)'
  BY <1>2, <1>5, <1>6 DEF TypeOK
<1> QED
  BY <1>4, <1>5, <1>7 DEF StepCompletes

\* Every step keeps CompletesItsStep.
LEMMA CompletesStep ==
    ASSUME TypeOK, BarrierInv, [Next]_vars,
           \A v \in Workers : WaitsAtJoinPoint(v) /\ CompletesItsStep(v)
    PROVE  \A v \in Workers : CompletesItsStep(v)'
<1> USE DEF coordinatorVars, workerVars, clientVars
<1>1. to_worker \in [Workers -> Seq(CoordinatorMessages)] /\ current_step \in Nat \union {-1}
  BY DEF TypeOK
<1>2. ASSUME UNCHANGED <<current_step, current_task_index>> PROVE StepCompletes => StepCompletes'
  BY <1>2, StepCompletesKept DEF AtStep
<1>3. ASSUME UNCHANGED <<current_step, current_task_index, to_worker>> PROVE \A v \in Workers : CompletesItsStep(v)'
  BY <1>2, <1>3, CompletesKept
<1>4. ASSUME NEW w \in Workers, DriveSteps(w) PROVE \A v \in Workers : CompletesItsStep(v)'
  <2>1. /\ UNCHANGED current_step /\ AtStep(w) = current_step + 1
        /\ MailTaken(w) \/ to_worker'[w] = to_worker[w]
        /\ \A v \in Workers \ {w} : to_worker'[v] = to_worker[v] /\ AtStep(v)' = AtStep(v)
    BY <1>4, Driven, WaitsDrive
  <2>2. StepCompletes => StepCompletes'
    BY <1>1, <2>1, StepCompletesKept
  <2> QED
    BY <2>1, <2>2, CompletesKept
<1>5. ASSUME NEW w \in Workers, WorkerDrive(w) \/ WorkerCompleteCurrentTask(w) \/ WorkerForwardsFailure(w)
      PROVE  \A v \in Workers : CompletesItsStep(v)'
  <2>1. UNCHANGED <<current_step, current_task_index>> /\ \E t : WorkerReceives(w, t)
    BY <1>5 DEF WorkerDrive, WorkerCompleteCurrentTask, WorkerForwardsFailure
  <2>2. MailTaken(w) /\ \A v \in Workers \ {w} : to_worker'[v] = to_worker[v]
    BY <2>1, WorkerTakes
  <2> QED
    BY <1>2, <2>1, <2>2, CompletesKept
<1>6. ASSUME NEW w \in Workers, JoinPointPending(w) PROVE \A v \in Workers : CompletesItsStep(v)'
  <2>1. /\ UNCHANGED <<current_step, current_task_index>> /\ MasterReceives(w, "JoinPointReached")
        /\ \/ UNCHANGED to_worker
           \/ /\ MayCompleteCurrentTask(workers_completed_current_step \union {w}, Head(to_master[w]).row)
              /\ \A v \in Workers : MailTo(v, "CompleteCurrentTask")
    BY <1>6 DEF JoinPointPending, MailTo
  <2>2. CASE UNCHANGED to_worker
    BY <1>3, <2>1, <2>2
  <2>3. CASE StepCompletes' /\ \A v \in Workers : MailTo(v, "CompleteCurrentTask")
    BY <2>1, <2>3, CompletesKept
  <2> QED
    BY <2>1, <2>2, <2>3, CompletedEverywhere
<1>7. ASSUME NEW w \in Workers, JoinPointRaises(w) PROVE \A v \in Workers : CompletesItsStep(v)'
  <2>1. /\ UNCHANGED <<current_step, current_task_index>> /\ MailTo(w, "BenchmarkFailure")
        /\ \A v \in Workers \ {w} : to_worker'[v] = to_worker[v]
    BY <1>1, <1>7 DEF JoinPointRaises, MailTo
  <2> QED
    BY <1>2, <2>1, CompletesKept
<1>8. ASSUME NEW w \in Workers, MoveToNextTask(w) PROVE \A v \in Workers : CompletesItsStep(v)'
  <2>1. \A v \in Workers : MailTo(v, "Drive")
    BY <1>8 DEF MoveToNextTask, MailTo
  <2>2. ASSUME NEW v \in Workers PROVE CompletesItsStep(v)'
    <3>1. /\ Len(to_worker[v]) \in Nat /\ Len(to_worker'[v]) = Len(to_worker[v]) + 1
          /\ to_worker'[v][Len(to_worker[v]) + 1].type = "Drive"
      BY <2>1, MailPositions
    <3> QED
      BY <3>1 DEF CompletesItsStep
  <2> QED
    BY <2>2
<1>9. ASSUME NEW w \in Workers, BenchmarkCompleted(w) PROVE \A v \in Workers : CompletesItsStep(v)'
  BY <1>9 DEF BenchmarkCompleted, StepCompleted, CompletesItsStep
<1>10. CASE MasterWakeup \/ UNCHANGED vars
  BY <1>3, <1>10 DEF MasterWakeup, vars
<1>11. ASSUME NEW w \in Workers, \/ MasterUpdateSamples(w) \/ MasterReceivesFailure(w)
                                 \/ ChildActorExited(w) \/ WorkerExits(w) \/ ExecutorFinishes(w)
                                 \/ WakeupToCheck(w) \/ CheckFailed(w) \/ CheckBusy(w)
      PROVE  \A v \in Workers : CompletesItsStep(v)'
  BY <1>3, <1>11 DEF MasterUpdateSamples, MasterReceivesFailure, ChildActorExited,
     WorkerExits, ExecutorFinishes, WakeupToCheck, CheckFailed, CheckBusy, Handled
<1>12. ASSUME NEW c \in Clients, Client(c) \/ ClientRaises(c) PROVE \A v \in Workers : CompletesItsStep(v)'
  BY <1>3, <1>12 DEF Client, ClientContinues, ClientFinishes, ClientRaises
<1> QED
  BY <1>4, <1>5, <1>6, <1>7, <1>8, <1>9, <1>10, <1>11, <1>12
     DEF Next, Coordinator, WorkerMailbox, WorkerWakeup, DriveSteps

\* A later join row has a higher number.
LEMMA JoinCountStrict ==
    ASSUME NEW i \in 0 .. NumRows, NEW j \in Rows, i < j, IsJoinRow(j)
    PROVE  JoinCount[i] < JoinCount[j]
<1>1. /\ IsFiniteSet(JoinRows(j)) /\ JoinCount[j] = Cardinality(JoinRows(j)) /\ JoinCount[j] \in Nat
      /\ JoinCount[i] = Cardinality(JoinRows(i)) /\ JoinCount[i] \in Nat
  BY JoinCountType, BoundsAssumption DEF Rows
<1>2. JoinRows(i) \in SUBSET JoinRows(j) /\ JoinRows(i) # JoinRows(j)
  BY BoundsAssumption DEF JoinRows, Rows
<1>3. JoinCount[i] <= JoinCount[j] /\ JoinCount[i] # JoinCount[j]
  BY <1>1, <1>2, FS_Subset
<1> QED
  BY <1>1, <1>3

\* There is one join row of each number, and none after the last row.
LEMMA JoinRowUnique ==
    /\ \A i, j \in Rows : IsJoinRow(i) /\ IsJoinRow(j) /\ JoinCount[i] = JoinCount[j] => i = j
    /\ \A i \in 0 .. NumRows : JoinCount[i] = JoinCount[NumRows] => i = NumRows
    /\ IsJoinRow(NumRows)
<1>1. ASSUME NEW i \in 0 .. NumRows, NEW j \in Rows, i < j, IsJoinRow(j) PROVE JoinCount[i] # JoinCount[j]
  <2>1. JoinCount[i] < JoinCount[j] /\ JoinCount[i] \in Nat
    BY <1>1, JoinCountStrict, JoinCountType
  <2>2. JoinCount[j] \in Nat
    BY JoinCountType DEF Rows
  <2> QED
    BY <2>1, <2>2
<1>2. IsJoinRow(NumRows) /\ NumRows \in Rows
  <2>1. PICK c \in Clients : TRUE
    BY WorkersAssumption, AssignmentAssumption
  <2>2. Allocations[c][NumRows].kind = "join"
    BY MatrixAssumption
  <2> QED
    BY <2>2, BoundsAssumption DEF IsJoinRow, Rows
<1> QED
  BY <1>1, <1>2, BoundsAssumption DEF Rows

Justified(w) ==
    \/ executor_future[w] = "failed"
    \/ \E c \in Completers(w) \intersect ClientsOf(w) : CompletingTaskDone(c, Reached[w])
    \/ Completers(w) # {} /\ \A c \in Completers(w) : CompletingTaskDone(c, Reached[w])

\* The completers of a worker are clients.
LEMMA CompletersAreClients == ASSUME NEW w \in Workers PROVE Completers(w) \subseteq Clients
BY CompletingClients DEF Completers

\* What is done stays done while the worker of the client goes on.
LEMMA DoneKept ==
    ASSUME TypeOK, TypeOK', NEW c \in Clients, NEW k \in Nat,
           current_task_index'[AssignedWorker[c]] >= current_task_index[AssignedWorker[c]],
           \/ current_task_index'[AssignedWorker[c]] > current_task_index[AssignedWorker[c]]
           \/ client[c] = "finished" => client'[c] = "finished",
           CompletingTaskDone(c, k)
    PROVE  CompletingTaskDone(c, k)'
<1> DEFINE index == current_task_index[AssignedWorker[c]]
<1>1. index \in 0 .. NumRows /\ index' \in 0 .. NumRows /\ index' >= index
  BY AssignmentAssumption DEF TypeOK
<1>2. JoinCount[index] <= JoinCount[index'] /\ JoinCount[index] \in Nat /\ JoinCount[index'] \in Nat
  BY <1>1, JoinCountType, BoundsAssumption
<1>3. CASE JoinPointsUpTo(index) > k
  BY <1>2, <1>3 DEF CompletingTaskDone, JoinPointsUpTo
<1>4. CASE \E i \in 1 .. index :
              /\ JoinPointsUpTo(i) = k /\ Allocations[c][i].kind = "task"
              /\ Allocations[c][i].completes
              /\ i < index \/ client[c] = "finished"
  <2>1. PICK i \in 1 .. index :
              /\ JoinPointsUpTo(i) = k /\ Allocations[c][i].kind = "task"
              /\ Allocations[c][i].completes
              /\ i < index \/ client[c] = "finished"
    BY <1>4
  <2>2. i \in 1 .. index' /\ (i < index' \/ client'[c] = "finished")
    BY <1>1, <2>1, BoundsAssumption
  <2> QED
    BY <2>1, <2>2 DEF CompletingTaskDone
<1> QED
  BY <1>3, <1>4 DEF CompletingTaskDone

\* So a reason to complete the tasks of worker w stays one while w does not
\* reach its next join point.
LEMMA JustifiedKept ==
    ASSUME TypeOK, TypeOK', NEW w \in Workers, AtStep(w)' = AtStep(w), Justified(w),
           executor_future[w] = "failed" => executor_future'[w] = "failed",
           \A v \in Workers : current_task_index'[v] >= current_task_index[v],
           \A c \in Clients : \/ current_task_index'[AssignedWorker[c]] > current_task_index[AssignedWorker[c]]
                              \/ client[c] = "finished" => client'[c] = "finished"
    PROVE  Justified(w)'
<1>1. Reached[w] = AtStep(w) /\ Reached'[w] = Reached[w]
  BY DEF Reached, AtStep
<1>2. Completers(w)' = Completers(w)
  BY <1>1 DEF Completers
<1>3. Reached[w] \in Nat
  BY <1>1, JoinCountType DEF AtStep, JoinPointsUpTo, TypeOK
<1>4. \A c \in Clients : CompletingTaskDone(c, Reached[w]) => CompletingTaskDone(c, Reached[w])'
  <2> SUFFICES ASSUME NEW c \in Clients, CompletingTaskDone(c, Reached[w]) PROVE CompletingTaskDone(c, Reached[w])'
    OBVIOUS
  <2> DEFINE k == Reached[w]
  <2>1. k \in Nat /\ k' = k
    BY <1>1, <1>3
  <2>2. AssignedWorker[c] \in Workers
    BY AssignmentAssumption
  <2> QED
    BY <2>1, <2>2, DoneKept
<1> QED
  BY <1>2, <1>4, CompletersAreClients DEF Justified

\* A completing task that finishes, or fails, is a completer of its worker.
LEMMA OwnCompleter ==
    ASSUME TypeOK, RunningInv, NEW c \in Clients, ClientRuns(c), TaskOf(c).completes
    PROVE  LET w == AssignedWorker[c]
           IN  /\ c \in Completers(w) \intersect ClientsOf(w)
               /\ current_task_index[w] \in Rows /\ Allocations[c][current_task_index[w]].kind = "task"
<1> DEFINE w == AssignedWorker[c]
           i == current_task_index[w]
<1>1. w \in Workers /\ i \in Rows /\ Allocations[c][i].kind = "task"
  BY AssignmentAssumption DEF RunningInv, ClientRuns, Executing
<1>2. PICK j \in Rows : /\ IsJoinRow(j) /\ JoinPointsUpTo(j) = JoinPointsUpTo(i) + 1
                        /\ c \in Allocations[c][j].completing
  BY <1>1, CompletersAssumption DEF TaskOf
<1>3. Reached[w] = JoinPointsUpTo(i)
  BY <1>1 DEF Reached
<1>4. c \in Completers(w)
  BY <1>2, <1>3 DEF Completers
<1> QED
  BY <1>1, <1>4 DEF ClientsOf

\* A CompleteCurrentTask that ends the tasks of a worker was sent for them.
LEMMA LateCompletion ==
    ASSUME TypeOK, BarrierInv, NEW w \in Workers, WorkerReceives(w, "CompleteCurrentTask"),
           StartsFirst(w), WaitsAtJoinPoint(w), CompletesItsStep(w), ~IsJoinPoint(w, current_task_index[w])
    PROVE  Completers(w) # {} /\ \A c \in Completers(w) : CompletingTaskDone(c, Reached[w])
<1> DEFINE i == current_task_index[w]
<1>1. MailTaken(w) /\ Head(to_worker[w]).type = "CompleteCurrentTask"
  BY WorkerTakes
<1>2. to_worker[w][1].type = "CompleteCurrentTask" /\ 1 \in 1 .. Len(to_worker[w])
  BY <1>1, MailPositions
<1>3. i \in Rows
  BY <1>2, BoundsAssumption DEF StartsFirst, HasMessage, TypeOK, Rows
<1>4. ~IsJoinRow(i)
  BY <1>3, JoinRowForAll
<1>5. ~Waits(w)
  BY <1>4 DEF WaitsAtJoinPoint, AtJoinRow
<1>6. Reached[w] = AtStep(w) /\ AtStep(w) = current_step + 1 /\ current_step \in Nat \union {-1}
  BY <1>5 DEF Waits, BarrierInv, LockInv, LockstepOf, Reached, AtStep, TypeOK
<1>7. current_step # NumberOfSteps
  <2>1. JoinCount[i] \in Nat /\ JoinCount[NumRows] \in Nat /\ i \in 0 .. NumRows /\ i # NumRows
    BY <1>3, <1>4, JoinCountType, JoinRowUnique, BoundsAssumption DEF Rows
  <2>2. JoinCount[i] # JoinCount[NumRows]
    BY <2>1, JoinRowUnique
  <2> QED
    BY <1>6, <2>1, <2>2 DEF NumberOfSteps, NumJoinPoints, JoinPointsUpTo, AtStep
<1>8. StepCompletes
  BY <1>2, <1>5, <1>7 DEF CompletesItsStep, Waits, HasMessage
<1>9. PICK r \in Rows :
        /\ IsJoinRow(r) /\ JoinPointsUpTo(r) = current_step + 2
        /\ \E c \in Clients : Allocations[c][r].completing # {}
        /\ \A c \in Clients : \A d \in Allocations[c][r].completing : AtStep(AssignedWorker[d]) = current_step + 2
  BY <1>8 DEF StepCompletes
<1>10. Completers(w) = UNION {Allocations[c][r].completing : c \in Clients}
  <2>1. JoinPointsUpTo(r) = Reached[w] + 1
    BY <1>6, <1>9
  <2>2. \A j \in Rows : IsJoinRow(j) /\ JoinPointsUpTo(j) = Reached[w] + 1 => j = r
    BY <1>9, <2>1, JoinRowUnique DEF JoinPointsUpTo
  <2> QED
    BY <1>9, <2>1, <2>2 DEF Completers
<1>11. ASSUME NEW d \in Completers(w) PROVE CompletingTaskDone(d, Reached[w])
  <2>1. AtStep(AssignedWorker[d]) = current_step + 2
    BY <1>9, <1>10
  <2>2. JoinPointsUpTo(current_task_index[AssignedWorker[d]]) > Reached[w]
    BY <1>6, <2>1 DEF AtStep
  <2> QED
    BY <2>2 DEF CompletingTaskDone
<1> QED
  BY <1>9, <1>10, <1>11

\* drive() forgets the event at a join point and heeds it before.
LEMMA JustifiedDrive ==
    ASSUME TypeOK, TypeOK', BarrierInv, CompletionJustified, NEW w \in Workers, DriveSteps(w)
    PROVE  CompletionJustified'
<1>1. PICK pending \in Nat : DriveOn(w, pending)
  BY Driven
<1> DEFINE j == current_task_index'[w]
<1>2. /\ j \in Rows /\ j > current_task_index[w]
      /\ \A v \in Workers \ {w} : current_task_index'[v] = current_task_index[v]
      /\ \/ IsJoinRow(j) /\ DriveToJoinPoint(w, j, pending)
         \/ AtStep(w)' = AtStep(w) /\ DriveSkips(w, j, pending)
         \/ AtStep(w)' = AtStep(w) /\ DriveExecutor(w, j, pending)
  BY <1>1, DriveOnRow
<1>3. executor_future[w] \in {"none", "done"}
  BY Driven
<1>4. current_task_index \in [Workers -> 0 .. NumRows]
  BY DEF TypeOK
<1>5. \A v \in Workers : current_task_index'[v] >= current_task_index[v]
  BY <1>2, <1>4, BoundsAssumption DEF Rows
<1>6. \A c \in Clients : \/ current_task_index'[AssignedWorker[c]] > current_task_index[AssignedWorker[c]]
                         \/ client[c] = "finished" => client'[c] = "finished"
  <2>1. ASSUME NEW c \in Clients, AssignedWorker[c] # w PROVE client'[c] = client[c]
    BY <1>2, <2>1 DEF DriveToJoinPoint, DriveSkips, DriveExecutor, Executing, ClientsOf
  <2> QED
    BY <1>2, <2>1
<1>7. complete \in [Workers -> BOOLEAN] /\ executor_future \in [Workers -> Futures]
  BY DEF TypeOK
<1>8. /\ complete'[w] => complete[w] /\ AtStep(w)' = AtStep(w)
      /\ \A v \in Workers \ {w} : complete'[v] = complete[v] /\ executor_future'[v] = executor_future[v]
  BY <1>2, <1>7 DEF DriveToJoinPoint, DriveSkips, DriveExecutor
<1>9. \A v \in Workers \ {w} : AtStep(v)' = AtStep(v)
  BY WaitsDrive
<1>10. ASSUME NEW v \in Workers, complete'[v] PROVE Justified(v)'
  <2>1. complete[v] /\ AtStep(v)' = AtStep(v) /\ Justified(v)
    BY <1>8, <1>9, <1>10 DEF CompletionJustified, Justified
  <2>2. executor_future[v] = "failed" => executor_future'[v] = "failed"
    BY <1>3, <1>8
  <2> QED
    BY <1>5, <1>6, <2>1, <2>2, JustifiedKept
<1> QED
  BY <1>10 DEF CompletionJustified, Justified

\* Every step keeps CompletionJustified.
LEMMA JustifiedStep ==
    ASSUME TypeOK, TypeOK', RunningInv, BarrierInv, CompletionJustified, [Next]_vars,
           \A v \in Workers : StartsFirst(v) /\ WaitsAtJoinPoint(v) /\ CompletesItsStep(v)
    PROVE  CompletionJustified'
<1> USE DEF coordinatorVars, workerVars, clientVars
<1>1. /\ complete \in [Workers -> BOOLEAN] /\ executor_future \in [Workers -> Futures]
      /\ client \in [Clients -> {"idle", "running", "finished"}] /\ current_task_index \in [Workers -> 0 .. NumRows]
  BY DEF TypeOK
<1>2. ASSUME UNCHANGED current_task_index, NEW v \in Workers, complete[v],
             executor_future[v] = "failed" => executor_future'[v] = "failed",
             \A c \in Clients : client[c] = "finished" => client'[c] = "finished"
      PROVE  Justified(v)'
  <2>1. Justified(v) /\ AtStep(v)' = AtStep(v)
    BY <1>2 DEF CompletionJustified, Justified, AtStep
  <2>2. \A u \in Workers : current_task_index'[u] >= current_task_index[u]
    BY <1>1, <1>2
  <2> QED
    BY <1>2, <2>1, <2>2, JustifiedKept
<1>3. ASSUME UNCHANGED <<current_task_index, executor_future, client, complete>> PROVE CompletionJustified'
  BY <1>2, <1>3 DEF CompletionJustified, Justified
<1>4. ASSUME NEW c \in Clients, ClientContinues(c) \/ ClientFinishes(c) PROVE CompletionJustified'
  <2> DEFINE w == AssignedWorker[c]
  <2>1. w \in Workers /\ UNCHANGED <<current_task_index, executor_future>>
    BY <1>4, AssignmentAssumption DEF ClientContinues, ClientFinishes
  <2>2. \A d \in Clients : client[d] = "finished" => client'[d] = "finished"
    BY <1>1, <1>4 DEF ClientContinues, ClientFinishes
  <2>3. \A v \in Workers : complete'[v] => complete[v] \/ (v = w /\ ClientFinishes(c) /\ TaskOf(c).completes)
    BY <1>1, <1>4 DEF ClientContinues, ClientFinishes
  <2>4. ASSUME ClientFinishes(c), TaskOf(c).completes PROVE Justified(w)'
    <3> DEFINE i == current_task_index[w]
    <3>1. /\ c \in Completers(w) \intersect ClientsOf(w) /\ i \in Rows /\ Allocations[c][i].kind = "task"
      BY <2>4, OwnCompleter DEF ClientFinishes
    <3>2. client'[c] = "finished"
      BY <1>1, <2>4 DEF ClientFinishes
    <3>3. Reached'[w] = JoinPointsUpTo(i) /\ Completers(w)' = Completers(w)
      BY <2>1 DEF Reached, Completers
    <3>4. i \in 1 .. i /\ Allocations[c][i].completes
      BY <2>4, <3>1 DEF TaskOf, Rows
    <3>5. CompletingTaskDone(c, Reached[w])'
      BY <2>1, <3>1, <3>2, <3>3, <3>4 DEF CompletingTaskDone
    <3> QED
      BY <3>1, <3>3, <3>5 DEF Justified
  <2> QED
    BY <1>2, <2>1, <2>2, <2>3, <2>4 DEF CompletionJustified, Justified
<1>5. ASSUME NEW c \in Clients, ClientRaises(c) PROVE CompletionJustified'
  <2>1. /\ AssignedWorker[c] \in Workers /\ UNCHANGED <<current_task_index, client>>
        /\ executor_future'[AssignedWorker[c]] = "failed"
        /\ \A v \in Workers \ {AssignedWorker[c]} : complete'[v] = complete[v] /\ executor_future'[v] = executor_future[v]
    BY <1>1, <1>5, AssignmentAssumption DEF ClientRaises
  <2> QED
    BY <1>2, <2>1 DEF CompletionJustified, Justified
<1>6. ASSUME NEW w \in Workers, ExecutorFinishes(w) PROVE CompletionJustified'
  <2>1. /\ UNCHANGED <<current_task_index, client, complete>>
        /\ \A v \in Workers : executor_future[v] = "failed" => executor_future'[v] = "failed"
    BY <1>1, <1>6 DEF ExecutorFinishes
  <2> QED
    BY <1>2, <2>1 DEF CompletionJustified, Justified
<1>7. ASSUME NEW w \in Workers, WorkerCompleteCurrentTask(w) PROVE CompletionJustified'
  <2>1. /\ UNCHANGED <<current_task_index, client, executor_future>> /\ WorkerReceives(w, "CompleteCurrentTask")
        /\ \A v \in Workers : complete'[v] => complete[v] \/ (v = w /\ ~IsJoinPoint(w, current_task_index[w]))
    BY <1>1, <1>7 DEF WorkerCompleteCurrentTask
  <2>2. ASSUME ~IsJoinPoint(w, current_task_index[w]) PROVE Justified(w)'
    <3>1. Completers(w) # {} /\ \A c \in Completers(w) : CompletingTaskDone(c, Reached[w])
      BY <2>1, <2>2, LateCompletion
    <3>2. Reached' = Reached /\ Completers(w)' = Completers(w)
      BY <2>1 DEF Reached, Completers
    <3>3. \A c \in Completers(w) : CompletingTaskDone(c, Reached[w])'
      BY <2>1, <3>1, <3>2 DEF CompletingTaskDone
    <3> QED
      BY <3>1, <3>2, <3>3 DEF Justified
  <2> QED
    BY <1>2, <2>1, <2>2 DEF CompletionJustified, Justified
<1>8. CASE MasterWakeup \/ UNCHANGED vars
  BY <1>3, <1>8 DEF MasterWakeup, vars
<1>9. ASSUME NEW w \in Workers, Coordinator(w) \/ WorkerExits(w) PROVE CompletionJustified'
  BY <1>3, <1>9 DEF Coordinator, JoinPointPending, JoinPointRaises, MoveToNextTask, BenchmarkCompleted,
     StepCompleted, MasterUpdateSamples, MasterReceivesFailure, ChildActorExited, WorkerExits
<1>10. ASSUME NEW w \in Workers, WorkerDrive(w) \/ WorkerForwardsFailure(w) PROVE CompletionJustified'
  BY <1>3, <1>10 DEF WorkerDrive, WorkerForwardsFailure
<1>11. ASSUME NEW w \in Workers, WakeupToCheck(w) \/ CheckFailed(w) \/ CheckBusy(w) PROVE CompletionJustified'
  BY <1>3, <1>11 DEF WakeupToCheck, CheckFailed, CheckBusy
<1> QED
  BY <1>4, <1>5, <1>6, <1>7, <1>8, <1>9, <1>10, <1>11, JustifiedDrive
     DEF Next, WorkerMailbox, WorkerWakeup, Client, DriveSteps

\* Nothing has happened to the workers yet.
LEMMA EventsInitially == Init => EventsInv
<1> SUFFICES ASSUME Init PROVE EventsInv
  OBVIOUS
<1>1. CompletionJustified
  BY DEF Init, CompletionJustified
<1>2. ASSUME NEW w \in Workers PROVE WakeupOf(w)
  BY DEF Init, WakeupOf, Busy
<1>3. ASSUME NEW w \in Workers PROVE StartsFirst(w) /\ CompletesItsStep(w)
  BY DEF Init, StartsFirst, CompletesItsStep, HasMessage
<1>4. ASSUME NEW w \in Workers PROVE WaitsAtJoinPoint(w)
  <2>1. AtStep(w) = 0
    BY JoinCountType DEF Init, AtStep, JoinPointsUpTo
  <2> QED
    BY <2>1 DEF Init, WaitsAtJoinPoint, Waits, ReportsRow, HasMessage
<1> QED
  BY <1>1, <1>2, <1>3, <1>4 DEF EventsInv

\* Every step keeps the reasons for what acts on a worker.
LEMMA EventsStep == IInv /\ IInv' /\ EventsInv /\ [Next]_vars => EventsInv'
BY WakeupStep, StartsStep, WaitsStep, CompletesStep, JustifiedStep DEF IInv, BarrierInv, EventsInv

(***************************************************************************)
(* Nothing acts on a worker without its reason, for any number of workers  *)
(* and any allocation matrix: there is one wake-up at most, and the tasks  *)
(* of a worker are completed early only when their completing task has     *)
(* finished, however late CompleteCurrentTask is delivered.                *)
(***************************************************************************)
THEOREM EventsHaveReasons == Spec => []EventsAreJustified
<1>1. IInv /\ EventsInv => EventsAreJustified
  <2> SUFFICES ASSUME IInv, EventsInv PROVE EventsAreJustified
    OBVIOUS
  <2>1. ASSUME NEW w \in Workers PROVE timers[w] + (IF handling[w] = NotHandling THEN 0 ELSE 1) <= 1
    <3>1. timers[w] \in Nat
      BY DEF IInv, TypeOK
    <3> QED
      BY <3>1 DEF EventsInv, WakeupOf, Busy
  <2> QED
    BY <2>1 DEF EventsAreJustified, OneWakeup, EventsInv
<1> QED
  BY <1>1, EventsInitially, EventsStep, Invariance, PTL DEF Spec

-----------------------------------------------------------------------------
(* Samples *)

\* What a mailbox holds after a message was sent, or handled.
LEMMA ElementsMail ==
    ASSUME NEW S, NEW q \in Seq(S)
    PROVE  /\ \A m \in S : Elements(Append(q, m)) = Elements(q) \union {m}
           /\ q # <<>> => Elements(q) = {Head(q)} \union Elements(Tail(q))
<1>1. ASSUME NEW m \in S PROVE Elements(Append(q, m)) = Elements(q) \union {m}
  <2> DEFINE a == Append(q, m)
  <2>1. Len(a) = Len(q) + 1 /\ Len(q) \in Nat /\ a[Len(q) + 1] = m /\ \A i \in 1 .. Len(q) : a[i] = q[i]
    BY Positions
  <2> HIDE DEF a
  <2>2. Elements(a) = Elements(q) \union {m}
    BY <2>1 DEF Elements
  <2> QED
    BY <2>2 DEF a
<1>2. ASSUME q # <<>> PROVE Elements(q) = {Head(q)} \union Elements(Tail(q))
  <2> DEFINE r == Tail(q)
  <2>1. Len(r) = Len(q) - 1 /\ Len(q) \in Nat /\ Len(q) > 0 /\ Head(q) = q[1]
          /\ \A i \in 1 .. Len(q) - 1 : r[i] = q[i + 1]
    BY <1>2, Positions
  <2> HIDE DEF r
  <2>2. ASSUME NEW i \in 1 .. Len(q), i # 1 PROVE q[i] \in Elements(r)
    <3>1. i - 1 \in 1 .. Len(r) /\ r[i - 1] = q[i]
      BY <2>1, <2>2
    <3> QED
      BY <3>1 DEF Elements
  <2>3. \A i \in 1 .. Len(r) : r[i] \in Elements(q)
    BY <2>1 DEF Elements
  <2>4. Head(q) \in Elements(q)
    BY <2>1 DEF Elements
  <2>5. Elements(q) = {Head(q)} \union Elements(r)
    BY <2>1, <2>2, <2>3, <2>4 DEF Elements
  <2> QED
    BY <2>5 DEF r
<1> QED
  BY <1>1, <1>2

\* The same for the samples in the messages.
LEMMA MailedMail ==
    ASSUME NEW S, NEW q \in Seq(S)
    PROVE  /\ \A m \in S : Mailed(Append(q, m)) = Mailed(q) \union SamplesOf(m)
           /\ q # <<>> => Mailed(q) = SamplesOf(Head(q)) \union Mailed(Tail(q))
BY ElementsMail DEF Mailed

\* Messages stay apart: a new one must not repeat a sample.
LEMMA SeparateMail ==
    ASSUME NEW S, NEW q \in Seq(S), Separate(q)
    PROVE  /\ \A m \in S : SamplesOf(m) \intersect Mailed(q) = {} => Separate(Append(q, m))
           /\ q # <<>> => Separate(Tail(q)) /\ SamplesOf(Head(q)) \intersect Mailed(Tail(q)) = {}
<1>1. ASSUME NEW m \in S, SamplesOf(m) \intersect Mailed(q) = {} PROVE Separate(Append(q, m))
  <2> DEFINE a == Append(q, m)
  <2>1. Len(a) = Len(q) + 1 /\ Len(q) \in Nat /\ a[Len(q) + 1] = m /\ \A i \in 1 .. Len(q) : a[i] = q[i]
    BY Positions
  <2> HIDE DEF a
  <2>2. \A i \in 1 .. Len(q) : SamplesOf(m) \intersect SamplesOf(q[i]) = {}
    BY <1>1 DEF Mailed, Elements
  <2>3. ASSUME NEW i \in 1 .. Len(a), NEW j \in 1 .. Len(a), i # j
        PROVE  SamplesOf(a[i]) \intersect SamplesOf(a[j]) = {}
    <3>1. CASE i = Len(q) + 1
      <4>1. a[i] = m /\ j \in 1 .. Len(q) /\ a[j] = q[j]
        BY <2>1, <2>3, <3>1
      <4> QED
        BY <2>2, <4>1
    <3>2. CASE j = Len(q) + 1
      <4>1. a[j] = m /\ i \in 1 .. Len(q) /\ a[i] = q[i]
        BY <2>1, <2>3, <3>2
      <4> QED
        BY <2>2, <4>1
    <3>3. CASE i # Len(q) + 1 /\ j # Len(q) + 1
      <4>1. i \in 1 .. Len(q) /\ a[i] = q[i] /\ j \in 1 .. Len(q) /\ a[j] = q[j]
        BY <2>1, <3>3
      <4> QED
        BY <2>3, <4>1 DEF Separate
    <3> QED
      BY <3>1, <3>2, <3>3
  <2>4. Separate(a)
    BY <2>3 DEF Separate
  <2> QED
    BY <2>4 DEF a
<1>2. ASSUME q # <<>> PROVE Separate(Tail(q)) /\ SamplesOf(Head(q)) \intersect Mailed(Tail(q)) = {}
  <2> DEFINE r == Tail(q)
  <2>1. Len(r) = Len(q) - 1 /\ Len(q) \in Nat /\ Len(q) > 0 /\ Head(q) = q[1]
          /\ \A i \in 1 .. Len(q) - 1 : r[i] = q[i + 1]
    BY <1>2, Positions
  <2> HIDE DEF r
  <2>2. Separate(r)
    <3>1. ASSUME NEW i \in 1 .. Len(r), NEW j \in 1 .. Len(r), i # j
          PROVE  SamplesOf(r[i]) \intersect SamplesOf(r[j]) = {}
      <4>1. /\ i + 1 \in 1 .. Len(q) /\ r[i] = q[i + 1] /\ j + 1 \in 1 .. Len(q) /\ r[j] = q[j + 1]
            /\ i + 1 # j + 1
        BY <2>1, <3>1
      <4> QED
        BY <4>1 DEF Separate
    <3> QED
      BY <3>1 DEF Separate
  <2>3. ASSUME NEW i \in 1 .. Len(r) PROVE SamplesOf(Head(q)) \intersect SamplesOf(r[i]) = {}
    <3>1. 1 \in 1 .. Len(q) /\ i + 1 \in 1 .. Len(q) /\ 1 # i + 1 /\ Head(q) = q[1] /\ r[i] = q[i + 1]
      BY <2>1
    <3> QED
      BY <3>1 DEF Separate
  <2>4. SamplesOf(Head(q)) \intersect Mailed(r) = {}
    BY <2>3 DEF Mailed, Elements
  <2> QED
    BY <2>2, <2>4 DEF r
<1> QED
  BY <1>1, <1>2

\* What a step of sending or handling does to them.
LEMMA SamplesMoved ==
    ASSUME TypeOK, NEW v \in Workers, Separate(to_master[v])
    PROVE  /\ \A m : Sends(v, m) => /\ Mailed(to_master'[v]) = Mailed(to_master[v]) \union SamplesOf(m)
                                    /\ SamplesOf(m) \intersect Mailed(to_master[v]) = {} => Separate(to_master'[v])
           /\ Handles(v) => /\ Mailed(to_master[v]) = SamplesOf(Head(to_master[v])) \union Mailed(to_master'[v])
                            /\ Separate(to_master'[v])
                            /\ SamplesOf(Head(to_master[v])) \intersect Mailed(to_master'[v]) = {}
<1>1. to_master[v] \in Seq(WorkerMessages)
  BY DEF TypeOK
<1> HIDE DEF WorkerMessages
<1>2. ASSUME NEW m, Sends(v, m)
      PROVE  /\ Mailed(to_master'[v]) = Mailed(to_master[v]) \union SamplesOf(m)
             /\ SamplesOf(m) \intersect Mailed(to_master[v]) = {} => Separate(to_master'[v])
  <2>1. m \in WorkerMessages /\ to_master'[v] = Append(to_master[v], m)
    BY <1>2 DEF Sends
  <2> QED
    BY <1>1, <2>1, MailedMail, SeparateMail
<1>3. ASSUME Handles(v)
      PROVE  /\ Mailed(to_master[v]) = SamplesOf(Head(to_master[v])) \union Mailed(to_master'[v])
             /\ Separate(to_master'[v])
             /\ SamplesOf(Head(to_master[v])) \intersect Mailed(to_master'[v]) = {}
  <2>1. to_master[v] # <<>> /\ to_master'[v] = Tail(to_master[v])
    BY <1>3 DEF Handles
  <2> QED
    BY <1>1, <2>1, MailedMail, SeparateMail
<1> QED
  BY <1>2, <1>3

\* A worker keeps its samples apart when it gets no more of them and the
\* master gets none of them.
LEMMA SamplesKept ==
    ASSUME NEW v \in Workers, SamplesOfWorker(v), taken \subseteq taken',
           Buffered(v)' \subseteq Buffered(v), Mailed(to_master'[v]) \subseteq Mailed(to_master[v]),
           Separate(to_master'[v]),
           (raw_samples' \union stored') \intersect OwnSamples(v) \subseteq raw_samples \union stored
    PROVE  SamplesOfWorker(v)'
BY DEF SamplesOfWorker, OwnSamples

\* send_samples moves the samples of both queues into one message, or none.
LEMMA SamplesAreSent ==
    ASSUME TypeOK, NEW v \in Workers, SamplesOfWorker(v), UNCHANGED <<raw_samples, stored, taken>>,
           sampler'[v] = <<>>, profile_sampler'[v] = (IF sampler[v] = <<>> THEN profile_sampler[v] ELSE <<>>),
           LET q == to_master[v] \o SamplesMessage(v)
           IN  \/ to_master'[v] = q
               \/ \E m \in WorkerMessages : SamplesOf(m) = {} /\ to_master'[v] = Append(q, m)
    PROVE  SamplesOfWorker(v)'
<1> DEFINE q == to_master[v] \o SamplesMessage(v)
           sent == IF sampler[v] = <<>> THEN {} ELSE Buffered(v)
<1>1. to_master[v] \in Seq(WorkerMessages) /\ q \in Seq(WorkerMessages)
  BY SamplesSent DEF TypeOK
<1>2. /\ Separate(to_master[v]) /\ Buffered(v) \intersect Mailed(to_master[v]) = {}
  BY DEF SamplesOfWorker
<1>3. Update(v) \in WorkerMessages /\ SamplesOf(Update(v)) = Buffered(v)
  BY SamplesMailed DEF SamplesOf, Update, Buffered
<1> HIDE DEF WorkerMessages
<1>4. Mailed(q) = Mailed(to_master[v]) \union sent /\ Separate(q)
  <2>1. CASE sampler[v] = <<>>
    BY <1>2, <2>1, SamplesMailed
  <2>2. CASE sampler[v] # <<>>
    <3>1. q = Append(to_master[v], Update(v))
      BY <2>2, SamplesMailed
    <3> QED
      BY <1>1, <1>2, <1>3, <2>2, <3>1, MailedMail, SeparateMail
  <2> QED
    BY <2>1, <2>2
<1>5. Mailed(to_master'[v]) = Mailed(q) /\ Separate(to_master'[v])
  <2>1. CASE to_master'[v] = q
    BY <1>4, <2>1
  <2>2. ASSUME NEW m \in WorkerMessages, SamplesOf(m) = {}, to_master'[v] = Append(q, m)
        PROVE  Mailed(to_master'[v]) = Mailed(q) /\ Separate(to_master'[v])
    <3> HIDE DEF q
    <3>1. Mailed(Append(q, m)) = Mailed(q) \union SamplesOf(m)
      BY <1>1, MailedMail
    <3>2. SamplesOf(m) \intersect Mailed(q) = {} => Separate(Append(q, m))
      BY <1>1, <1>4, SeparateMail
    <3> QED
      BY <2>2, <3>1, <3>2
  <2> QED
    BY <2>1, <2>2
<1>6. Elements(<<>>) = {}
  BY DEF Elements
<1>7. Buffered(v)' = Buffered(v) \ sent
  BY <1>6 DEF Buffered
<1> HIDE DEF q, sent
<1>8. sent \subseteq Buffered(v)
  BY DEF sent
<1> QED
  BY <1>4, <1>5, <1>7, <1>8 DEF SamplesOfWorker, OwnSamples

\* A recorded sample is a new one.
LEMMA SampleIsNew ==
    ASSUME TypeOK, RunningInv, SamplesAreNumbered, NEW c \in Clients, ClientRuns(c), NEW s,
           s.client = c, s.row = current_task_index[AssignedWorker[c]], s.n = requests[c] + 1
    PROVE  s \notin taken
<1>1. requests[c] \in Nat /\ client[c] = "running"
  BY BoundsAssumption DEF TypeOK, ClientRuns
<1>2. s \in taken => s.n <= requests[c]
  BY <1>1 DEF SamplesAreNumbered
<1> QED
  BY <1>1, <1>2

\* Recording it puts it into one sampler.
LEMMA SampleAdded ==
    ASSUME TypeOK, RunningInv, SamplesInv, NEW c \in Clients, ClientRuns(c), AddSample(c),
           UNCHANGED <<raw_samples, stored, to_master, current_task_index>>,
           \/ client' = client /\ requests' = [requests EXCEPT ![c] = @ + 1]
           \/ client' = [client EXCEPT ![c] = "finished"] /\ requests' = requests
    PROVE  SamplesInv'
<1> DEFINE w == AssignedWorker[c]
           s == [client |-> c, row |-> current_task_index[w], n |-> requests[c] + 1,
                 progress |-> IF StoppedByEvent(c) THEN "float" ELSE TaskOf(c).progress]
<1>1. /\ w \in Workers /\ requests \in [Clients -> 0 .. MaxRequests] /\ client[c] = "running"
      /\ client \in [Clients -> {"idle", "running", "finished"}] /\ current_task_index[w] \in 0 .. NumRows
      /\ sampler \in [Workers -> Seq(Samples)] /\ profile_sampler \in [Workers -> Seq(Samples)]
      /\ taken \subseteq Samples
  BY AssignmentAssumption DEF TypeOK, ClientRuns
<1>2. s.client = c /\ s.row = current_task_index[w] /\ s.n = requests[c] + 1
  OBVIOUS
<1>3. s \in Samples
  <2>1. c \in Executing(w, current_task_index[w]) /\ current_task_index[w] \in Rows
    BY <1>1 DEF RunningInv
  <2>2. TaskOf(c) \in Tasks
    <3>1. Allocations[c][current_task_index[w]] \in Tasks \union JoinPoints \union {NoTask}
      BY <2>1, MatrixAssumption
    <3>2. Allocations[c][current_task_index[w]].kind = "task"
      BY <2>1 DEF Executing
    <3> QED
      BY <3>1, <3>2 DEF JoinPoints, NoTask, TaskOf
  <2>3. (IF StoppedByEvent(c) THEN "float" ELSE TaskOf(c).progress) \in Progress
    BY <2>2 DEF Tasks, Progress
  <2>4. requests[c] + 1 \in 1 .. MaxRequests + 1
    BY <1>1, BoundsAssumption
  <2> QED
    BY <2>1, <2>3, <2>4 DEF Samples
<1>4. /\ taken' = taken \union {s}
      /\ \/ profile_sampler' = [profile_sampler EXCEPT ![w] = Append(@, s)] /\ UNCHANGED sampler
         \/ sampler' = [sampler EXCEPT ![w] = Append(@, s)] /\ UNCHANGED profile_sampler
  BY DEF AddSample
<1> HIDE DEF s, w
<1>5. s \notin taken
  BY <1>2, SampleIsNew DEF SamplesInv, w
<1>6. Buffered(w)' = Buffered(w) \union {s} /\ \A v \in Workers \ {w} : Buffered(v)' = Buffered(v)
  <2>1. /\ Elements(Append(sampler[w], s)) = Elements(sampler[w]) \union {s}
        /\ Elements(Append(profile_sampler[w], s)) = Elements(profile_sampler[w]) \union {s}
    BY <1>1, <1>3, ElementsMail
  <2> QED
    BY <1>1, <1>4, <2>1 DEF Buffered
<1>7. ASSUME NEW v \in Workers PROVE SamplesOfWorker(v)'
  <2>1. SamplesOfWorker(v) /\ raw_samples \union stored \subseteq taken
    BY DEF SamplesInv
  <2>2. CASE v # w
    BY <1>4, <1>6, <2>1, <2>2, SamplesKept DEF SamplesOfWorker
  <2>3. CASE v = w
    <3>1. OwnSamples(w)' = OwnSamples(w) \union {s}
      BY <1>2, <1>4 DEF OwnSamples, w
    <3>2. Mailed(to_master[w]) \union raw_samples \union stored \subseteq taken
      BY <2>1, <2>3 DEF SamplesOfWorker, OwnSamples
    <3> QED
      BY <1>5, <1>6, <2>1, <2>3, <3>1, <3>2 DEF SamplesOfWorker
  <2> QED
    BY <2>2, <2>3
<1>8. SamplesAreNumbered'
  <2> SUFFICES ASSUME NEW x \in taken'
               PROVE  /\ x.row <= current_task_index[AssignedWorker[x.client]]
                      /\ x.row = current_task_index[AssignedWorker[x.client]] /\ client'[x.client] = "running"
                           => x.n <= requests'[x.client]
    BY DEF SamplesAreNumbered
  <2>1. CASE x = s
    BY <1>1, <1>2, <2>1 DEF w
  <2>2. CASE x \in taken
    <3>1. /\ x.row <= current_task_index[AssignedWorker[x.client]]
          /\ x.row = current_task_index[AssignedWorker[x.client]] /\ client[x.client] = "running"
               => x.n <= requests[x.client]
      BY <2>2 DEF SamplesInv, SamplesAreNumbered
    <3>2. x.client \in Clients /\ x.n \in Nat
      BY <1>1, <2>2 DEF Samples
    <3>3. client'[x.client] = "running" => client[x.client] = "running"
      BY <1>1, <3>2
    <3>4. requests[x.client] <= requests'[x.client] /\ requests[x.client] \in Nat /\ requests'[x.client] \in Nat
      <4>1. \A d \in Clients : requests'[d] = requests[d] \/ requests'[d] = requests[d] + 1
        BY <1>1
      <4>2. \A d \in Clients : requests[d] \in Nat
        BY <1>1, BoundsAssumption
      <4> QED
        BY <3>2, <4>1, <4>2
    <3> QED
      BY <3>1, <3>2, <3>3, <3>4
  <2> QED
    BY <1>4, <2>1, <2>2
<1> QED
  BY <1>4, <1>7, <1>8 DEF SamplesInv

\* Without a new sample, the numbers are kept by whatever moves workers on.
LEMMA NumbersKept ==
    ASSUME TypeOK, TypeOK', SamplesAreNumbered, UNCHANGED taken,
           \A v \in Workers : current_task_index'[v] >= current_task_index[v],
           \A c \in Clients : \/ current_task_index'[AssignedWorker[c]] > current_task_index[AssignedWorker[c]]
                              \/ client'[c] = client[c] /\ requests'[c] = requests[c]
    PROVE  SamplesAreNumbered'
<1> SUFFICES ASSUME NEW s \in taken
             PROVE  /\ s.row <= current_task_index'[AssignedWorker[s.client]]
                    /\ s.row = current_task_index'[AssignedWorker[s.client]] /\ client'[s.client] = "running"
                         => s.n <= requests'[s.client]
  BY DEF SamplesAreNumbered
<1>0. taken \subseteq Samples
  BY DEF TypeOK
<1>1. s.client \in Clients /\ s.row \in Nat /\ AssignedWorker[s.client] \in Workers
  <2>1. s \in Samples
    BY <1>0
  <2>2. s.client \in Clients /\ s.row \in Rows
    BY <2>1 DEF Samples
  <2> QED
    BY <2>2, AssignmentAssumption DEF Rows
<1>2. current_task_index[AssignedWorker[s.client]] \in Nat /\ current_task_index'[AssignedWorker[s.client]] \in Nat
  BY <1>1, BoundsAssumption DEF TypeOK
<1>3. /\ s.row <= current_task_index[AssignedWorker[s.client]]
      /\ s.row = current_task_index[AssignedWorker[s.client]] /\ client[s.client] = "running"
           => s.n <= requests[s.client]
  BY DEF SamplesAreNumbered
<1> QED
  BY <1>1, <1>2, <1>3

\* drive() sends the samples, keeps them, or starts with empty samplers.
LEMMA SamplesDrive ==
    ASSUME TypeOK, TypeOK', BarrierInv, SamplesInv, NEW w \in Workers, DriveSteps(w)
    PROVE  SamplesInv'
<1>1. PICK pending \in Nat : DriveOn(w, pending)
  BY Driven
<1>2. UNCHANGED <<raw_samples, stored, taken>>
  BY Driven DEF coordinatorVars
<1> DEFINE j == current_task_index'[w]
<1>3. /\ j \in Rows /\ j > current_task_index[w]
      /\ \A v \in Workers \ {w} : current_task_index'[v] = current_task_index[v]
      /\ DriveToJoinPoint(w, j, pending) \/ DriveSkips(w, j, pending) \/ DriveExecutor(w, j, pending)
  BY <1>1, DriveOnRow
<1>4. /\ sampler \in [Workers -> Seq(Samples)] /\ profile_sampler \in [Workers -> Seq(Samples)]
      /\ to_master \in [Workers -> Seq(WorkerMessages)] /\ current_task_index \in [Workers -> 0 .. NumRows]
  BY DEF TypeOK
<1>5. \A v \in Workers : SamplesOfWorker(v) /\ Separate(to_master[v])
  BY DEF SamplesInv, SamplesOfWorker
<1>6. ASSUME NEW v \in Workers \ {w} PROVE SamplesOfWorker(v)'
  <2>1. to_master'[v] = to_master[v] /\ sampler'[v] = sampler[v] /\ profile_sampler'[v] = profile_sampler[v]
    BY <1>3, <1>4 DEF DriveToJoinPoint, DriveSkips, DriveExecutor
  <2> QED
    BY <1>2, <1>5, <2>1, SamplesKept DEF Buffered
<1>7. SamplesOfWorker(w)'
  <2>1. CASE DriveToJoinPoint(w, j, pending)
    <3> DEFINE q == to_master[w] \o SamplesMessage(w)
               m == [type |-> "JoinPointReached", row |-> j]
    <3>1. /\ sampler'[w] = <<>> /\ profile_sampler'[w] = (IF sampler[w] = <<>> THEN profile_sampler[w] ELSE <<>>)
          /\ to_master' = [to_master EXCEPT ![w] = q \o <<m>>]
      BY <1>4, <2>1 DEF DriveToJoinPoint
    <3>2. m \in WorkerMessages /\ SamplesOf(m) = {}
      BY <1>3 DEF WorkerMessages, SamplesOf
    <3>3. q \in Seq(WorkerMessages)
      BY SamplesSent
    <3> HIDE DEF WorkerMessages, m
    <3>4. to_master'[w] = Append(q, m)
      BY <1>4, <3>1, <3>2, <3>3
    <3> QED
      BY <1>2, <1>5, <3>1, <3>2, <3>4, SamplesAreSent
  <2>2. CASE DriveSkips(w, j, pending)
    BY <1>2, <1>5, <2>2, SamplesKept DEF DriveSkips, Buffered
  <2>3. CASE DriveExecutor(w, j, pending)
    <3>1. Buffered(w)' = {} /\ to_master' = to_master
      BY <1>4, <2>3 DEF DriveExecutor, Buffered, Elements
    <3> QED
      BY <1>2, <1>5, <3>1, SamplesKept
  <2> QED
    BY <1>3, <2>1, <2>2, <2>3
<1>8. SamplesAreNumbered'
  <2>1. \A v \in Workers : current_task_index'[v] >= current_task_index[v]
    <3>1. \A v \in Workers : current_task_index[v] \in Int
      BY <1>4, BoundsAssumption
    <3>2. j \in Int
      BY <1>3 DEF Rows
    <3> QED
      BY <1>3, <3>1, <3>2
  <2>2. ASSUME NEW c \in Clients, AssignedWorker[c] # w PROVE client'[c] = client[c] /\ requests'[c] = requests[c]
    BY <1>3, <2>2 DEF DriveToJoinPoint, DriveSkips, DriveExecutor, Executing, ClientsOf
  <2> QED
    BY <1>2, <1>3, <2>1, <2>2, NumbersKept DEF SamplesInv
<1> QED
  BY <1>2, <1>6, <1>7, <1>8 DEF SamplesInv

\* Every step keeps the samples apart.
LEMMA SamplesStep ==
    ASSUME TypeOK, TypeOK', RunningInv, BarrierInv, SamplesInv, [Next]_vars
    PROVE  SamplesInv'
<1> USE DEF coordinatorVars, workerVars, clientVars
<1>1. /\ raw_samples \union stored \subseteq taken /\ raw_samples \intersect stored = {}
      /\ \A v \in Workers : SamplesOfWorker(v) /\ Separate(to_master[v])
  BY DEF SamplesInv, SamplesOfWorker
<1>2. to_master \in [Workers -> Seq(WorkerMessages)] /\ current_task_index \in [Workers -> 0 .. NumRows]
  BY DEF TypeOK
<1>3. ASSUME UNCHANGED <<current_task_index, client, requests, taken>> PROVE SamplesAreNumbered'
  BY <1>3 DEF SamplesInv, SamplesAreNumbered
<1>4. ASSUME UNCHANGED <<current_task_index, client, requests, taken, sampler, profile_sampler>>,
             \A v \in Workers : Mailed(to_master'[v]) \subseteq Mailed(to_master[v]) /\ Separate(to_master'[v]),
             raw_samples' \union stored' = raw_samples \union stored, raw_samples' \intersect stored' = {}
      PROVE  SamplesInv'
  <2>1. \A v \in Workers : Buffered(v)' = Buffered(v)
    BY <1>4 DEF Buffered
  <2>2. \A v \in Workers : SamplesOfWorker(v)'
    BY <1>1, <1>4, <2>1, SamplesKept
  <2> QED
    BY <1>1, <1>3, <1>4, <2>2 DEF SamplesInv
<1>5. ASSUME UNCHANGED <<current_task_index, client, requests, taken, sampler, profile_sampler, to_master,
                         raw_samples, stored>>
      PROVE  SamplesInv'
  BY <1>1, <1>4, <1>5
<1>6. ASSUME NEW w \in Workers, NEW t, MasterReceives(w, t)
      PROVE  \A v \in Workers : Mailed(to_master'[v]) \subseteq Mailed(to_master[v]) /\ Separate(to_master'[v])
  <2>1. Handles(w) /\ \A v \in Workers \ {w} : to_master'[v] = to_master[v]
    BY <1>6, MasterTakes
  <2> QED
    BY <1>1, <2>1, SamplesMoved
<1>7. ASSUME NEW w \in Workers, \/ to_master' = to_master
                                \/ to_master' = [to_master EXCEPT ![w] = Append(@, [type |-> "BenchmarkFailure"])]
      PROVE  \A v \in Workers : Mailed(to_master'[v]) \subseteq Mailed(to_master[v]) /\ Separate(to_master'[v])
  <2> DEFINE m == [type |-> "BenchmarkFailure"]
  <2>1. SamplesOf(m) = {}
    BY DEF SamplesOf
  <2>2. \A v \in Workers : to_master'[v] = to_master[v] \/ Sends(v, m)
    BY <1>2, <1>7, FailureMessage DEF Sends
  <2> HIDE DEF m
  <2> QED
    BY <1>1, <2>1, <2>2, SamplesMoved
<1>8. CASE MasterWakeup
  <2>1. raw_samples' \union stored' = raw_samples \union stored /\ raw_samples' \intersect stored' = {}
    BY <1>1, <1>8 DEF MasterWakeup, PostProcessSamples
  <2>2. UNCHANGED <<current_task_index, client, requests, taken, sampler, profile_sampler, to_master>>
    BY <1>8 DEF MasterWakeup
  <2> QED
    BY <1>1, <1>4, <2>1, <2>2
<1>9. ASSUME NEW w \in Workers, MoveToNextTask(w) \/ BenchmarkCompleted(w) PROVE SamplesInv'
  <2>1. /\ PostProcessSamples /\ MasterReceives(w, "JoinPointReached")
        /\ UNCHANGED <<current_task_index, client, requests, taken, sampler, profile_sampler>>
    BY <1>9 DEF MoveToNextTask, BenchmarkCompleted, StepCompleted, AllWorkersReached
  <2>2. raw_samples' \union stored' = raw_samples \union stored /\ raw_samples' \intersect stored' = {}
    BY <2>1 DEF PostProcessSamples
  <2> QED
    BY <1>4, <1>6, <2>1, <2>2
<1>10. ASSUME NEW w \in Workers, JoinPointPending(w) \/ JoinPointRaises(w) \/ MasterReceivesFailure(w)
       PROVE  SamplesInv'
  <2>1. /\ \E t : MasterReceives(w, t)
        /\ UNCHANGED <<current_task_index, client, requests, taken, sampler, profile_sampler, raw_samples, stored>>
    BY <1>10 DEF JoinPointPending, JoinPointRaises, AllWorkersReached, MasterReceivesFailure
  <2> QED
    BY <1>1, <1>4, <1>6, <2>1
<1>11. ASSUME NEW w \in Workers, MasterUpdateSamples(w) PROVE SamplesInv'
  <2> DEFINE m == Head(to_master[w])
  <2>1. /\ MasterReceives(w, "UpdateSamples")
        /\ raw_samples' = raw_samples \union Elements(m.samples) \union Elements(m.profile)
        /\ UNCHANGED <<current_task_index, client, requests, taken, sampler, profile_sampler, stored>>
    BY <1>11 DEF MasterUpdateSamples
  <2>2. Handles(w) /\ m.type = "UpdateSamples" /\ \A v \in Workers \ {w} : to_master'[v] = to_master[v]
    BY <2>1, MasterTakes
  <2>3. raw_samples' = raw_samples \union SamplesOf(m)
    BY <2>1, <2>2 DEF SamplesOf
  <2> HIDE DEF m
  <2>4. /\ Mailed(to_master[w]) = SamplesOf(m) \union Mailed(to_master'[w]) /\ Separate(to_master'[w])
        /\ SamplesOf(m) \intersect Mailed(to_master'[w]) = {}
    BY <1>1, <2>2, SamplesMoved DEF m
  <2>5. \A v \in Workers : Buffered(v)' = Buffered(v)
    BY <2>1 DEF Buffered
  <2>6. SamplesOf(m) \subseteq OwnSamples(w)
    BY <1>1, <2>4 DEF SamplesOfWorker
  <2>7. ASSUME NEW v \in Workers \ {w} PROVE SamplesOfWorker(v)'
    <3>1. SamplesOf(m) \intersect OwnSamples(v) = {}
      BY <2>6 DEF OwnSamples
    <3> QED
      BY <1>1, <2>1, <2>2, <2>3, <2>5, <3>1, SamplesKept
  <2>8. SamplesOfWorker(w)'
    BY <1>1, <2>1, <2>3, <2>4, <2>5 DEF SamplesOfWorker, OwnSamples
  <2>9. raw_samples' \union stored' \subseteq taken' /\ raw_samples' \intersect stored' = {}
    BY <1>1, <2>1, <2>3, <2>4, <2>6 DEF SamplesOfWorker, OwnSamples
  <2> QED
    BY <1>3, <2>1, <2>7, <2>8, <2>9 DEF SamplesInv
<1>12. ASSUME NEW w \in Workers, WorkerForwardsFailure(w) \/ CheckFailed(w) \/ CheckBusy(w) PROVE SamplesInv'
  <2>1. /\ \/ to_master' = to_master
           \/ to_master' = [to_master EXCEPT ![w] = Append(@, [type |-> "BenchmarkFailure"])]
        /\ UNCHANGED <<current_task_index, client, requests, taken, sampler, profile_sampler, raw_samples, stored>>
    BY <1>12 DEF WorkerForwardsFailure, CheckFailed, CheckBusy, Handled
  <2> QED
    BY <1>1, <1>4, <1>7, <2>1
<1>13. ASSUME NEW w \in Workers, WakeupToCheck(w) PROVE SamplesInv'
  <2>1. /\ to_master' = [to_master EXCEPT ![w] = to_master[w] \o SamplesMessage(w)]
        /\ sampler' = [sampler EXCEPT ![w] = <<>>]
        /\ profile_sampler' = IF sampler[w] = <<>> THEN profile_sampler ELSE [profile_sampler EXCEPT ![w] = <<>>]
        /\ UNCHANGED <<current_task_index, client, requests, taken, raw_samples, stored>>
    BY <1>13 DEF WakeupToCheck
  <2>2. sampler \in [Workers -> Seq(Samples)] /\ profile_sampler \in [Workers -> Seq(Samples)]
    BY DEF TypeOK
  <2>3. /\ sampler'[w] = <<>> /\ profile_sampler'[w] = (IF sampler[w] = <<>> THEN profile_sampler[w] ELSE <<>>)
        /\ to_master'[w] = to_master[w] \o SamplesMessage(w)
        /\ \A v \in Workers \ {w} : /\ to_master'[v] = to_master[v] /\ sampler'[v] = sampler[v]
                                    /\ profile_sampler'[v] = profile_sampler[v]
    BY <1>2, <2>1, <2>2
  <2>4. SamplesOfWorker(w)'
    BY <1>1, <2>1, <2>3, SamplesAreSent
  <2>5. ASSUME NEW v \in Workers \ {w} PROVE SamplesOfWorker(v)'
    BY <1>1, <2>1, <2>3, SamplesKept DEF Buffered
  <2> QED
    BY <1>1, <1>3, <2>1, <2>4, <2>5 DEF SamplesInv
<1>14. ASSUME NEW c \in Clients, Client(c) PROVE SamplesInv'
  <2>1. /\ ClientRuns(c) /\ AddSample(c) /\ UNCHANGED <<raw_samples, stored, to_master, current_task_index>>
        /\ \/ client' = client /\ requests' = [requests EXCEPT ![c] = @ + 1]
           \/ client' = [client EXCEPT ![c] = "finished"] /\ requests' = requests
    BY <1>14 DEF Client, ClientContinues, ClientFinishes
  <2> QED
    BY <2>1, SampleAdded
<1>15. CASE UNCHANGED vars
  BY <1>5, <1>15 DEF vars
<1>16. ASSUME NEW w \in Workers, \/ ChildActorExited(w) \/ WorkerExits(w) \/ ExecutorFinishes(w)
                                 \/ WorkerDrive(w) \/ WorkerCompleteCurrentTask(w)
       PROVE  SamplesInv'
  BY <1>5, <1>16 DEF ChildActorExited, WorkerExits, ExecutorFinishes, WorkerDrive, WorkerCompleteCurrentTask
<1>17. ASSUME NEW c \in Clients, ClientRaises(c) PROVE SamplesInv'
  BY <1>5, <1>17 DEF ClientRaises
<1> QED
  BY <1>8, <1>9, <1>10, <1>11, <1>12, <1>13, <1>14, <1>15, <1>16, <1>17, SamplesDrive
     DEF Next, Coordinator, WorkerMailbox, WorkerWakeup, DriveSteps

\* There are no samples yet.
LEMMA SamplesInitially == Init => SamplesInv
<1> SUFFICES ASSUME Init PROVE SamplesInv
  OBVIOUS
<1>1. raw_samples = {} /\ stored = {} /\ taken = {}
  BY DEF Init
<1>2. ASSUME NEW w \in Workers PROVE SamplesOfWorker(w)
  <2>1. sampler[w] = <<>> /\ profile_sampler[w] = <<>> /\ to_master[w] = <<>>
    BY DEF Init
  <2>2. Elements(<<>>) = {} /\ Separate(<<>>)
    BY DEF Elements, Separate
  <2> QED
    BY <1>1, <2>1, <2>2 DEF SamplesOfWorker, Mailed, Buffered
<1> QED
  BY <1>1, <1>2 DEF SamplesInv, SamplesAreNumbered

(***************************************************************************)
(* No sample is processed twice, for any number of workers and clients and *)
(* any allocation matrix: it is in a sampler, in a message, among the raw  *)
(* samples or in the metrics store, whatever interleaves with the two      *)
(* halves of the wake-up handler and with post-processing.                 *)
(***************************************************************************)
THEOREM SamplesAreUnique == Spec => []SampleInOnePlace
<1>1. SamplesInv => SampleInOnePlace
  <2> SUFFICES ASSUME SamplesInv PROVE SampleInOnePlace
    OBVIOUS
  <2> DEFINE InFlight(w) == UNION {Elements(m.samples) \union Elements(m.profile) :
                                     m \in {x \in Elements(to_master[w]) : x.type = "UpdateSamples"}}
  <2>1. ASSUME NEW w \in Workers PROVE InFlight(w) = Mailed(to_master[w])
    BY DEF Mailed, SamplesOf
  <2>2. \A w \in Workers :
           /\ InFlight(w) \intersect (raw_samples \union stored) = {}
           /\ Buffered(w) \intersect (InFlight(w) \union raw_samples \union stored) = {}
    BY <2>1 DEF SamplesInv, SamplesOfWorker
  <2> QED
    BY <2>2 DEF SampleInOnePlace, SamplesInv, Buffered
<1>2. IInv /\ IInv' /\ SamplesInv /\ [Next]_vars => SamplesInv'
  BY SamplesStep DEF IInv, BarrierInv
<1> QED
  BY <1>1, <1>2, SamplesInitially, Invariance, PTL DEF Spec
-----------------------------------------------------------------------------
(* Join points *)

\* Where drive() never skips a row: of two rows in a row one is a join point,
\* which is so when no parallel element has more tasks than clients.
OneRowEach == \A i \in 1 .. NumRows - 1 : IsJoinRow(i) \/ IsJoinRow(i + 1)

\* Where every sample goes to the default queue, the one that send_samples asks.
NothingProfiled == \A c \in Clients : \A i \in Rows : Allocations[c][i].kind = "task" => Allocations[c][i].profiled = 0

AtTasks(w) == current_task_index[w] \in Rows /\ ~IsJoinRow(current_task_index[w])
Failed(w) == HasMessage(to_master[w], "BenchmarkFailure") \/ "BenchmarkFailure" \in Elements(reports)

\* Tasks are cut short only while they are there, and looked at until they end.
LooksAgain(w) ==
    /\ complete[w] => AtTasks(w)
    /\ AtTasks(w) => timers[w] = 1 \/ Busy(w) \/ Failed(w)

\* A worker sends its samples before its report, so that they are there when the report is.
SamplesPrecede(w) ==
    /\ \A i, k \in 1 .. Len(to_master[w]) :
          to_master[w][i].type = "UpdateSamples" /\ to_master[w][k].type = "JoinPointReached" => i < k
    /\ w \in workers_completed_current_step => ~HasMessage(to_master[w], "UpdateSamples")

\* No sample is lost on its way.
Unsent(w) == Elements(sampler[w])
SamplesArrive(w) ==
    /\ profile_sampler[w] = <<>>
    /\ sampler[w] # <<>> => AtTasks(w)
    /\ OwnSamples(w) \subseteq stored \union raw_samples \union Mailed(to_master[w]) \union Unsent(w)

DeliveryInv ==
    /\ SamplesStoredAtJoinPoint
    /\ \A w \in Workers : LooksAgain(w) /\ SamplesPrecede(w) /\ SamplesArrive(w)

\* From tasks drive() reaches a join point, and it comes to tasks only from one.
LEMMA DriveAlternates ==
    ASSUME OneRowEach, TypeOK, NEW w \in Workers, NEW pending \in Nat, DriveOn(w, pending),
           complete[w] => AtTasks(w)
    PROVE  LET j == current_task_index'[w]
           IN  /\ j \in Rows
               /\ \A v \in Workers \ {w} : current_task_index'[v] = current_task_index[v]
               /\ \/ IsJoinRow(j) /\ DriveToJoinPoint(w, j, pending)
                  \/ ~IsJoinRow(j) /\ ~AtTasks(w) /\ DriveExecutor(w, j, pending)
<1>1. PICK j \in Rows :
        /\ IsNextRow(w, j)
        /\ current_task_index' = [current_task_index EXCEPT ![w] = j]
        /\ DriveToJoinPoint(w, j, pending) \/ DriveSkips(w, j, pending) \/ DriveExecutor(w, j, pending)
  BY DEF DriveOn
<1>2. /\ current_task_index[w] \in 0 .. NumRows /\ current_task_index'[w] = j
      /\ \A v \in Workers \ {w} : current_task_index'[v] = current_task_index[v]
  BY <1>1 DEF TypeOK
<1>3. IsJoinPoint(w, j) <=> IsJoinRow(j)
  BY <1>1, JoinRowForAll DEF IsNextRow
<1>4. ASSUME AtTasks(w) PROVE IsJoinRow(j)
  <2> DEFINE i == current_task_index[w]
  <2>1. i \in Rows /\ j \in Rows /\ j > i /\ ~IsJoinRow(i) /\ NumRows \in Nat
    BY <1>1, <1>4, BoundsAssumption DEF AtTasks, IsNextRow
  <2>2. i \in 1 .. NumRows - 1 /\ i + 1 \in Rows
    BY <2>1 DEF Rows
  <2>3. IsJoinRow(i + 1)
    BY <2>1, <2>2 DEF OneRowEach
  <2>4. TasksAt(w, i + 1) # {}
    BY <2>2, <2>3, JoinRowForAll
  <2>5. \A k \in i + 1 .. j - 1 : TasksAt(w, k) = {}
    BY <1>1 DEF IsNextRow
  <2>6. j = i + 1
    BY <2>1, <2>2, <2>4, <2>5 DEF Rows
  <2> QED
    BY <2>3, <2>6
<1> QED
  BY <1>1, <1>2, <1>3, <1>4 DEF DriveToJoinPoint, DriveSkips, DriveExecutor

\* At a join point drive() sends the samples first and its report behind them.
LEMMA ReportIsSent ==
    ASSUME TypeOK, NEW w \in Workers, NEW j \in Rows, NEW pending \in Nat, DriveToJoinPoint(w, j, pending)
    PROVE  LET q == to_master[w] \o SamplesMessage(w)
               m == [type |-> "JoinPointReached", row |-> j]
           IN  /\ q \in Seq(WorkerMessages) /\ m \in WorkerMessages /\ m.type = "JoinPointReached"
               /\ to_master'[w] = Append(q, m)
               /\ \A v \in Workers \ {w} : to_master'[v] = to_master[v]
<1> DEFINE q == to_master[w] \o SamplesMessage(w)
           m == [type |-> "JoinPointReached", row |-> j]
<1>1. q \in Seq(WorkerMessages)
  BY SamplesSent
<1>2. to_master \in [Workers -> Seq(WorkerMessages)]
  BY DEF TypeOK
<1>3. m \in WorkerMessages /\ m.type = "JoinPointReached"
  BY DEF WorkerMessages
<1>4. to_master' = [to_master EXCEPT ![w] = q \o <<m>>]
  BY DEF DriveToJoinPoint
<1> HIDE DEF q, m, WorkerMessages
<1>5. to_master'[w] = Append(q, m) /\ \A v \in Workers \ {w} : to_master'[v] = to_master[v]
  BY <1>1, <1>2, <1>3, <1>4
<1> QED
  BY <1>1, <1>3, <1>5 DEF q, m

\* What has been reported stays reported.
LEMMA ReportsStay ==
    ASSUME TypeOK, NEW r \in {"TaskFinished", "BenchmarkComplete", "BenchmarkFailure"},
           reports' = Append(reports, r)
    PROVE  Elements(reports') = Elements(reports) \union {r}
<1> DEFINE S == {"TaskFinished", "BenchmarkComplete", "BenchmarkFailure"}
<1>1. reports \in Seq(S) /\ r \in S
  BY DEF TypeOK
<1> HIDE DEF S
<1>2. Elements(Append(reports, r)) = Elements(reports) \union {r}
  BY <1>1, ElementsMail
<1> QED
  BY <1>2

\* A failure goes to the master and from there to start_sender.
LEMMA FailedKept ==
    ASSUME TypeOK, NEW v \in Workers, Failed(v), Elements(reports) \subseteq Elements(reports')
    PROVE  /\ to_master'[v] = to_master[v] => Failed(v)'
           /\ \A m : Sends(v, m) => Failed(v)'
           /\ Handles(v) /\ (Head(to_master[v]).type = "BenchmarkFailure" => "BenchmarkFailure" \in Elements(reports'))
                => Failed(v)'
<1>1. to_master[v] \in Seq(WorkerMessages)
  BY DEF TypeOK
<1> HIDE DEF WorkerMessages
<1>2. to_master'[v] = to_master[v] => Failed(v)'
  BY DEF Failed, HasMessage
<1>3. ASSUME NEW m, Sends(v, m) PROVE Failed(v)'
  BY <1>1, <1>3, HasMessageAppend DEF Failed, Sends
<1>4. ASSUME Handles(v), Head(to_master[v]).type = "BenchmarkFailure" => "BenchmarkFailure" \in Elements(reports')
      PROVE  Failed(v)'
  BY <1>1, <1>4, HasMessageTail DEF Failed, Handles
<1> QED
  BY <1>2, <1>3, <1>4

\* A worker that does not move keeps looking.
LEMMA LooksKept ==
    ASSUME NEW v \in Workers, LooksAgain(v), current_task_index'[v] = current_task_index[v],
           complete'[v] => complete[v] \/ AtTasks(v), timers'[v] = timers[v],
           Busy(v) => Busy(v)', Failed(v) => Failed(v)'
    PROVE  LooksAgain(v)'
<1>1. AtTasks(v)' <=> AtTasks(v)
  BY DEF AtTasks
<1> QED
  BY <1>1 DEF LooksAgain

\* A client runs at tasks.
LEMMA RunsAtTasks ==
    ASSUME RunningInv, NEW c \in Clients, client[c] = "running"
    PROVE  AssignedWorker[c] \in Workers /\ AtTasks(AssignedWorker[c])
<1> DEFINE i == current_task_index[AssignedWorker[c]]
<1>1. i \in Rows /\ Allocations[c][i].kind = "task"
  BY DEF RunningInv, Executing
<1>2. ~IsJoinRow(i)
  BY <1>1, MatrixAssumption DEF IsJoinRow
<1> QED
  BY <1>1, <1>2, AssignmentAssumption DEF AtTasks

\* Every step keeps it.
LEMMA LooksStep ==
    ASSUME OneRowEach, TypeOK, RunningInv, BarrierInv, [Next]_vars,
           \A v \in Workers : WakeupOf(v) /\ StartsFirst(v) /\ WaitsAtJoinPoint(v) /\ LooksAgain(v),
           \A v \in Workers : WakeupOf(v)'
    PROVE  \A v \in Workers : LooksAgain(v)'
<1> USE DEF coordinatorVars, workerVars, clientVars
<1>1. /\ timers \in [Workers -> Nat] /\ handling \in [Workers -> Progress \union {NotHandling}]
      /\ complete \in [Workers -> BOOLEAN] /\ current_task_index \in [Workers -> 0 .. NumRows]
      /\ to_master \in [Workers -> Seq(WorkerMessages)]
  BY DEF TypeOK
<1>2. ASSUME UNCHANGED <<current_task_index, complete, timers, handling>>,
             Elements(reports) \subseteq Elements(reports'),
             \A v \in Workers :
                \/ to_master'[v] = to_master[v] \/ Sends(v, [type |-> "BenchmarkFailure"])
                \/ Handles(v) /\ (Head(to_master[v]).type = "BenchmarkFailure" => "BenchmarkFailure" \in Elements(reports'))
      PROVE  \A v \in Workers : LooksAgain(v)'
  <2>1. \A v \in Workers : Failed(v) => Failed(v)'
    BY <1>2, FailedKept
  <2> QED
    BY <1>2, <2>1, LooksKept DEF Busy
<1>3. CASE MasterWakeup \/ UNCHANGED vars
  <2>1. /\ UNCHANGED <<current_task_index, complete, timers, handling, to_master>>
        /\ reports' = reports \/ reports' = Append(reports, "BenchmarkFailure")
    BY <1>3 DEF MasterWakeup, vars
  <2> QED
    BY <1>2, <2>1, ReportsStay
<1>4. ASSUME NEW w \in Workers, NEW t, MasterReceives(w, t),
             UNCHANGED <<current_task_index, complete, timers, handling>>,
             Elements(reports) \subseteq Elements(reports'),
             t = "BenchmarkFailure" => "BenchmarkFailure" \in Elements(reports')
      PROVE  \A v \in Workers : LooksAgain(v)'
  <2>1. \A v \in Workers : to_master'[v] = to_master[v] \/ (v = w /\ Handles(v) /\ Head(to_master[v]).type = t)
    BY <1>4, MasterTakes
  <2> QED
    BY <1>2, <1>4, <2>1
<1>5. ASSUME NEW w \in Workers, Coordinator(w) PROVE \A v \in Workers : LooksAgain(v)'
  <2>1. CASE JoinPointPending(w) \/ JoinPointRaises(w) \/ MasterUpdateSamples(w)
    <3>1. /\ MasterReceives(w, "JoinPointReached") \/ MasterReceives(w, "UpdateSamples")
          /\ UNCHANGED <<current_task_index, complete, timers, handling, reports>>
      BY <2>1 DEF JoinPointPending, JoinPointRaises, AllWorkersReached, MasterUpdateSamples
    <3> QED
      BY <1>4, <3>1
  <2>2. CASE MoveToNextTask(w) \/ BenchmarkCompleted(w)
    <3>1. /\ MasterReceives(w, "JoinPointReached") /\ UNCHANGED <<current_task_index, complete, timers, handling>>
          /\ reports' = Append(reports, "TaskFinished") \/ reports' = Append(reports, "BenchmarkComplete")
      BY <2>2 DEF MoveToNextTask, BenchmarkCompleted, StepCompleted, AllWorkersReached
    <3>2. Elements(reports) \subseteq Elements(reports')
      BY <3>1, ReportsStay
    <3> QED
      BY <1>4, <3>1, <3>2
  <2>3. CASE MasterReceivesFailure(w)
    <3>1. /\ MasterReceives(w, "BenchmarkFailure") /\ UNCHANGED <<current_task_index, complete, timers, handling>>
          /\ reports' = Append(reports, "BenchmarkFailure")
      BY <2>3 DEF MasterReceivesFailure
    <3>2. Elements(reports') = Elements(reports) \union {"BenchmarkFailure"}
      BY <3>1, ReportsStay
    <3> QED
      BY <1>4, <3>1, <3>2
  <2>4. CASE ChildActorExited(w)
    <3>1. /\ UNCHANGED <<current_task_index, complete, timers, handling, to_master>>
          /\ reports' = Append(reports, "BenchmarkFailure")
      BY <2>4 DEF ChildActorExited
    <3> QED
      BY <1>2, <3>1, ReportsStay
  <2> QED
    BY <1>5, <2>1, <2>2, <2>3, <2>4 DEF Coordinator
<1>6. ASSUME NEW w \in Workers, WorkerExits(w) \/ ExecutorFinishes(w) PROVE \A v \in Workers : LooksAgain(v)'
  BY <1>2, <1>6 DEF WorkerExits, ExecutorFinishes
<1>7. ASSUME NEW w \in Workers, WorkerForwardsFailure(w) PROVE \A v \in Workers : LooksAgain(v)'
  <2>1. /\ UNCHANGED <<current_task_index, complete, timers, handling, reports>>
        /\ \A v \in Workers : to_master'[v] = to_master[v] \/ Sends(v, [type |-> "BenchmarkFailure"])
    BY <1>1, <1>7, FailureMessage DEF WorkerForwardsFailure, Sends
  <2> QED
    BY <1>2, <2>1
<1>8. ASSUME UNCHANGED <<reports, to_master>> PROVE \A v \in Workers : Failed(v) => Failed(v)'
  BY <1>8 DEF Failed
<1>9. ASSUME NEW w \in Workers, WorkerDrive(w) PROVE \A v \in Workers : LooksAgain(v)'
  <2>1. /\ UNCHANGED <<current_task_index, complete, handling, reports, to_master>> /\ WorkerReceives(w, "Drive")
        /\ \A v \in Workers \ {w} : timers'[v] = timers[v]
    BY <1>1, <1>9 DEF WorkerDrive
  <2>2. HasMessage(to_worker[w], "Drive")
    BY <2>1, WorkerMail
  <2>3. ~AtTasks(w)
    BY <2>2 DEF WaitsAtJoinPoint, Waits, AtJoinRow, AtTasks
  <2>4. LooksAgain(w)'
    BY <2>1, <2>3 DEF LooksAgain, AtTasks
  <2>5. \A v \in Workers \ {w} : LooksAgain(v)'
    BY <1>8, <2>1, LooksKept DEF Busy
  <2> QED
    BY <2>4, <2>5
<1>10. ASSUME NEW w \in Workers, WorkerCompleteCurrentTask(w) PROVE \A v \in Workers : LooksAgain(v)'
  <2>1. /\ UNCHANGED <<current_task_index, timers, handling, reports, to_master>>
        /\ WorkerReceives(w, "CompleteCurrentTask")
        /\ \A v \in Workers : complete'[v] => complete[v] \/ (v = w /\ ~IsJoinPoint(w, current_task_index[w]))
    BY <1>1, <1>10 DEF WorkerCompleteCurrentTask
  <2>2. MailTaken(w) /\ Head(to_worker[w]).type = "CompleteCurrentTask"
    BY <2>1, WorkerTakes
  <2>3. to_worker[w][1].type = "CompleteCurrentTask"
    BY <2>2, MailPositions
  <2>4. current_task_index[w] # 0
    BY <2>3 DEF StartsFirst, HasMessage
  <2>5. current_task_index[w] \in Rows
    BY <1>1, <2>4, BoundsAssumption DEF Rows
  <2>6. ~IsJoinPoint(w, current_task_index[w]) => AtTasks(w)
    BY <2>5, JoinRowForAll DEF AtTasks
  <2> QED
    BY <1>8, <2>1, <2>6, LooksKept DEF Busy
<1>11. ASSUME NEW w \in Workers, WakeupToCheck(w) PROVE \A v \in Workers : LooksAgain(v)'
  <2>1. /\ UNCHANGED <<current_task_index, complete, reports>>
        /\ to_master' = [to_master EXCEPT ![w] = to_master[w] \o SamplesMessage(w)]
        /\ timers' = [timers EXCEPT ![w] = timers[w] - 1]
        /\ handling' = [handling EXCEPT ![w] = IF sampler[w] = <<>> THEN "none" ELSE sampler[w][Len(sampler[w])].progress]
    BY <1>11 DEF WakeupToCheck
  <2>2. Busy(w)'
    <3>1. sampler[w] \in Seq(Samples)
      BY DEF TypeOK
    <3>2. sampler[w] # <<>> => sampler[w][Len(sampler[w])] \in Samples
      BY <3>1
    <3>3. sampler[w] # <<>> => sampler[w][Len(sampler[w])].progress \in Progress
      BY <3>2 DEF Samples
    <3> QED
      BY <1>1, <2>1, <3>3 DEF Busy, NotHandling, Progress, Units
  <2>3. \A v \in Workers \ {w} : /\ timers'[v] = timers[v] /\ handling'[v] = handling[v] /\ to_master'[v] = to_master[v]
    BY <1>1, <2>1
  <2>4. LooksAgain(w)'
    BY <2>1, <2>2 DEF LooksAgain, AtTasks
  <2>5. \A v \in Workers \ {w} : LooksAgain(v)'
    BY <2>1, <2>3, LooksKept, FailedKept DEF Busy
  <2> QED
    BY <2>4, <2>5
<1>12. ASSUME NEW w \in Workers, CheckFailed(w) \/ CheckBusy(w) PROVE \A v \in Workers : LooksAgain(v)'
  <2>1. /\ UNCHANGED <<current_task_index, complete, reports>> /\ Busy(w)
        /\ \A v \in Workers \ {w} : /\ timers'[v] = timers[v] /\ handling'[v] = handling[v]
                                    /\ to_master'[v] = to_master[v]
        /\ \/ to_master' = [to_master EXCEPT ![w] = Append(@, [type |-> "BenchmarkFailure"])]
           \/ timers' = [timers EXCEPT ![w] = @ + 1]
    BY <1>1, <1>12 DEF CheckFailed, CheckBusy, Handled, Busy
  <2>2. timers[w] = 0
    BY <2>1 DEF WakeupOf
  <2>3. ASSUME to_master' = [to_master EXCEPT ![w] = Append(@, [type |-> "BenchmarkFailure"])] PROVE Failed(w)'
    <3> DEFINE m == [type |-> "BenchmarkFailure"]
    <3>1. to_master'[w] = Append(to_master[w], m) /\ m \in WorkerMessages /\ m.type = "BenchmarkFailure"
      BY <1>1, <2>3, FailureMessage
    <3> HIDE DEF m, WorkerMessages
    <3>2. HasMessage(Append(to_master[w], m), "BenchmarkFailure")
      BY <1>1, <3>1, HasMessageAppend
    <3> QED
      BY <3>1, <3>2 DEF Failed
  <2>4. timers'[w] = 1 \/ Failed(w)'
    BY <1>1, <2>1, <2>2, <2>3
  <2>5. LooksAgain(w)'
    BY <2>1, <2>4 DEF LooksAgain, AtTasks
  <2>6. \A v \in Workers \ {w} : LooksAgain(v)'
    BY <2>1, LooksKept, FailedKept DEF Busy
  <2> QED
    BY <2>5, <2>6
<1>13. ASSUME NEW c \in Clients, Client(c) \/ ClientRaises(c) PROVE \A v \in Workers : LooksAgain(v)'
  <2>1. /\ UNCHANGED <<current_task_index, timers, handling, reports, to_master>> /\ client[c] = "running"
        /\ \A v \in Workers \ {AssignedWorker[c]} : complete'[v] = complete[v]
    BY <1>1, <1>13 DEF Client, ClientContinues, ClientFinishes, ClientRaises, ClientRuns
  <2>2. AtTasks(AssignedWorker[c])
    BY <2>1, RunsAtTasks
  <2> QED
    BY <1>8, <2>1, <2>2, LooksKept DEF Busy
<1>14. ASSUME NEW w \in Workers, DriveSteps(w) PROVE \A v \in Workers : LooksAgain(v)'
  <2>1. PICK pending \in Nat : DriveOn(w, pending)
    BY <1>14, Driven
  <2> DEFINE j == current_task_index'[w]
  <2>2. /\ j \in Rows
        /\ \A v \in Workers \ {w} : current_task_index'[v] = current_task_index[v]
        /\ \/ IsJoinRow(j) /\ DriveToJoinPoint(w, j, pending)
           \/ ~IsJoinRow(j) /\ ~AtTasks(w) /\ DriveExecutor(w, j, pending)
    BY <2>1, DriveAlternates DEF LooksAgain
  <2>3. /\ UNCHANGED reports
        /\ \A v \in Workers \ {w} : handling'[v] = handling[v]
    BY <1>1, <1>14, Driven DEF DriveSteps, WorkerStart, WakeupToDrive, CheckDone, Handled
  <2>4. \A v \in Workers \ {w} : to_master'[v] = to_master[v]
    BY <1>14, WaitsDrive
  <2>5. \A v \in Workers \ {w} : timers'[v] = timers[v] /\ complete'[v] = complete[v]
    BY <1>1, <2>2 DEF DriveToJoinPoint, DriveExecutor
  <2>6. \A v \in Workers \ {w} : LooksAgain(v)'
    BY <2>2, <2>3, <2>4, <2>5, LooksKept, FailedKept DEF Busy
  <2>7. LooksAgain(w)'
    <3>1. CASE DriveToJoinPoint(w, j, pending) /\ IsJoinRow(j)
      BY <1>1, <3>1 DEF DriveToJoinPoint, LooksAgain, AtTasks
    <3>2. CASE DriveExecutor(w, j, pending) /\ ~AtTasks(w)
      <4>1. timers'[w] = pending + 1 /\ ~complete'[w]
        BY <1>1, <3>2 DEF DriveExecutor
      <4>2. timers'[w] <= 1
        BY DEF WakeupOf
      <4>3. timers'[w] = 1
        BY <4>1, <4>2
      <4> QED
        BY <4>1, <4>3 DEF LooksAgain
    <3> QED
      BY <2>2, <3>1, <3>2
  <2> QED
    BY <2>6, <2>7
<1> QED
  BY <1>3, <1>5, <1>6, <1>7, <1>9, <1>10, <1>11, <1>12, <1>13, <1>14
     DEF Next, WorkerMailbox, WorkerWakeup, DriveSteps

\* What keeps the order of a worker's messages.
Ordered(q) == \A i, k \in 1 .. Len(q) : q[i].type = "UpdateSamples" /\ q[k].type = "JoinPointReached" => i < k

LEMMA OrderKept ==
    ASSUME TypeOK, NEW v \in Workers, Ordered(to_master[v])
    PROVE  /\ Handles(v) => Ordered(to_master'[v])
           /\ \A m : Sends(v, m) /\ (m.type = "UpdateSamples" => ~HasMessage(to_master[v], "JoinPointReached"))
                => Ordered(to_master'[v])
<1> USE ReportPositions
<1>1. ASSUME Handles(v) PROVE Ordered(to_master'[v])
  <2> DEFINE q == to_master[v]  r == to_master'[v]
  <2>1. Len(r) = Len(q) - 1 /\ Len(q) \in Nat /\ Len(q) > 0 /\ \A i \in 1 .. Len(q) - 1 : r[i] = q[i + 1]
    BY <1>1
  <2>2. ASSUME NEW i \in 1 .. Len(r), NEW k \in 1 .. Len(r),
               r[i].type = "UpdateSamples", r[k].type = "JoinPointReached"
        PROVE  i < k
    <3>1. i + 1 \in 1 .. Len(q) /\ k + 1 \in 1 .. Len(q) /\ r[i] = q[i + 1] /\ r[k] = q[k + 1]
      BY <2>1
    <3>2. i + 1 < k + 1
      BY <2>2, <3>1 DEF Ordered
    <3> QED
      BY <2>1, <3>2
  <2> QED
    BY <2>2 DEF Ordered
<1>2. ASSUME NEW m, Sends(v, m), m.type = "UpdateSamples" => ~HasMessage(to_master[v], "JoinPointReached")
      PROVE  Ordered(to_master'[v])
  <2> DEFINE q == to_master[v]  r == to_master'[v]
  <2>1. Len(r) = Len(q) + 1 /\ Len(q) \in Nat /\ r[Len(q) + 1] = m /\ \A i \in 1 .. Len(q) : r[i] = q[i]
    BY <1>2
  <2>2. ASSUME NEW i \in 1 .. Len(r), NEW k \in 1 .. Len(r),
               r[i].type = "UpdateSamples", r[k].type = "JoinPointReached"
        PROVE  i < k
    <3>1. CASE i \in 1 .. Len(q) /\ k \in 1 .. Len(q)
      BY <2>1, <2>2, <3>1 DEF Ordered
    <3>2. CASE i \in 1 .. Len(q) /\ k = Len(q) + 1
      BY <2>1, <3>2
    <3>3. CASE i = Len(q) + 1
      <4>1. m.type = "UpdateSamples" /\ k # i
        BY <2>1, <2>2, <3>3
      <4>2. k \in 1 .. Len(q) /\ q[k].type = "JoinPointReached"
        BY <2>1, <2>2, <3>3, <4>1
      <4> QED
        BY <1>2, <4>1, <4>2 DEF HasMessage
    <3> QED
      BY <2>1, <3>1, <3>2, <3>3
  <2> QED
    BY <2>2 DEF Ordered
<1> QED
  BY <1>1, <1>2

\* What keeps SamplesPrecede of worker v.
LEMMA PrecedeKept ==
    ASSUME TypeOK, NEW v \in Workers, SamplesPrecede(v),
           v \in workers_completed_current_step' => v \in workers_completed_current_step
    PROVE  /\ to_master'[v] = to_master[v] \/ Handles(v) => SamplesPrecede(v)'
           /\ \A m : Sends(v, m) /\ m.type # "UpdateSamples" => SamplesPrecede(v)'
<1>1. to_master[v] \in Seq(WorkerMessages) /\ Ordered(to_master[v])
  BY DEF TypeOK, SamplesPrecede, Ordered
<1>2. v \in workers_completed_current_step' => ~HasMessage(to_master[v], "UpdateSamples")
  BY DEF SamplesPrecede
<1>3. SamplesPrecede(v)' <=> /\ Ordered(to_master'[v])
                             /\ v \in workers_completed_current_step' => ~HasMessage(to_master'[v], "UpdateSamples")
  BY DEF SamplesPrecede, Ordered
<1> HIDE DEF WorkerMessages
<1>4. to_master'[v] = to_master[v] => SamplesPrecede(v)'
  BY <1>1, <1>2, <1>3
<1>5. ASSUME Handles(v) PROVE SamplesPrecede(v)'
  <2>1. HasMessage(to_master'[v], "UpdateSamples") => HasMessage(to_master[v], "UpdateSamples")
    BY <1>1, <1>5, HasMessageTail DEF Handles
  <2> QED
    BY <1>1, <1>2, <1>3, <1>5, <2>1, OrderKept
<1>6. ASSUME NEW m, Sends(v, m), m.type # "UpdateSamples" PROVE SamplesPrecede(v)'
  <2>1. HasMessage(to_master'[v], "UpdateSamples") => HasMessage(to_master[v], "UpdateSamples")
    BY <1>1, <1>6, HasMessageAppend DEF Sends
  <2> QED
    BY <1>1, <1>2, <1>3, <1>6, <2>1, OrderKept
<1> QED
  BY <1>4, <1>5, <1>6

\* A worker with an executor has not reported.
LEMMA NotReported ==
    ASSUME TypeOK, BarrierInv, NEW w \in Workers, executor_future[w] # "none"
    PROVE  ~HasMessage(to_master[w], "JoinPointReached") /\ w \notin workers_completed_current_step
BY DEF BarrierInv, LockInv, LockstepOf, Resting

\* When its report is handled, no samples of the worker are left behind it.
LEMMA NoneBehindReport ==
    ASSUME TypeOK, NEW w \in Workers, SamplesPrecede(w), MasterReceives(w, "JoinPointReached")
    PROVE  ~HasMessage(to_master[w], "UpdateSamples")
<1>1. Handles(w) /\ Head(to_master[w]).type = "JoinPointReached"
  BY MasterTakes
<1>2. to_master[w][1].type = "JoinPointReached" /\ Len(to_master[w]) > 0 /\ Len(to_master[w]) \in Nat
  BY <1>1, ReportPositions
<1> QED
  BY <1>2 DEF SamplesPrecede, HasMessage

\* Every step keeps it.
LEMMA PrecedeStep ==
    ASSUME TypeOK, BarrierInv, [Next]_vars, \A v \in Workers : WakeupOf(v) /\ SamplesPrecede(v)
    PROVE  \A v \in Workers : SamplesPrecede(v)'
<1> USE DEF coordinatorVars, workerVars, clientVars
<1>1. /\ to_master \in [Workers -> Seq(WorkerMessages)] /\ executor_future \in [Workers -> Futures]
  BY DEF TypeOK
<1>2. ASSUME workers_completed_current_step' \subseteq workers_completed_current_step,
             \A v \in Workers : to_master'[v] = to_master[v] \/ Handles(v) \/ Sends(v, [type |-> "BenchmarkFailure"])
      PROVE  \A v \in Workers : SamplesPrecede(v)'
  BY <1>2, PrecedeKept
<1>3. ASSUME NEW w \in Workers, MasterReceives(w, "JoinPointReached"),
             workers_completed_current_step' \subseteq workers_completed_current_step \union {w}
      PROVE  \A v \in Workers : SamplesPrecede(v)'
  <2>1. /\ Handles(w) /\ \A v \in Workers \ {w} : to_master'[v] = to_master[v]
    BY <1>3, MasterTakes
  <2>2. \A v \in Workers \ {w} : SamplesPrecede(v)'
    BY <1>3, <2>1, PrecedeKept
  <2>3. ~HasMessage(to_master[w], "UpdateSamples") /\ Ordered(to_master[w])
    BY <1>3, NoneBehindReport DEF SamplesPrecede, Ordered
  <2>4. ~HasMessage(to_master'[w], "UpdateSamples")
    BY <1>1, <2>1, <2>3, HasMessageTail DEF Handles
  <2>5. Ordered(to_master'[w])
    BY <2>1, <2>3, OrderKept
  <2>6. SamplesPrecede(w)'
    BY <2>4, <2>5 DEF SamplesPrecede, Ordered
  <2> QED
    BY <2>2, <2>6
<1>4. ASSUME NEW w \in Workers, Coordinator(w) PROVE \A v \in Workers : SamplesPrecede(v)'
  <2>1. CASE JoinPointPending(w) \/ JoinPointRaises(w) \/ MoveToNextTask(w) \/ BenchmarkCompleted(w)
    <3>1. /\ MasterReceives(w, "JoinPointReached")
          /\ workers_completed_current_step' \subseteq workers_completed_current_step \union {w}
      BY <2>1 DEF JoinPointPending, JoinPointRaises, MoveToNextTask, BenchmarkCompleted, StepCompleted, AllWorkersReached
    <3> QED
      BY <1>3, <3>1
  <2>2. CASE MasterUpdateSamples(w) \/ MasterReceivesFailure(w)
    <3>1. /\ MasterReceives(w, "UpdateSamples") \/ MasterReceives(w, "BenchmarkFailure")
          /\ UNCHANGED workers_completed_current_step
      BY <2>2 DEF MasterUpdateSamples, MasterReceivesFailure
    <3> QED
      BY <1>2, <3>1, MasterTakes
  <2>3. CASE ChildActorExited(w)
    BY <1>2, <2>3 DEF ChildActorExited
  <2> QED
    BY <1>4, <2>1, <2>2, <2>3 DEF Coordinator
<1>5. CASE MasterWakeup \/ UNCHANGED vars
  BY <1>2, <1>5 DEF MasterWakeup, vars
<1>6. ASSUME NEW w \in Workers, \/ WorkerExits(w) \/ ExecutorFinishes(w) \/ WorkerDrive(w)
                                \/ WorkerCompleteCurrentTask(w)
      PROVE  \A v \in Workers : SamplesPrecede(v)'
  BY <1>2, <1>6 DEF WorkerExits, ExecutorFinishes, WorkerDrive, WorkerCompleteCurrentTask
<1>7. ASSUME NEW w \in Workers, WorkerForwardsFailure(w) \/ CheckFailed(w) \/ CheckBusy(w)
      PROVE  \A v \in Workers : SamplesPrecede(v)'
  <2>1. /\ UNCHANGED workers_completed_current_step
        /\ to_master' = to_master \/ to_master' = [to_master EXCEPT ![w] = Append(@, [type |-> "BenchmarkFailure"])]
    BY <1>7 DEF WorkerForwardsFailure, CheckFailed, CheckBusy, Handled
  <2>2. \A v \in Workers : to_master'[v] = to_master[v] \/ Sends(v, [type |-> "BenchmarkFailure"])
    BY <1>1, <2>1, FailureMessage DEF Sends
  <2> QED
    BY <1>2, <2>1, <2>2
<1>8. ASSUME NEW c \in Clients, Client(c) \/ ClientRaises(c) PROVE \A v \in Workers : SamplesPrecede(v)'
  BY <1>2, <1>8 DEF Client, ClientContinues, ClientFinishes, ClientRaises
<1>9. ASSUME NEW w \in Workers, WakeupToCheck(w) PROVE \A v \in Workers : SamplesPrecede(v)'
  <2>1. /\ UNCHANGED workers_completed_current_step /\ ~start_driving[w] /\ timers[w] > 0
        /\ to_master' = [to_master EXCEPT ![w] = to_master[w] \o SamplesMessage(w)]
    BY <1>9 DEF WakeupToCheck
  <2>2. executor_future[w] # "none"
    BY <2>1 DEF WakeupOf
  <2>3. ~HasMessage(to_master[w], "JoinPointReached") /\ w \notin workers_completed_current_step
    BY <2>2, NotReported
  <2>4. to_master'[w] = to_master[w] \/ Sends(w, Update(w))
    BY <1>1, <2>1, SamplesMailed DEF Sends
  <2>5. \A v \in Workers \ {w} : to_master'[v] = to_master[v]
    BY <1>1, <2>1
  <2>6. Ordered(to_master[w])
    BY DEF SamplesPrecede, Ordered
  <2>7. Ordered(to_master'[w])
    BY <2>3, <2>4, <2>6, OrderKept
  <2>8. SamplesPrecede(w)'
    BY <2>1, <2>3, <2>7 DEF SamplesPrecede, Ordered
  <2>9. \A v \in Workers \ {w} : SamplesPrecede(v)'
    BY <2>1, <2>5, PrecedeKept
  <2> QED
    BY <2>8, <2>9
<1>10. ASSUME NEW w \in Workers, DriveSteps(w) PROVE \A v \in Workers : SamplesPrecede(v)'
  <2>1. PICK pending \in Nat : DriveOn(w, pending)
    BY <1>10, Driven
  <2>2. /\ UNCHANGED <<workers_completed_current_step, current_step>> /\ AtStep(w) = current_step + 1
        /\ ~HasMessage(to_master[w], "JoinPointReached")
    BY <1>10, Driven
  <2>3. w \notin workers_completed_current_step
    BY <2>2 DEF BarrierInv, LockInv, LockstepOf, TypeOK
  <2> DEFINE j == current_task_index'[w]
  <2>4. /\ j \in Rows
        /\ DriveToJoinPoint(w, j, pending) \/ DriveSkips(w, j, pending) \/ DriveExecutor(w, j, pending)
    BY <2>1, DriveOnRow
  <2>5. CASE DriveSkips(w, j, pending) \/ DriveExecutor(w, j, pending)
    <3>1. UNCHANGED to_master
      BY <2>5 DEF DriveSkips, DriveExecutor
    <3> QED
      BY <1>2, <2>2, <3>1
  <2>6. CASE DriveToJoinPoint(w, j, pending)
    <3> DEFINE q == to_master[w] \o SamplesMessage(w)
               m == [type |-> "JoinPointReached", row |-> j]
    <3>1. /\ q \in Seq(WorkerMessages) /\ m \in WorkerMessages /\ m.type = "JoinPointReached"
          /\ to_master'[w] = Append(q, m) /\ \A v \in Workers \ {w} : to_master'[v] = to_master[v]
      BY <2>4, <2>6, ReportIsSent
    <3>2. ~HasMessage(q, "JoinPointReached")
      BY <2>2, SamplesSent
    <3> HIDE DEF q, m, WorkerMessages
    <3>3. /\ Len(to_master'[w]) = Len(q) + 1 /\ Len(q) \in Nat /\ to_master'[w][Len(q) + 1] = m
          /\ \A i \in 1 .. Len(q) : to_master'[w][i] = q[i]
      BY <3>1, Positions
    <3>4. Ordered(to_master'[w])
      BY <3>1, <3>2, <3>3 DEF Ordered, HasMessage
    <3>5. SamplesPrecede(w)'
      BY <2>2, <2>3, <3>4 DEF SamplesPrecede, Ordered
    <3>6. \A v \in Workers \ {w} : SamplesPrecede(v)'
      BY <2>2, <3>1, PrecedeKept
    <3> QED
      BY <3>5, <3>6
  <2> QED
    BY <2>4, <2>5, <2>6
<1> QED
  BY <1>4, <1>5, <1>6, <1>7, <1>8, <1>9, <1>10 DEF Next, WorkerMailbox, WorkerWakeup, DriveSteps

\* What a message that is sent or handled does to the samples in the mailbox.
LEMMA MailedMoved ==
    ASSUME TypeOK, NEW v \in Workers
    PROVE  /\ \A m : Sends(v, m) => Mailed(to_master'[v]) = Mailed(to_master[v]) \union SamplesOf(m)
           /\ Handles(v) => Mailed(to_master[v]) = SamplesOf(Head(to_master[v])) \union Mailed(to_master'[v])
<1>1. to_master[v] \in Seq(WorkerMessages)
  BY DEF TypeOK
<1> HIDE DEF WorkerMessages
<1>2. ASSUME NEW m, Sends(v, m) PROVE Mailed(to_master'[v]) = Mailed(to_master[v]) \union SamplesOf(m)
  BY <1>1, <1>2, MailedMail DEF Sends
<1>3. Handles(v) => Mailed(to_master[v]) = SamplesOf(Head(to_master[v])) \union Mailed(to_master'[v])
  BY <1>1, MailedMail DEF Handles
<1> QED
  BY <1>2, <1>3

\* send_samples leaves none behind.
LEMMA NoneUnsent ==
    ASSUME TypeOK, NEW v \in Workers, profile_sampler[v] = <<>>
    PROVE  Mailed(to_master[v] \o SamplesMessage(v)) = Mailed(to_master[v]) \union Unsent(v)
<1>1. to_master[v] \in Seq(WorkerMessages)
  BY DEF TypeOK
<1>2. Update(v) \in WorkerMessages
  BY SamplesMailed
<1>3. Elements(<<>>) = {}
  BY DEF Elements
<1>4. SamplesOf(Update(v)) = Unsent(v)
  BY <1>3 DEF SamplesOf, Update, Unsent
<1> HIDE DEF WorkerMessages
<1>5. Mailed(Append(to_master[v], Update(v))) = Mailed(to_master[v]) \union Unsent(v)
  BY <1>1, <1>2, <1>4, MailedMail
<1>6. sampler[v] = <<>> => Unsent(v) = {}
  BY <1>3 DEF Unsent
<1> QED
  BY <1>5, <1>6, SamplesMailed

\* A step that takes no sample of worker v and moves its samples on keeps them.
LEMMA ArriveKept ==
    ASSUME NEW v \in Workers, SamplesArrive(v), UNCHANGED taken, profile_sampler'[v] = <<>>,
           sampler'[v] # <<>> => AtTasks(v)',
           stored \union raw_samples \union Mailed(to_master[v]) \union Unsent(v)
             \subseteq stored' \union raw_samples' \union Mailed(to_master'[v]) \union Unsent(v)'
    PROVE  SamplesArrive(v)'
BY DEF SamplesArrive, OwnSamples

\* Every step keeps it.
LEMMA ArriveStep ==
    ASSUME OneRowEach, NothingProfiled, TypeOK, RunningInv, BarrierInv, [Next]_vars,
           \A v \in Workers : LooksAgain(v) /\ SamplesArrive(v)
    PROVE  \A v \in Workers : SamplesArrive(v)'
<1> USE DEF coordinatorVars, workerVars, clientVars
<1>1. /\ sampler \in [Workers -> Seq(Samples)] /\ profile_sampler \in [Workers -> Seq(Samples)]
      /\ to_master \in [Workers -> Seq(WorkerMessages)] /\ current_task_index \in [Workers -> 0 .. NumRows]
  BY DEF TypeOK
<1>2. \A v \in Workers : profile_sampler[v] = <<>> /\ (sampler[v] # <<>> => AtTasks(v))
  BY DEF SamplesArrive
<1>3. ASSUME UNCHANGED <<current_task_index, sampler, profile_sampler, taken>>,
             \A v \in Workers : stored \union raw_samples \union Mailed(to_master[v])
                                  \subseteq stored' \union raw_samples' \union Mailed(to_master'[v])
      PROVE  \A v \in Workers : SamplesArrive(v)'
  <2>1. \A v \in Workers : Unsent(v)' = Unsent(v) /\ (AtTasks(v)' <=> AtTasks(v))
    BY <1>3 DEF Unsent, AtTasks
  <2> QED
    BY <1>2, <1>3, <2>1, ArriveKept
<1>4. CASE MasterWakeup \/ UNCHANGED vars
  <2>1. /\ UNCHANGED <<current_task_index, sampler, profile_sampler, taken, to_master>>
        /\ stored \union raw_samples \subseteq stored' \union raw_samples'
    BY <1>4 DEF MasterWakeup, PostProcessSamples, vars
  <2> QED
    BY <1>3, <2>1
<1>5. ASSUME NEW w \in Workers, NEW t, MasterReceives(w, t), t # "UpdateSamples"
      PROVE  \A v \in Workers : Mailed(to_master'[v]) = Mailed(to_master[v])
  <2>1. /\ Handles(w) /\ Head(to_master[w]).type = t
        /\ \A v \in Workers \ {w} : to_master'[v] = to_master[v]
    BY <1>5, MasterTakes
  <2>2. SamplesOf(Head(to_master[w])) = {}
    BY <1>5, <2>1 DEF SamplesOf
  <2> QED
    BY <2>1, <2>2, MailedMoved
<1>6. ASSUME NEW w \in Workers, Coordinator(w) PROVE \A v \in Workers : SamplesArrive(v)'
  <2>1. CASE JoinPointPending(w) \/ JoinPointRaises(w) \/ MasterReceivesFailure(w)
    <3>1. /\ MasterReceives(w, "JoinPointReached") \/ MasterReceives(w, "BenchmarkFailure")
          /\ UNCHANGED <<current_task_index, sampler, profile_sampler, taken, raw_samples, stored>>
      BY <2>1 DEF JoinPointPending, JoinPointRaises, AllWorkersReached, MasterReceivesFailure
    <3> QED
      BY <1>3, <1>5, <3>1
  <2>2. CASE MoveToNextTask(w) \/ BenchmarkCompleted(w)
    <3>1. /\ MasterReceives(w, "JoinPointReached") /\ stored' = stored \union raw_samples
          /\ UNCHANGED <<current_task_index, sampler, profile_sampler, taken>>
      BY <2>2 DEF MoveToNextTask, BenchmarkCompleted, StepCompleted, AllWorkersReached, PostProcessSamples
    <3> QED
      BY <1>3, <1>5, <3>1
  <2>3. CASE MasterUpdateSamples(w)
    <3> DEFINE m == Head(to_master[w])
    <3>1. /\ MasterReceives(w, "UpdateSamples")
          /\ raw_samples' = raw_samples \union Elements(m.samples) \union Elements(m.profile)
          /\ UNCHANGED <<current_task_index, sampler, profile_sampler, taken, stored>>
      BY <2>3 DEF MasterUpdateSamples
    <3>2. Handles(w) /\ m.type = "UpdateSamples" /\ \A v \in Workers \ {w} : to_master'[v] = to_master[v]
      BY <3>1, MasterTakes
    <3>3. raw_samples' = raw_samples \union SamplesOf(m)
      BY <3>1, <3>2 DEF SamplesOf
    <3>4. Mailed(to_master[w]) = SamplesOf(m) \union Mailed(to_master'[w])
      BY <3>2, MailedMoved
    <3> HIDE DEF m
    <3> QED
      BY <1>3, <3>1, <3>2, <3>3, <3>4
  <2>4. CASE ChildActorExited(w)
    BY <1>3, <2>4 DEF ChildActorExited
  <2> QED
    BY <1>6, <2>1, <2>2, <2>3, <2>4 DEF Coordinator
<1>7. ASSUME NEW w \in Workers, \/ WorkerExits(w) \/ ExecutorFinishes(w) \/ WorkerDrive(w)
                                \/ WorkerCompleteCurrentTask(w)
      PROVE  \A v \in Workers : SamplesArrive(v)'
  BY <1>3, <1>7 DEF WorkerExits, ExecutorFinishes, WorkerDrive, WorkerCompleteCurrentTask
<1>8. ASSUME NEW w \in Workers, WorkerForwardsFailure(w) \/ CheckFailed(w) \/ CheckBusy(w)
      PROVE  \A v \in Workers : SamplesArrive(v)'
  <2> DEFINE m == [type |-> "BenchmarkFailure"]
  <2>1. /\ UNCHANGED <<current_task_index, sampler, profile_sampler, taken, raw_samples, stored>>
        /\ to_master' = to_master \/ to_master' = [to_master EXCEPT ![w] = Append(@, m)]
    BY <1>8 DEF WorkerForwardsFailure, CheckFailed, CheckBusy, Handled
  <2>2. \A v \in Workers : to_master'[v] = to_master[v] \/ Sends(v, m)
    BY <1>1, <2>1, FailureMessage DEF Sends
  <2> HIDE DEF m
  <2> QED
    BY <1>3, <2>1, <2>2, MailedMoved
<1>9. ASSUME NEW c \in Clients, ClientRaises(c) PROVE \A v \in Workers : SamplesArrive(v)'
  BY <1>3, <1>9 DEF ClientRaises
<1>10. ASSUME NEW c \in Clients, Client(c) PROVE \A v \in Workers : SamplesArrive(v)'
  <2> DEFINE w == AssignedWorker[c]
             s == [client |-> c, row |-> current_task_index[w], n |-> requests[c] + 1,
                   progress |-> IF StoppedByEvent(c) THEN "float" ELSE TaskOf(c).progress]
  <2>1. /\ ClientRuns(c) /\ AddSample(c)
        /\ UNCHANGED <<raw_samples, stored, to_master, current_task_index>>
    BY <1>10 DEF Client, ClientContinues, ClientFinishes
  <2>2. w \in Workers /\ AtTasks(w)
    BY <2>1, RunsAtTasks DEF ClientRuns
  <2>3. TaskOf(c).profiled = 0
    <3>1. current_task_index[w] \in Rows /\ Allocations[c][current_task_index[w]].kind = "task"
      BY <2>1 DEF ClientRuns, RunningInv, Executing
    <3> QED
      BY <3>1 DEF NothingProfiled, TaskOf
  <2>4. ~(requests[c] < TaskOf(c).profiled)
    BY <2>3, BoundsAssumption DEF TypeOK
  <2>5. /\ taken' = taken \union {s} /\ s.client = c
        /\ sampler' = [sampler EXCEPT ![w] = Append(@, s)] /\ UNCHANGED profile_sampler
    BY <2>1, <2>4 DEF AddSample
  <2> HIDE DEF s
  <2>6. s \in Samples
    <3>1. taken' \subseteq Samples
      <4>1. requests[c] <= MaxRequests
        BY BoundsAssumption DEF TypeOK
      <4> QED
        BY <2>1, <4>1, AddSampleType
    <3> QED
      BY <2>5, <3>1
  <2> HIDE DEF w
  <2>7. Unsent(w)' = Unsent(w) \union {s} /\ \A v \in Workers \ {w} : sampler'[v] = sampler[v]
    <3>1. Elements(Append(sampler[w], s)) = Elements(sampler[w]) \union {s}
      BY <1>1, <2>2, <2>6, ElementsMail
    <3> QED
      BY <1>1, <2>2, <2>5, <3>1 DEF Unsent
  <2>8. OwnSamples(w)' = OwnSamples(w) \union {s} /\ \A v \in Workers \ {w} : OwnSamples(v)' = OwnSamples(v)
    BY <2>5 DEF OwnSamples, w
  <2>9. \A v \in Workers : AtTasks(v)' <=> AtTasks(v)
    BY <2>1 DEF AtTasks
  <2>10. SamplesArrive(w)'
    BY <2>1, <2>2, <2>5, <2>7, <2>8, <2>9 DEF SamplesArrive
  <2>11. ASSUME NEW v \in Workers \ {w} PROVE SamplesArrive(v)'
    BY <2>1, <2>5, <2>7, <2>8, <2>9 DEF SamplesArrive, Unsent
  <2> QED
    BY <2>10, <2>11
<1>11. ASSUME NEW w \in Workers, WakeupToCheck(w) PROVE \A v \in Workers : SamplesArrive(v)'
  <2>1. /\ to_master' = [to_master EXCEPT ![w] = to_master[w] \o SamplesMessage(w)]
        /\ sampler' = [sampler EXCEPT ![w] = <<>>]
        /\ profile_sampler' = IF sampler[w] = <<>> THEN profile_sampler ELSE [profile_sampler EXCEPT ![w] = <<>>]
        /\ UNCHANGED <<current_task_index, taken, raw_samples, stored>>
    BY <1>11 DEF WakeupToCheck
  <2>2. /\ sampler'[w] = <<>> /\ profile_sampler'[w] = <<>>
        /\ to_master'[w] = to_master[w] \o SamplesMessage(w)
        /\ \A v \in Workers \ {w} : /\ to_master'[v] = to_master[v] /\ sampler'[v] = sampler[v]
                                    /\ profile_sampler'[v] = profile_sampler[v]
    BY <1>1, <1>2, <2>1
  <2>3. Mailed(to_master'[w]) = Mailed(to_master[w]) \union Unsent(w)
    BY <1>2, <2>2, NoneUnsent
  <2>4. SamplesArrive(w)'
    BY <2>1, <2>2, <2>3, ArriveKept
  <2>5. ASSUME NEW v \in Workers \ {w} PROVE SamplesArrive(v)'
    <3>1. Unsent(v)' = Unsent(v) /\ (AtTasks(v)' <=> AtTasks(v))
      BY <2>1, <2>2 DEF Unsent, AtTasks
    <3> QED
      BY <1>2, <2>1, <2>2, <3>1, ArriveKept
  <2> QED
    BY <2>4, <2>5
<1>12. ASSUME NEW w \in Workers, DriveSteps(w) PROVE \A v \in Workers : SamplesArrive(v)'
  <2>1. PICK pending \in Nat : DriveOn(w, pending)
    BY <1>12, Driven
  <2>2. UNCHANGED <<raw_samples, stored, taken>>
    BY <1>12, Driven
  <2> DEFINE j == current_task_index'[w]
  <2>3. /\ j \in Rows
        /\ \A v \in Workers \ {w} : current_task_index'[v] = current_task_index[v]
        /\ \/ IsJoinRow(j) /\ DriveToJoinPoint(w, j, pending)
           \/ ~IsJoinRow(j) /\ ~AtTasks(w) /\ DriveExecutor(w, j, pending)
    BY <2>1, DriveAlternates DEF LooksAgain
  <2>4. /\ sampler'[w] = <<>> /\ profile_sampler'[w] = <<>>
        /\ \A v \in Workers \ {w} : /\ to_master'[v] = to_master[v] /\ sampler'[v] = sampler[v]
                                    /\ profile_sampler'[v] = profile_sampler[v]
    BY <1>1, <1>2, <2>3 DEF DriveToJoinPoint, DriveExecutor
  <2>5. Mailed(to_master'[w]) = Mailed(to_master[w]) \union Unsent(w)
    <3>1. CASE DriveToJoinPoint(w, j, pending)
      <4> DEFINE q == to_master[w] \o SamplesMessage(w)
                 m == [type |-> "JoinPointReached", row |-> j]
      <4>1. q \in Seq(WorkerMessages) /\ m \in WorkerMessages /\ to_master'[w] = Append(q, m)
        BY <2>3, <3>1, ReportIsSent
      <4>2. SamplesOf(m) = {} /\ Mailed(q) = Mailed(to_master[w]) \union Unsent(w)
        BY <1>2, NoneUnsent DEF SamplesOf
      <4> HIDE DEF q, m, WorkerMessages
      <4>3. Mailed(Append(q, m)) = Mailed(q) \union SamplesOf(m)
        BY <4>1, MailedMail
      <4> QED
        BY <4>1, <4>2, <4>3
    <3>2. CASE ~AtTasks(w) /\ DriveExecutor(w, j, pending)
      <4>1. sampler[w] = <<>> /\ to_master' = to_master
        BY <1>2, <3>2 DEF DriveExecutor
      <4>2. Unsent(w) = {}
        BY <4>1 DEF Unsent, Elements
      <4> QED
        BY <4>1, <4>2
    <3> QED
      BY <2>3, <3>1, <3>2
  <2>6. SamplesArrive(w)'
    BY <2>2, <2>4, <2>5, ArriveKept
  <2>7. ASSUME NEW v \in Workers \ {w} PROVE SamplesArrive(v)'
    <3>1. Unsent(v)' = Unsent(v) /\ (AtTasks(v)' <=> AtTasks(v))
      BY <2>3, <2>4 DEF Unsent, AtTasks
    <3> QED
      BY <1>2, <2>2, <2>4, <3>1, ArriveKept
  <2> QED
    BY <2>6, <2>7
<1> QED
  BY <1>4, <1>6, <1>7, <1>8, <1>9, <1>10, <1>11, <1>12
     DEF Next, WorkerMailbox, WorkerWakeup, DriveSteps

\* At a join point that all workers have reached, no sample is underway.
LEMMA AllArrived ==
    ASSUME TypeOK, BarrierInv, NEW w \in Workers, MasterReceives(w, "JoinPointReached"), LastWorker,
           \A v \in Workers : WaitsAtJoinPoint(v) /\ SamplesPrecede(v) /\ SamplesArrive(v)
    PROVE  taken \subseteq stored \union raw_samples
<1> SUFFICES ASSUME NEW s \in taken PROVE s \in stored \union raw_samples
  OBVIOUS
<1> DEFINE v == AssignedWorker[s.client]
<1>1. v \in Workers
  <2>1. s \in Samples
    BY DEF TypeOK
  <2>2. s.client \in Clients
    BY <2>1 DEF Samples
  <2> QED
    BY <2>2, AssignmentAssumption
<1>2. s \in OwnSamples(v)
  BY DEF OwnSamples
<1> HIDE DEF v
<1>3. AtStep(v) = current_step + 2 /\ v \in workers_completed_current_step \union {w}
  BY <1>1, LastWorkerReaches
<1>4. Unsent(v) = {}
  <2>1. AtJoinRow(v)
    BY <1>1, <1>3 DEF WaitsAtJoinPoint, Waits
  <2>2. sampler[v] = <<>>
    BY <1>1, <2>1 DEF AtJoinRow, AtTasks, SamplesArrive
  <2> QED
    BY <2>2 DEF Unsent, Elements
<1>5. Mailed(to_master[v]) = {}
  <2>1. ~HasMessage(to_master[v], "UpdateSamples")
    BY <1>1, <1>3, NoneBehindReport DEF SamplesPrecede
  <2>2. \A m \in Elements(to_master[v]) : SamplesOf(m) = {}
    BY <2>1 DEF Elements, HasMessage, SamplesOf
  <2> QED
    BY <2>2 DEF Mailed
<1> QED
  BY <1>1, <1>2, <1>4, <1>5 DEF SamplesArrive

\* A sample belongs to the step that its client is in.
LEMMA SampleOfStep ==
    ASSUME TypeOK, RunningInv, BarrierInv, NEW c \in Clients, ClientRuns(c), AddSample(c)
    PROVE  \E s \in taken' : taken' = taken \union {s} /\ ~(JoinPointsUpTo(s.row) < current_step + 1)
<1> DEFINE w == AssignedWorker[c]
           s == [client |-> c, row |-> current_task_index[w], n |-> requests[c] + 1,
                 progress |-> IF StoppedByEvent(c) THEN "float" ELSE TaskOf(c).progress]
<1>1. taken' = taken \union {s} /\ s.row = current_task_index[w]
  BY DEF AddSample
<1>2. AtStep(w) \in {current_step + 1, current_step + 2} /\ current_step \in Int
  BY AssignmentAssumption DEF BarrierInv, LockInv, LockstepOf, TypeOK
<1>3. ~(JoinPointsUpTo(s.row) < current_step + 1)
  BY <1>1, <1>2 DEF AtStep
<1> HIDE DEF s
<1> QED
  BY <1>1, <1>3

\* Every step keeps the samples of the steps behind it stored.
LEMMA StoredStep ==
    ASSUME TypeOK, RunningInv, BarrierInv, [Next]_vars, SamplesStoredAtJoinPoint,
           \A v \in Workers : WaitsAtJoinPoint(v) /\ SamplesPrecede(v) /\ SamplesArrive(v)
    PROVE  SamplesStoredAtJoinPoint'
<1> USE DEF coordinatorVars, workerVars, clientVars
<1>1. ASSUME UNCHANGED <<current_step, taken>>, stored \subseteq stored' PROVE SamplesStoredAtJoinPoint'
  BY <1>1 DEF SamplesStoredAtJoinPoint
<1>2. CASE MasterWakeup \/ UNCHANGED vars
  BY <1>1, <1>2 DEF MasterWakeup, PostProcessSamples, vars
<1>3. ASSUME NEW w \in Workers, MoveToNextTask(w) \/ BenchmarkCompleted(w) PROVE SamplesStoredAtJoinPoint'
  <2>1. /\ MasterReceives(w, "JoinPointReached") /\ LastWorker
        /\ stored' = stored \union raw_samples /\ UNCHANGED taken
    BY <1>3 DEF MoveToNextTask, BenchmarkCompleted, StepCompleted, AllWorkersReached, PostProcessSamples
  <2>2. taken \subseteq stored \union raw_samples
    BY <2>1, AllArrived
  <2> QED
    BY <2>1, <2>2 DEF SamplesStoredAtJoinPoint
<1>4. ASSUME NEW w \in Workers, \/ JoinPointPending(w) \/ JoinPointRaises(w) \/ MasterUpdateSamples(w)
                                \/ MasterReceivesFailure(w) \/ ChildActorExited(w)
      PROVE  SamplesStoredAtJoinPoint'
  BY <1>1, <1>4 DEF JoinPointPending, JoinPointRaises, MasterUpdateSamples, MasterReceivesFailure, ChildActorExited
<1>5. ASSUME NEW w \in Workers, WorkerMailbox(w) \/ WorkerWakeup(w) \/ ExecutorFinishes(w) \/ WorkerExits(w)
      PROVE  SamplesStoredAtJoinPoint'
  <2>1. UNCHANGED <<current_step, taken, stored>>
    BY <1>5 DEF WorkerMailbox, WorkerStart, WorkerDrive, WorkerCompleteCurrentTask, WorkerForwardsFailure,
                WorkerWakeup, WakeupToDrive, WakeupToCheck, CheckDone, CheckFailed, CheckBusy, Handled,
                ExecutorFinishes, WorkerExits
  <2> QED
    BY <1>1, <2>1
<1>6. ASSUME NEW c \in Clients, Client(c) PROVE SamplesStoredAtJoinPoint'
  <2>1. /\ ClientRuns(c) /\ AddSample(c) /\ UNCHANGED <<current_step, stored>>
    BY <1>6 DEF Client, ClientContinues, ClientFinishes
  <2>2. PICK s \in taken' : taken' = taken \union {s} /\ ~(JoinPointsUpTo(s.row) < current_step + 1)
    BY <2>1, SampleOfStep
  <2> QED
    BY <2>1, <2>2 DEF SamplesStoredAtJoinPoint
<1>7. ASSUME NEW c \in Clients, ClientRaises(c) PROVE SamplesStoredAtJoinPoint'
  BY <1>1, <1>7 DEF ClientRaises
<1> QED
  BY <1>2, <1>3, <1>4, <1>5, <1>6, <1>7 DEF Next, Coordinator

\* There are no samples yet, and no worker is at tasks.
LEMMA DeliveryInitially == Init => DeliveryInv
<1> SUFFICES ASSUME Init PROVE DeliveryInv
  OBVIOUS
<1>1. SamplesStoredAtJoinPoint
  BY DEF Init, SamplesStoredAtJoinPoint
<1>2. ASSUME NEW w \in Workers PROVE LooksAgain(w)
  <2>1. ~AtTasks(w)
    BY DEF Init, AtTasks, Rows
  <2> QED
    BY <2>1 DEF Init, LooksAgain
<1>3. ASSUME NEW w \in Workers PROVE SamplesPrecede(w)
  BY DEF Init, SamplesPrecede, HasMessage
<1>4. ASSUME NEW w \in Workers PROVE SamplesArrive(w)
  BY DEF Init, SamplesArrive, OwnSamples
<1> QED
  BY <1>1, <1>2, <1>3, <1>4 DEF DeliveryInv

LEMMA DeliveryStep ==
    ASSUME OneRowEach, NothingProfiled, IInv, EventsInv, EventsInv', DeliveryInv, [Next]_vars
    PROVE  DeliveryInv'
<1>1. TypeOK /\ RunningInv /\ BarrierInv
  BY DEF IInv, BarrierInv
<1>2. \A v \in Workers : WakeupOf(v) /\ StartsFirst(v) /\ WaitsAtJoinPoint(v) /\ WakeupOf(v)'
  BY DEF EventsInv
<1>3. \A v \in Workers : LooksAgain(v) /\ SamplesPrecede(v) /\ SamplesArrive(v)
  BY DEF DeliveryInv
<1>4. \A v \in Workers : LooksAgain(v)'
  BY <1>1, <1>2, <1>3, LooksStep
<1>5. \A v \in Workers : SamplesPrecede(v)'
  BY <1>1, <1>2, <1>3, PrecedeStep
<1>6. \A v \in Workers : SamplesArrive(v)'
  BY <1>1, <1>3, ArriveStep
<1>7. SamplesStoredAtJoinPoint'
  BY <1>1, <1>2, <1>3, StoredStep DEF DeliveryInv
<1> QED
  BY <1>4, <1>5, <1>6, <1>7 DEF DeliveryInv

\* Who keeps looking is not stranded.
LEMMA LookingIsNotStranded ==
    ASSUME TypeOK, \A w \in Workers : LooksAgain(w)
    PROVE  NobodyStranded
<1> SUFFICES ASSUME NEW w \in Workers, current_task_index[w] > 0, ~IsJoinPoint(w, current_task_index[w])
             PROVE  \/ timers[w] = 1 \/ handling[w] # NotHandling
                    \/ "BenchmarkFailure" \in {m.type : m \in Elements(to_master[w])} \union Elements(reports)
  BY DEF NobodyStranded
<1>1. current_task_index[w] \in Rows
  BY BoundsAssumption DEF TypeOK, Rows
<1>2. AtTasks(w)
  BY <1>1, JoinRowForAll DEF AtTasks
<1>3. HasMessage(to_master[w], "BenchmarkFailure")
        => "BenchmarkFailure" \in {m.type : m \in Elements(to_master[w])}
  BY DEF HasMessage, Elements
<1> QED
  BY <1>2, <1>3 DEF LooksAgain, Failed, Busy

(***************************************************************************)
(* Nothing is lost on the way to a join point, for any number of workers   *)
(* and clients and every allocation matrix without two rows of tasks in a  *)
(* row and without profiled requests: a worker at tasks looks at them      *)
(* again or has failed, whatever its wake-ups and messages interleave      *)
(* with, and once the coordinator has moved past a join point every sample *)
(* taken before it is in the metrics store.                                *)
(***************************************************************************)
THEOREM JoinPointsAreComplete ==
    ASSUME OneRowEach, NothingProfiled
    PROVE  Spec => []JoinPointsComplete
<1>1. DeliveryInv /\ IInv => JoinPointsComplete
  BY LookingIsNotStranded DEF DeliveryInv, IInv, JoinPointsComplete
<1>2. IInv /\ EventsInv /\ EventsInv' /\ DeliveryInv /\ [Next]_vars => DeliveryInv'
  BY DeliveryStep
<1> QED
  BY <1>1, <1>2, DeliveryInitially, EventsInitially, EventsStep, Invariance, PTL DEF Spec
=============================================================================
