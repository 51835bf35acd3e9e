---------------------- MODULE WorkerCoordinationProofs ----------------------
(***************************************************************************)
(* Proofs about WorkerCoordination for every set of workers and clients,   *)
(* every assignment of clients to workers and every allocation matrix.     *)
(***************************************************************************)
EXTENDS WorkerCoordination, FiniteSetTheorems, TLAPS

-----------------------------------------------------------------------------
(* Mailboxes *)

\* Appending a message adds its type and nothing else.
LEMMA HasMessageAppend ==
    ASSUME NEW S, NEW q \in Seq(S), NEW m \in S, NEW t
    PROVE  HasMessage(Append(q, m), t) <=> HasMessage(q, t) \/ m.type = t
<1> DEFINE a == Append(q, m)
<1>1. Len(a) = Len(q) + 1 /\ Len(q) \in Nat /\ a[Len(q) + 1] = m
        /\ \A i \in 1 .. Len(q) : a[i] = q[i]
  OBVIOUS
<1> HIDE DEF a
<1>2. HasMessage(a, t) <=> HasMessage(q, t) \/ m.type = t
  BY <1>1 DEF HasMessage
<1> QED
  BY <1>2 DEF a

\* Handling the first message takes away only that one.
LEMMA HasMessageTail ==
    ASSUME NEW S, NEW q \in Seq(S), q # <<>>, NEW t
    PROVE  /\ HasMessage(Tail(q), t) => HasMessage(q, t)
           /\ HasMessage(q, t) => HasMessage(Tail(q), t) \/ Head(q).type = t
           /\ Head(q).type = t => HasMessage(q, t)
<1> DEFINE r == Tail(q)
<1>1. Len(q) \in Nat /\ Len(q) > 0 /\ Len(r) = Len(q) - 1 /\ Head(q) = q[1]
        /\ \A i \in 1 .. Len(r) : r[i] = q[i + 1]
  OBVIOUS
<1> HIDE DEF r
<1>2. ASSUME HasMessage(q, t), Head(q).type # t PROVE HasMessage(r, t)
  <2>1. PICK i \in 1 .. Len(q) : q[i].type = t
    BY <1>2 DEF HasMessage
  <2>2. i - 1 \in 1 .. Len(r) /\ r[i - 1] = q[i]
    BY <1>1, <1>2, <2>1
  <2> QED
    BY <2>1, <2>2 DEF HasMessage
<1>3. HasMessage(r, t) => HasMessage(q, t)
  BY <1>1 DEF HasMessage
<1>4. Head(q).type = t => HasMessage(q, t)
  BY <1>1 DEF HasMessage
<1> QED
  BY <1>2, <1>3, <1>4 DEF r

\* A message sent while none of its type is waiting is the only one.
LEMMA OneMessageAppend ==
    ASSUME NEW S, NEW q \in Seq(S), NEW m \in S, NEW t,
           OneMessage(q, t), m.type = t => ~HasMessage(q, t)
    PROVE  OneMessage(Append(q, m), t)
<1> DEFINE a == Append(q, m)
<1>1. Len(a) = Len(q) + 1 /\ Len(q) \in Nat /\ a[Len(q) + 1] = m
        /\ \A i \in 1 .. Len(q) : a[i] = q[i]
  OBVIOUS
<1> HIDE DEF a
<1>2. OneMessage(a, t)
  BY <1>1 DEF OneMessage, HasMessage
<1> QED
  BY <1>2 DEF a

\* Once the only message of its type has been handled, none is left.
LEMMA OneMessageTail ==
    ASSUME NEW S, NEW q \in Seq(S), q # <<>>, NEW t, OneMessage(q, t)
    PROVE  /\ OneMessage(Tail(q), t)
           /\ Head(q).type = t => ~HasMessage(Tail(q), t)
<1> DEFINE r == Tail(q)
<1>1. Len(q) \in Nat /\ Len(q) > 0 /\ Len(r) = Len(q) - 1 /\ Head(q) = q[1]
        /\ \A i \in 1 .. Len(r) : r[i] = q[i + 1]
  OBVIOUS
<1> HIDE DEF r
<1>2. OneMessage(r, t)
  BY <1>1 DEF OneMessage
<1>3. Head(q).type = t => ~HasMessage(r, t)
  BY <1>1 DEF OneMessage, HasMessage
<1> QED
  BY <1>2, <1>3 DEF r

-----------------------------------------------------------------------------
(* Join points *)

\* The number of join points up to a row is a natural number, 0 before the
\* first row, and never decreases.
LEMMA JoinCountType ==
    /\ \A i \in 0 .. NumRows : JoinCount[i] \in Nat /\ IsFiniteSet(JoinRows(i))
                                /\ JoinCount[i] = Cardinality(JoinRows(i))
    /\ JoinCount[0] = 0
    /\ \A i \in 0 .. NumRows : \A j \in i .. NumRows : JoinCount[i] <= JoinCount[j]
<1>1. ASSUME NEW i \in 0 .. NumRows
      PROVE  /\ IsFiniteSet(JoinRows(i)) /\ Cardinality(JoinRows(i)) \in Nat
             /\ JoinCount[i] = Cardinality(JoinRows(i))
  <2>1. IsFiniteSet(1 .. i)
    BY FS_Interval, BoundsAssumption
  <2>2. IsFiniteSet(JoinRows(i))
    BY <2>1, FS_Subset DEF JoinRows
  <2> QED
    BY <2>2, FS_CardinalityType DEF JoinCount
<1>2. JoinCount[0] = 0
  <2>1. JoinRows(0) = {}
    BY DEF JoinRows
  <2> QED
    BY <1>1, <2>1, FS_EmptySet, BoundsAssumption
<1>3. ASSUME NEW i \in 0 .. NumRows, NEW j \in i .. NumRows
      PROVE  JoinCount[i] <= JoinCount[j]
  <2>1. JoinRows(i) \in SUBSET JoinRows(j)
    BY BoundsAssumption DEF JoinRows
  <2>2. j \in 0 .. NumRows
    BY BoundsAssumption
  <2> QED
    BY <1>1, <2>1, <2>2, FS_Subset
<1> QED
  BY <1>1, <1>2, <1>3

\* A join row is a join point for every worker, and every worker has something
\* in it.
LEMMA JoinRowForAll ==
    ASSUME NEW w \in Workers, NEW i \in Rows
    PROVE  /\ IsJoinRow(i) => TasksAt(w, i) # {} /\ IsJoinPoint(w, i)
           /\ TasksAt(w, i) # {} /\ IsJoinPoint(w, i) => IsJoinRow(i)
<1>1. PICK c \in Clients : AssignedWorker[c] = w
  BY AssignmentAssumption
<1>2. IsJoinRow(i) => \A d \in Clients : Allocations[d][i].kind = "join"
  BY MatrixAssumption DEF IsJoinRow
<1>3. IsJoinRow(i) => TasksAt(w, i) # {} /\ IsJoinPoint(w, i)
  BY <1>1, <1>2 DEF TasksAt, IsJoinPoint, ClientsOf
<1>4. TasksAt(w, i) # {} /\ IsJoinPoint(w, i) => IsJoinRow(i)
  BY DEF TasksAt, IsJoinPoint, ClientsOf, IsJoinRow
<1> QED
  BY <1>3, <1>4

\* drive() advances a worker by one join point or by none.
LEMMA NextRowJoinCount ==
    ASSUME NEW w \in Workers, NEW j \in Rows, current_task_index[w] \in 0 .. NumRows,
           IsNextRow(w, j)
    PROVE  JoinCount[j] = IF IsJoinPoint(w, j) THEN JoinCount[current_task_index[w]] + 1
                                               ELSE JoinCount[current_task_index[w]]
<1> DEFINE i == current_task_index[w]
<1>1. i \in 0 .. NumRows /\ j \in 1 .. NumRows /\ j > i /\ TasksAt(w, j) # {}
        /\ \A k \in i + 1 .. j - 1 : TasksAt(w, k) = {}
  BY DEF IsNextRow, Rows
<1> HIDE DEF i
<1>2. \A k \in i + 1 .. j - 1 : ~IsJoinRow(k)
  BY <1>1, JoinRowForAll, BoundsAssumption DEF Rows
<1>3. IsJoinPoint(w, j) <=> IsJoinRow(j)
  BY <1>1, JoinRowForAll DEF Rows
<1>4. CASE IsJoinRow(j)
  <2>1. JoinRows(j) = JoinRows(i) \cup {j} /\ j \notin JoinRows(i)
    BY <1>1, <1>2, <1>4, BoundsAssumption DEF JoinRows
  <2>2. Cardinality(JoinRows(j)) = Cardinality(JoinRows(i)) + 1
    BY <2>1, <1>1, JoinCountType, FS_AddElement, BoundsAssumption
  <2> QED
    BY <2>2, <1>1, <1>3, <1>4, JoinCountType, BoundsAssumption DEF i
<1>5. CASE ~IsJoinRow(j)
  <2>1. JoinRows(j) = JoinRows(i)
    BY <1>1, <1>2, <1>5, BoundsAssumption DEF JoinRows
  <2> QED
    BY <2>1, <1>1, <1>3, <1>5, JoinCountType, BoundsAssumption DEF i
<1> QED
  BY <1>4, <1>5

-----------------------------------------------------------------------------
(* Types *)

\* What an executor's clients may rely on: only clients of the current row of
\* a worker with an executor are running.
RunningInv ==
    \A c \in Clients : client[c] = "running" =>
        /\ executor_future[AssignedWorker[c]] \in {"running", "failed"}
        /\ current_task_index[AssignedWorker[c]] \in Rows
        /\ c \in Executing(AssignedWorker[c], current_task_index[AssignedWorker[c]])

\* The messages drive() and the wake-up handler send are well-formed.
LEMMA SamplesMessageType ==
    ASSUME TypeOK, NEW w \in Workers
    PROVE  SamplesMessage(w) \in Seq(WorkerMessages)
<1> DEFINE m == [type |-> "UpdateSamples", samples |-> sampler[w], profile |-> profile_sampler[w]]
<1>1. m \in WorkerMessages
  BY DEF TypeOK, WorkerMessages
<1> HIDE DEF m, WorkerMessages
<1>2. <<m>> \in Seq(WorkerMessages) /\ <<>> \in Seq(WorkerMessages)
  BY <1>1
<1> QED
  BY <1>2 DEF SamplesMessage, m

\* drive() keeps the types of everything it changes.
LEMMA DriveOnType ==
    ASSUME TypeOK, NEW w \in Workers, NEW pending \in Nat, DriveOn(w, pending)
    PROVE  /\ current_task_index' \in [Workers -> 0 .. NumRows]
           /\ complete' \in [Workers -> BOOLEAN]
           /\ executor_future' \in [Workers -> Futures]
           /\ sampler' \in [Workers -> Seq(Samples)]
           /\ profile_sampler' \in [Workers -> Seq(Samples)]
           /\ timers' \in [Workers -> Nat]
           /\ client' \in [Clients -> {"idle", "running", "finished"}]
           /\ requests' \in [Clients -> 0 .. MaxRequests]
           /\ to_master' \in [Workers -> Seq(WorkerMessages)]
<1>1. PICK j \in Rows :
        /\ IsNextRow(w, j)
        /\ current_task_index' = [current_task_index EXCEPT ![w] = j]
        /\ DriveToJoinPoint(w, j, pending) \/ DriveSkips(w, j, pending) \/ DriveExecutor(w, j, pending)
  BY DEF DriveOn
<1>2. current_task_index' \in [Workers -> 0 .. NumRows]
  BY <1>1, BoundsAssumption DEF TypeOK, Rows
<1>3. CASE DriveToJoinPoint(w, j, pending)
  <2>1. to_master[w] \o SamplesMessage(w) \o <<[type |-> "JoinPointReached", row |-> j]>> \in Seq(WorkerMessages)
    <3>1. <<[type |-> "JoinPointReached", row |-> j]>> \in Seq(WorkerMessages)
      BY DEF WorkerMessages
    <3>2. to_master[w] \in Seq(WorkerMessages)
      BY DEF TypeOK
    <3> HIDE DEF WorkerMessages
    <3> QED
      BY <3>1, <3>2, SamplesMessageType
  <2>2. to_master' \in [Workers -> Seq(WorkerMessages)]
    BY <2>1, <1>3 DEF TypeOK, DriveToJoinPoint
  <2> QED
    BY <1>2, <1>3, <2>2 DEF TypeOK, DriveToJoinPoint, Futures
<1>4. CASE DriveSkips(w, j, pending)
  BY <1>2, <1>4 DEF TypeOK, DriveSkips, Futures
<1>5. CASE DriveExecutor(w, j, pending)
  BY <1>2, <1>5, BoundsAssumption DEF TypeOK, DriveExecutor, Futures
<1> QED
  BY <1>1, <1>3, <1>4, <1>5

\* A sample a running client takes is well-formed, and so are the samplers.
LEMMA AddSampleType ==
    ASSUME TypeOK, RunningInv, NEW c \in Clients, ClientRuns(c), AddSample(c),
           requests[c] <= MaxRequests
    PROVE  /\ taken' \subseteq Samples
           /\ sampler' \in [Workers -> Seq(Samples)]
           /\ profile_sampler' \in [Workers -> Seq(Samples)]
<1> DEFINE w == AssignedWorker[c]
           s == [client |-> c, row |-> current_task_index[w], n |-> requests[c] + 1,
                 progress |-> IF StoppedByEvent(c) THEN "float" ELSE TaskOf(c).progress]
<1>1. w \in Workers
  BY AssignmentAssumption
<1>2. current_task_index[w] \in Rows /\ c \in Executing(w, current_task_index[w])
  BY DEF RunningInv, ClientRuns
<1>3. TaskOf(c).progress \in Units
  BY <1>2, MatrixAssumption DEF TaskOf, Executing, Tasks, JoinPoints, NoTask
<1>4. s \in Samples
  BY <1>2, <1>3, BoundsAssumption DEF Samples, Progress, TypeOK
<1>5. /\ taken' = taken \union {s}
      /\ \/ /\ profile_sampler' = [profile_sampler EXCEPT ![w] = Append(@, s)]
            /\ UNCHANGED sampler
         \/ /\ sampler' = [sampler EXCEPT ![w] = Append(@, s)]
            /\ UNCHANGED profile_sampler
  BY DEF AddSample
<1> HIDE DEF s, w
<1>6. /\ sampler \in [Workers -> Seq(Samples)] /\ profile_sampler \in [Workers -> Seq(Samples)]
      /\ taken \subseteq Samples
  BY DEF TypeOK
<1>7. taken' \subseteq Samples
  BY <1>4, <1>5, <1>6
<1>8. CASE profile_sampler' = [profile_sampler EXCEPT ![w] = Append(@, s)] /\ UNCHANGED sampler
  <2>1. Append(profile_sampler[w], s) \in Seq(Samples)
    BY <1>1, <1>4, <1>6
  <2> QED
    BY <1>6, <1>7, <1>8, <2>1
<1>9. CASE sampler' = [sampler EXCEPT ![w] = Append(@, s)] /\ UNCHANGED profile_sampler
  <2>1. Append(sampler[w], s) \in Seq(Samples)
    BY <1>1, <1>4, <1>6
  <2> QED
    BY <1>6, <1>7, <1>9, <2>1
<1> QED
  BY <1>5, <1>8, <1>9

\* Handling the first message of a mailbox keeps the mailboxes' types.
LEMMA ReceiveType ==
    ASSUME TypeOK, NEW w \in Workers, NEW t
    PROVE  /\ MasterReceives(w, t) => to_master' \in [Workers -> Seq(WorkerMessages)]
           /\ WorkerReceives(w, t) => to_worker' \in [Workers -> Seq(CoordinatorMessages)]
<1>1. to_master[w] \in Seq(WorkerMessages) /\ to_worker[w] \in Seq(CoordinatorMessages)
  BY DEF TypeOK
<1> HIDE DEF WorkerMessages, CoordinatorMessages
<1>2. to_master[w] # <<>> => Tail(to_master[w]) \in Seq(WorkerMessages)
  BY <1>1
<1>3. to_worker[w] # <<>> => Tail(to_worker[w]) \in Seq(CoordinatorMessages)
  BY <1>1
<1> QED
  BY <1>2, <1>3 DEF TypeOK, MasterReceives, WorkerReceives

\* Sending keeps the mailboxes' types.
LEMMA SendType ==
    ASSUME TypeOK
    PROVE  /\ \A w \in Workers : [to_master EXCEPT ![w] = Append(@, [type |-> "BenchmarkFailure"])]
                                    \in [Workers -> Seq(WorkerMessages)]
           /\ \A w \in Workers : [to_worker EXCEPT ![w] = Append(@, [type |-> "BenchmarkFailure"])]
                                    \in [Workers -> Seq(CoordinatorMessages)]
           /\ \A t \in {"Drive", "CompleteCurrentTask"} :
                 [v \in Workers |-> Append(to_worker[v], [type |-> t])]
                    \in [Workers -> Seq(CoordinatorMessages)]
<1>1. [type |-> "BenchmarkFailure"] \in WorkerMessages
  BY DEF WorkerMessages
<1>2. \A t \in {"Drive", "CompleteCurrentTask", "BenchmarkFailure"} : [type |-> t] \in CoordinatorMessages
  BY DEF CoordinatorMessages
<1>3. to_master \in [Workers -> Seq(WorkerMessages)] /\ to_worker \in [Workers -> Seq(CoordinatorMessages)]
  BY DEF TypeOK
<1> HIDE DEF WorkerMessages, CoordinatorMessages
<1>4. \A w \in Workers : Append(to_master[w], [type |-> "BenchmarkFailure"]) \in Seq(WorkerMessages)
  BY <1>1, <1>3
<1>5. \A w \in Workers : \A t \in {"Drive", "CompleteCurrentTask", "BenchmarkFailure"} :
         Append(to_worker[w], [type |-> t]) \in Seq(CoordinatorMessages)
  BY <1>2, <1>3
<1> QED
  BY <1>3, <1>4, <1>5

\* So does reporting to the orchestrator.
LEMMA ReportType ==
    ASSUME TypeOK
    PROVE  \A r \in {"TaskFinished", "BenchmarkComplete", "BenchmarkFailure"} :
              Append(reports, r) \in Seq({"TaskFinished", "BenchmarkComplete", "BenchmarkFailure"})
BY DEF TypeOK

\* Every step keeps the types.
LEMMA TypeStep ==
    ASSUME TypeOK, RunningInv, [Next]_vars
    PROVE  TypeOK'
<1> USE DEF coordinatorVars, workerVars, clientVars
<1> HIDE DEF WorkerMessages, CoordinatorMessages
<1>1. ASSUME MasterWakeup PROVE TypeOK'
  BY <1>1, ReportType DEF TypeOK, MasterWakeup, PostProcessSamples
<1>2. ASSUME NEW w \in Workers, JoinPointPending(w) PROVE TypeOK'
  <2>1. to_worker' \in [Workers -> Seq(CoordinatorMessages)]
    BY <1>2, SendType DEF JoinPointPending, TypeOK
  <2>2. to_master' \in [Workers -> Seq(WorkerMessages)]
    BY <1>2, ReceiveType DEF JoinPointPending
  <2>3. complete_current_task_sent' \in BOOLEAN
    BY <1>2 DEF JoinPointPending
  <2>4. currently_completed' \in Nat /\ workers_completed_current_step' \subseteq Workers
    BY <1>2 DEF TypeOK, JoinPointPending
  <2>5. UNCHANGED <<current_step, raw_samples, most_recent_sample_per_client, stored, ticking,
                    reports, workerVars, clientVars>>
    BY <1>2 DEF JoinPointPending
  <2> QED
    BY <2>1, <2>2, <2>3, <2>4, <2>5 DEF TypeOK
<1>3. ASSUME NEW w \in Workers, JoinPointRaises(w) PROVE TypeOK'
  BY <1>3, SendType, ReceiveType DEF TypeOK, JoinPointRaises, AllWorkersReached
<1>4. ASSUME NEW w \in Workers, StepCompleted(w),
             \E r \in {"TaskFinished", "BenchmarkComplete"} : reports' = Append(reports, r),
             to_worker' \in [Workers -> Seq(CoordinatorMessages)]
      PROVE  TypeOK'
  <2>1. to_master' \in [Workers -> Seq(WorkerMessages)]
    BY <1>4, ReceiveType DEF StepCompleted, AllWorkersReached
  <2>2. reports' \in Seq({"TaskFinished", "BenchmarkComplete", "BenchmarkFailure"})
    BY <1>4, ReportType
  <2>3. most_recent_sample_per_client' \in [Clients -> Progress] /\ current_step' \in Nat \union {-1}
    BY <1>4 DEF TypeOK, StepCompleted, Progress, Units
  <2> QED
    BY <1>4, <2>1, <2>2, <2>3 DEF TypeOK, StepCompleted, AllWorkersReached, PostProcessSamples
<1>5. ASSUME NEW w \in Workers, MoveToNextTask(w) PROVE TypeOK'
  <2>1. to_worker' \in [Workers -> Seq(CoordinatorMessages)]
    BY <1>5, SendType DEF MoveToNextTask
  <2> QED
    BY <1>4, <1>5, <2>1 DEF MoveToNextTask
<1>6. ASSUME NEW w \in Workers, BenchmarkCompleted(w) PROVE TypeOK'
  <2>1. to_worker' \in [Workers -> Seq(CoordinatorMessages)]
    BY <1>6 DEF BenchmarkCompleted, TypeOK
  <2> QED
    BY <1>4, <1>6, <2>1 DEF BenchmarkCompleted
<1>7. ASSUME NEW w \in Workers, MasterUpdateSamples(w) PROVE TypeOK'
  <2>1. to_master' \in [Workers -> Seq(WorkerMessages)]
    BY <1>7, ReceiveType DEF MasterUpdateSamples
  <2>2. Head(to_master[w]) \in WorkerMessages /\ Head(to_master[w]).type = "UpdateSamples"
    BY <1>7 DEF MasterUpdateSamples, MasterReceives, TypeOK
  <2>3. Head(to_master[w]).samples \in Seq(Samples) /\ Head(to_master[w]).profile \in Seq(Samples)
    BY <2>2 DEF WorkerMessages
  <2>4. Elements(Head(to_master[w]).samples) \subseteq Samples /\ Elements(Head(to_master[w]).profile) \subseteq Samples
    BY <2>3 DEF Elements
  <2>5. raw_samples' \subseteq Samples /\ most_recent_sample_per_client' \in [Clients -> Progress]
    BY <1>7, <2>4 DEF MasterUpdateSamples, TypeOK
  <2> QED
    BY <1>7, <2>1, <2>5 DEF TypeOK, MasterUpdateSamples
<1>8. ASSUME NEW w \in Workers, MasterReceivesFailure(w) PROVE TypeOK'
  BY <1>8, ReceiveType, ReportType DEF TypeOK, MasterReceivesFailure
<1>9. ASSUME NEW w \in Workers, ChildActorExited(w) PROVE TypeOK'
  BY <1>9, ReportType DEF TypeOK, ChildActorExited
<1>10. ASSUME NEW w \in Workers, WorkerStart(w) PROVE TypeOK'
  BY <1>10, ReceiveType, DriveOnType DEF TypeOK, WorkerStart
<1>11. ASSUME NEW w \in Workers, WorkerDrive(w) PROVE TypeOK'
  BY <1>11, ReceiveType DEF TypeOK, WorkerDrive
<1>12. ASSUME NEW w \in Workers, WorkerCompleteCurrentTask(w) PROVE TypeOK'
  BY <1>12, ReceiveType DEF TypeOK, WorkerCompleteCurrentTask
<1>13. ASSUME NEW w \in Workers, WorkerForwardsFailure(w) PROVE TypeOK'
  BY <1>13, ReceiveType, SendType DEF TypeOK, WorkerForwardsFailure
<1>14. ASSUME NEW w \in Workers, WakeupToDrive(w) PROVE TypeOK'
  <2>1. timers[w] - 1 \in Nat
    BY <1>14 DEF TypeOK, WakeupToDrive
  <2> QED
    BY <1>14, <2>1, DriveOnType DEF TypeOK, WakeupToDrive
<1>15. ASSUME NEW w \in Workers, WakeupToCheck(w) PROVE TypeOK'
  <2>1. to_master[w] \o SamplesMessage(w) \in Seq(WorkerMessages)
    BY SamplesMessageType DEF TypeOK
  <2>2. (IF sampler[w] = <<>> THEN "none" ELSE sampler[w][Len(sampler[w])].progress) \in Progress
    <3>1. CASE sampler[w] = <<>>
      BY <3>1 DEF Progress, Units
    <3>2. CASE sampler[w] # <<>>
      <4>1. sampler[w][Len(sampler[w])] \in Samples
        BY <3>2 DEF TypeOK
      <4> QED
        BY <3>2, <4>1 DEF Samples
    <3> QED
      BY <3>1, <3>2
  <2>3. timers' \in [Workers -> Nat]
    BY <1>15 DEF TypeOK, WakeupToCheck
  <2>4. handling' \in [Workers -> Progress \union {NotHandling}]
    BY <1>15, <2>2 DEF TypeOK, WakeupToCheck
  <2>5. to_master' \in [Workers -> Seq(WorkerMessages)]
    BY <1>15, <2>1 DEF TypeOK, WakeupToCheck
  <2>6. sampler' \in [Workers -> Seq(Samples)] /\ profile_sampler' \in [Workers -> Seq(Samples)]
    BY <1>15 DEF TypeOK, WakeupToCheck
  <2>7. UNCHANGED <<coordinatorVars, clientVars, current_task_index, complete, executor_future,
                    start_driving, alive, to_worker>>
    BY <1>15 DEF WakeupToCheck
  <2> QED
    BY <2>3, <2>4, <2>5, <2>6, <2>7 DEF TypeOK
<1>16. ASSUME NEW w \in Workers, CheckDone(w) PROVE TypeOK'
  BY <1>16, DriveOnType DEF TypeOK, CheckDone, Handled
<1>17. ASSUME NEW w \in Workers, CheckFailed(w) PROVE TypeOK'
  BY <1>17, SendType DEF TypeOK, CheckFailed, Handled
<1>18. ASSUME NEW w \in Workers, CheckBusy(w) PROVE TypeOK'
  <2>1. to_master' \in [Workers -> Seq(WorkerMessages)]
    BY <1>18, SendType DEF TypeOK, CheckBusy
  <2>2. timers' \in [Workers -> Nat]
    <3>1. timers \in [Workers -> Nat]
      BY DEF TypeOK
    <3>2. timers' = timers \/ timers' = [timers EXCEPT ![w] = @ + 1]
      BY <1>18 DEF CheckBusy
    <3> QED
      BY <3>1, <3>2
  <2>3. handling' \in [Workers -> Progress \union {NotHandling}]
    BY <1>18 DEF TypeOK, CheckBusy, Handled
  <2>4. UNCHANGED <<coordinatorVars, start_driving, alive, to_worker, taken, current_task_index,
                    complete, executor_future, sampler, profile_sampler, client, requests>>
    BY <1>18 DEF CheckBusy, Handled
  <2> QED
    BY <2>1, <2>2, <2>3, <2>4 DEF TypeOK
<1>19. ASSUME NEW w \in Workers, WorkerExits(w) PROVE TypeOK'
  BY <1>19 DEF TypeOK, WorkerExits
<1>20. ASSUME NEW w \in Workers, ExecutorFinishes(w) PROVE TypeOK'
  BY <1>20 DEF TypeOK, ExecutorFinishes, Futures
<1>21. ASSUME NEW c \in Clients, ClientContinues(c) PROVE TypeOK'
  <2>1. requests[c] \in 0 .. MaxRequests /\ requests[c] < MaxRequests
    BY <1>21 DEF TypeOK, ClientContinues
  <2>2. /\ taken' \subseteq Samples
        /\ sampler' \in [Workers -> Seq(Samples)] /\ profile_sampler' \in [Workers -> Seq(Samples)]
    BY <1>21, <2>1, AddSampleType, BoundsAssumption DEF ClientContinues
  <2>3. requests' \in [Clients -> 0 .. MaxRequests]
    BY <1>21, <2>1, BoundsAssumption DEF TypeOK, ClientContinues
  <2>4. UNCHANGED <<coordinatorVars, current_task_index, complete, executor_future, start_driving,
                    handling, timers, alive, client, to_worker, to_master>>
    BY <1>21 DEF ClientContinues
  <2> QED
    BY <2>2, <2>3, <2>4 DEF TypeOK
<1>22. ASSUME NEW c \in Clients, ClientFinishes(c) PROVE TypeOK'
  <2>1. requests[c] \in 0 .. MaxRequests
    BY DEF TypeOK
  <2>2. /\ taken' \subseteq Samples
        /\ sampler' \in [Workers -> Seq(Samples)] /\ profile_sampler' \in [Workers -> Seq(Samples)]
    BY <1>22, <2>1, AddSampleType, BoundsAssumption DEF ClientFinishes
  <2>3. client' \in [Clients -> {"idle", "running", "finished"}]
    BY <1>22 DEF TypeOK, ClientFinishes
  <2>4. complete' \in [Workers -> BOOLEAN]
    BY <1>22, AssignmentAssumption DEF TypeOK, ClientFinishes
  <2>5. UNCHANGED <<coordinatorVars, current_task_index, executor_future, start_driving,
                    handling, timers, alive, requests, to_worker, to_master>>
    BY <1>22 DEF ClientFinishes
  <2> QED
    BY <2>2, <2>3, <2>4, <2>5 DEF TypeOK
<1>23. ASSUME NEW c \in Clients, ClientRaises(c) PROVE TypeOK'
  BY <1>23, AssignmentAssumption DEF TypeOK, ClientRaises, Futures
<1>24. CASE UNCHANGED vars
  BY <1>24 DEF TypeOK, vars
<1> QED
  BY <1>1, <1>2, <1>3, <1>5, <1>6, <1>7, <1>8, <1>9, <1>10, <1>11, <1>12, <1>13, <1>14, <1>15,
     <1>16, <1>17, <1>18, <1>19, <1>20, <1>21, <1>22, <1>23, <1>24
     DEF Next, Coordinator, WorkerMailbox, WorkerWakeup, Client

-----------------------------------------------------------------------------
(* Lockstep *)

\* The join points worker w has reached.
AtStep(w) == JoinPointsUpTo(current_task_index[w])

\* Nothing will make worker w call drive().
Resting(w) ==
    /\ ~HasMessage(to_worker[w], "StartWorker") /\ ~HasMessage(to_worker[w], "Drive")
    /\ ~start_driving[w] /\ executor_future[w] = "none"

\* A worker is at the released join point or one beyond it; one beyond it, it
\* rests.  It reports a join point once, and is counted only after that report.
LockstepOf(w) ==
    /\ AtStep(w) \in {current_step + 1, current_step + 2}
    /\ AtStep(w) = current_step + 2 => Resting(w)
    /\ HasMessage(to_master[w], "JoinPointReached") => w \notin workers_completed_current_step
    /\ w \in workers_completed_current_step \/ HasMessage(to_master[w], "JoinPointReached")
          => AtStep(w) = current_step + 2
    /\ OneMessage(to_master[w], "JoinPointReached")

LockInv == \A w \in Workers : LockstepOf(w)

\* The inductive invariant
IInv == TypeOK /\ RunningInv /\ CompletionsCounted /\ OneReasonToDrive /\ LockInv

\* Sending samples touches no other kind of message.
LEMMA SamplesSent ==
    ASSUME TypeOK, NEW w \in Workers
    PROVE  LET q == to_master[w] \o SamplesMessage(w)
           IN  /\ q \in Seq(WorkerMessages)
               /\ HasMessage(q, "JoinPointReached") <=> HasMessage(to_master[w], "JoinPointReached")
               /\ OneMessage(to_master[w], "JoinPointReached") => OneMessage(q, "JoinPointReached")
<1> DEFINE m == [type |-> "UpdateSamples", samples |-> sampler[w], profile |-> profile_sampler[w]]
<1>1. m \in WorkerMessages /\ m.type # "JoinPointReached"
  BY DEF TypeOK, WorkerMessages
<1>2. to_master[w] \in Seq(WorkerMessages)
  BY DEF TypeOK
<1> HIDE DEF m, WorkerMessages
<1>3. to_master[w] \o <<m>> = Append(to_master[w], m) /\ to_master[w] \o <<>> = to_master[w]
        /\ Append(to_master[w], m) \in Seq(WorkerMessages)
  BY <1>1, <1>2
<1>4. SamplesMessage(w) = <<>> \/ SamplesMessage(w) = <<m>>
  BY DEF SamplesMessage, m
<1>5. CASE SamplesMessage(w) = <<>>
  BY <1>2, <1>3, <1>5
<1>6. CASE SamplesMessage(w) = <<m>>
  <2>1. HasMessage(Append(to_master[w], m), "JoinPointReached")
          <=> HasMessage(to_master[w], "JoinPointReached")
    BY <1>1, <1>2, HasMessageAppend
  <2>2. OneMessage(to_master[w], "JoinPointReached")
          => OneMessage(Append(to_master[w], m), "JoinPointReached")
    BY <1>1, <1>2, OneMessageAppend
  <2> QED
    BY <1>3, <1>6, <2>1, <2>2
<1> QED
  BY <1>4, <1>5, <1>6

\* What drive() does as far as the barrier can tell: the worker reaches its
\* next join point, reports it and rests, or it stays between join points.
LEMMA DriveOnEffect ==
    ASSUME TypeOK, NEW w \in Workers, NEW pending \in Nat, DriveOn(w, pending)
    PROVE  /\ \A v \in Workers \ {w} :
                 /\ AtStep(v)' = AtStep(v) /\ to_master'[v] = to_master[v]
                 /\ executor_future'[v] = executor_future[v]
           /\ \/ AtStep(w)' = AtStep(w) /\ to_master' = to_master
              \/ /\ AtStep(w)' = AtStep(w) + 1 /\ executor_future'[w] = "none"
                 /\ HasMessage(to_master'[w], "JoinPointReached")
                 /\ ~HasMessage(to_master[w], "JoinPointReached")
                        /\ OneMessage(to_master[w], "JoinPointReached")
                      => OneMessage(to_master'[w], "JoinPointReached")
<1>1. PICK j \in Rows :
        /\ IsNextRow(w, j)
        /\ current_task_index' = [current_task_index EXCEPT ![w] = j]
        /\ DriveToJoinPoint(w, j, pending) \/ DriveSkips(w, j, pending) \/ DriveExecutor(w, j, pending)
  BY DEF DriveOn
<1>2. current_task_index[w] \in 0 .. NumRows /\ current_task_index'[w] = j
        /\ \A v \in Workers \ {w} : current_task_index'[v] = current_task_index[v]
  BY <1>1 DEF TypeOK
<1>3. AtStep(w)' = IF IsJoinPoint(w, j) THEN AtStep(w) + 1 ELSE AtStep(w)
  BY <1>1, <1>2, NextRowJoinCount DEF AtStep, JoinPointsUpTo
<1>4. \A v \in Workers \ {w} : AtStep(v)' = AtStep(v)
  BY <1>2 DEF AtStep, JoinPointsUpTo
<1>5. CASE DriveToJoinPoint(w, j, pending)
  <2> DEFINE q == to_master[w] \o SamplesMessage(w)
             m == [type |-> "JoinPointReached", row |-> j]
  <2>1. IsJoinPoint(w, j) /\ to_master' = [to_master EXCEPT ![w] = q \o <<m>>]
          /\ executor_future' = [executor_future EXCEPT ![w] = "none"]
    BY <1>5 DEF DriveToJoinPoint
  <2>2. m \in WorkerMessages /\ m.type = "JoinPointReached"
    BY DEF WorkerMessages
  <2>3. /\ q \in Seq(WorkerMessages)
        /\ HasMessage(q, "JoinPointReached") <=> HasMessage(to_master[w], "JoinPointReached")
        /\ OneMessage(to_master[w], "JoinPointReached") => OneMessage(q, "JoinPointReached")
    BY SamplesSent
  <2>4. to_master \in [Workers -> Seq(WorkerMessages)] /\ executor_future \in [Workers -> Futures]
    BY DEF TypeOK
  <2> HIDE DEF q, m, WorkerMessages
  <2>5. q \o <<m>> = Append(q, m)
    BY <2>2, <2>3
  <2>6. to_master'[w] = Append(q, m) /\ executor_future'[w] = "none"
          /\ \A v \in Workers \ {w} : /\ to_master'[v] = to_master[v]
                                      /\ executor_future'[v] = executor_future[v]
    BY <2>1, <2>4, <2>5
  <2>7. HasMessage(Append(q, m), "JoinPointReached")
    BY <2>2, <2>3, HasMessageAppend
  <2>8. ~HasMessage(q, "JoinPointReached") /\ OneMessage(q, "JoinPointReached")
          => OneMessage(Append(q, m), "JoinPointReached")
    BY <2>2, <2>3, OneMessageAppend
  <2> QED
    BY <1>3, <1>4, <2>1, <2>3, <2>6, <2>7, <2>8
<1>6. CASE DriveSkips(w, j, pending) \/ DriveExecutor(w, j, pending)
  <2>1. ~IsJoinPoint(w, j) /\ to_master' = to_master
          /\ \A v \in Workers \ {w} : executor_future'[v] = executor_future[v]
    BY <1>6 DEF DriveSkips, DriveExecutor, TypeOK
  <2> QED
    BY <1>3, <1>4, <2>1
<1> QED
  BY <1>1, <1>5, <1>6

\* What receiving and sending do to the messages the barrier depends on
LEMMA MasterMail ==
    ASSUME TypeOK, NEW w \in Workers
    PROVE  /\ \A t : MasterReceives(w, t) =>
                 /\ \A v \in Workers \ {w} : to_master'[v] = to_master[v]
                 /\ HasMessage(to_master[w], t)
                 /\ HasMessage(to_master'[w], "JoinPointReached")
                      => HasMessage(to_master[w], "JoinPointReached")
                 /\ OneMessage(to_master[w], "JoinPointReached")
                      => /\ OneMessage(to_master'[w], "JoinPointReached")
                         /\ t = "JoinPointReached" => ~HasMessage(to_master'[w], "JoinPointReached")
           /\ LET q == Append(to_master[w], [type |-> "BenchmarkFailure"])
              IN  /\ HasMessage(q, "JoinPointReached") => HasMessage(to_master[w], "JoinPointReached")
                  /\ OneMessage(to_master[w], "JoinPointReached") => OneMessage(q, "JoinPointReached")
<1>1. to_master \in [Workers -> Seq(WorkerMessages)] /\ to_master[w] \in Seq(WorkerMessages)
  BY DEF TypeOK
<1>2. ASSUME NEW t, MasterReceives(w, t)
      PROVE  /\ \A v \in Workers \ {w} : to_master'[v] = to_master[v]
             /\ HasMessage(to_master[w], t)
             /\ HasMessage(to_master'[w], "JoinPointReached")
                  => HasMessage(to_master[w], "JoinPointReached")
             /\ OneMessage(to_master[w], "JoinPointReached")
                  => /\ OneMessage(to_master'[w], "JoinPointReached")
                     /\ t = "JoinPointReached" => ~HasMessage(to_master'[w], "JoinPointReached")
  <2>1. /\ to_master[w] # <<>> /\ Head(to_master[w]).type = t /\ to_master'[w] = Tail(to_master[w])
        /\ \A v \in Workers \ {w} : to_master'[v] = to_master[v]
    BY <1>1, <1>2 DEF MasterReceives
  <2> HIDE DEF WorkerMessages
  <2> QED
    BY <1>1, <2>1, HasMessageTail, OneMessageTail
<1>3. LET q == Append(to_master[w], [type |-> "BenchmarkFailure"])
      IN  /\ HasMessage(q, "JoinPointReached") => HasMessage(to_master[w], "JoinPointReached")
          /\ OneMessage(to_master[w], "JoinPointReached") => OneMessage(q, "JoinPointReached")
  <2>1. [type |-> "BenchmarkFailure"] \in WorkerMessages
    BY DEF WorkerMessages
  <2> HIDE DEF WorkerMessages
  <2> QED
    BY <1>1, <2>1, HasMessageAppend, OneMessageAppend
<1> QED
  BY <1>2, <1>3

\* What taking a message of type t out of a worker's mailbox leaves behind.
LEMMA WorkerMail ==
    ASSUME TypeOK, NEW w \in Workers, NEW t, WorkerReceives(w, t)
    PROVE  /\ \A v \in Workers \ {w} : to_worker'[v] = to_worker[v]
           /\ HasMessage(to_worker[w], t)
           /\ \A u \in {"StartWorker", "Drive"} :
                 /\ HasMessage(to_worker'[w], u) => HasMessage(to_worker[w], u)
                 /\ OneMessage(to_worker[w], u)
                      => OneMessage(to_worker'[w], u) /\ (t = u => ~HasMessage(to_worker'[w], u))
<1>1. to_worker \in [Workers -> Seq(CoordinatorMessages)] /\ to_worker[w] \in Seq(CoordinatorMessages)
  BY DEF TypeOK
<1>2. /\ to_worker[w] # <<>> /\ Head(to_worker[w]).type = t /\ to_worker'[w] = Tail(to_worker[w])
      /\ \A v \in Workers \ {w} : to_worker'[v] = to_worker[v]
  BY <1>1 DEF WorkerReceives
<1> HIDE DEF CoordinatorMessages
<1> QED
  BY <1>1, <1>2, HasMessageTail, OneMessageTail

\* What is in a worker's mailbox after a message of type t has been sent to it.
LEMMA WorkerSent ==
    ASSUME TypeOK, NEW v \in Workers, NEW t \in {"Drive", "CompleteCurrentTask", "BenchmarkFailure"}
    PROVE  LET q == Append(to_worker[v], [type |-> t])
           IN  \A u \in {"StartWorker", "Drive"} :
                 /\ HasMessage(q, u) <=> HasMessage(to_worker[v], u) \/ t = u
                 /\ OneMessage(to_worker[v], u) /\ (t = u => ~HasMessage(to_worker[v], u))
                      => OneMessage(q, u)
<1>1. to_worker[v] \in Seq(CoordinatorMessages) /\ [type |-> t] \in CoordinatorMessages
        /\ [type |-> t].type = t
  BY DEF TypeOK, CoordinatorMessages
<1> HIDE DEF CoordinatorMessages
<1> QED
  BY <1>1, HasMessageAppend, OneMessageAppend

\* The part of the inductive invariant about the barrier
BarrierInv == CompletionsCounted /\ OneReasonToDrive /\ LockInv

\* A step that sends no JoinPointReached, StartWorker or Drive, and neither
\* starts nor forgets an executor, keeps it.
LEMMA QuietStep ==
    ASSUME TypeOK, BarrierInv,
           UNCHANGED <<current_step, currently_completed, workers_completed_current_step,
                       current_task_index, start_driving>>,
           \A v \in Workers :
              /\ executor_future'[v] = executor_future[v]
                   \/ (executor_future[v] # "none" /\ executor_future'[v] # "none")
              /\ \A u \in {"StartWorker", "Drive"} :
                    /\ HasMessage(to_worker'[v], u) => HasMessage(to_worker[v], u)
                    /\ OneMessage(to_worker[v], u) => OneMessage(to_worker'[v], u)
              /\ HasMessage(to_master'[v], "JoinPointReached") => HasMessage(to_master[v], "JoinPointReached")
              /\ OneMessage(to_master[v], "JoinPointReached") => OneMessage(to_master'[v], "JoinPointReached")
    PROVE  BarrierInv'
<1>1. CompletionsCounted'
  BY DEF BarrierInv, CompletionsCounted
<1>2. OneReasonToDrive'
  BY DEF BarrierInv, OneReasonToDrive
<1>3. ASSUME NEW v \in Workers PROVE LockstepOf(v)'
  <2>1. AtStep(v)' = AtStep(v)
    BY DEF AtStep
  <2>2. LockstepOf(v)
    BY DEF BarrierInv, LockInv
  <2>3. Resting(v) => Resting(v)'
    BY DEF Resting
  <2> QED
    BY <2>1, <2>2, <2>3 DEF LockstepOf
<1> QED
  BY <1>1, <1>2, <1>3 DEF BarrierInv, LockInv

\* drive() keeps it when its caller had the worker's only reason to drive.
LEMMA DriveStep ==
    ASSUME TypeOK, BarrierInv, NEW w \in Workers, NEW pending \in Nat, DriveOn(w, pending),
           ~Resting(w),
           UNCHANGED <<current_step, currently_completed, workers_completed_current_step>>,
           ~HasMessage(to_worker'[w], "StartWorker"), ~HasMessage(to_worker'[w], "Drive"),
           \A u \in {"StartWorker", "Drive"} : OneMessage(to_worker'[w], u),
           ~start_driving'[w],
           \A v \in Workers \ {w} : to_worker'[v] = to_worker[v] /\ start_driving'[v] = start_driving[v]
    PROVE  BarrierInv'
<1>1. /\ \A v \in Workers \ {w} :
            /\ AtStep(v)' = AtStep(v) /\ to_master'[v] = to_master[v]
            /\ executor_future'[v] = executor_future[v]
      /\ \/ AtStep(w)' = AtStep(w) /\ to_master' = to_master
         \/ /\ AtStep(w)' = AtStep(w) + 1 /\ executor_future'[w] = "none"
            /\ HasMessage(to_master'[w], "JoinPointReached")
            /\ ~HasMessage(to_master[w], "JoinPointReached")
                   /\ OneMessage(to_master[w], "JoinPointReached")
                 => OneMessage(to_master'[w], "JoinPointReached")
  BY DriveOnEffect
<1>2. LockstepOf(w) /\ AtStep(w) = current_step + 1 /\ ~HasMessage(to_master[w], "JoinPointReached")
        /\ w \notin workers_completed_current_step
  BY DEF BarrierInv, LockInv, LockstepOf, TypeOK
<1>3. CompletionsCounted'
  BY DEF BarrierInv, CompletionsCounted
<1>4. OneReasonToDrive'
  BY <1>1 DEF BarrierInv, OneReasonToDrive
<1>5. ASSUME NEW v \in Workers \ {w} PROVE LockstepOf(v)'
  <2>1. LockstepOf(v)
    BY DEF BarrierInv, LockInv
  <2>2. Resting(v) => Resting(v)'
    BY <1>1 DEF Resting
  <2> QED
    BY <1>1, <2>1, <2>2 DEF LockstepOf
<1>6. LockstepOf(w)'
  <2>1. CASE AtStep(w)' = AtStep(w) /\ to_master' = to_master
    BY <1>2, <2>1 DEF LockstepOf, TypeOK
  <2>2. CASE AtStep(w)' = AtStep(w) + 1 /\ executor_future'[w] = "none"
               /\ HasMessage(to_master'[w], "JoinPointReached")
               /\ OneMessage(to_master'[w], "JoinPointReached")
    BY <1>2, <2>2 DEF LockstepOf, TypeOK, Resting
  <2> QED
    BY <1>1, <1>2, <2>1, <2>2 DEF LockstepOf
<1> QED
  BY <1>3, <1>4, <1>5, <1>6 DEF BarrierInv, LockInv

\* The last worker to report a join point finds every worker at it.
LEMMA LastWorkerReaches ==
    ASSUME TypeOK, BarrierInv, NEW w \in Workers, MasterReceives(w, "JoinPointReached"), LastWorker
    PROVE  /\ workers_completed_current_step \union {w} = Workers
           /\ \A v \in Workers : AtStep(v) = current_step + 2 /\ Resting(v)
<1>1. w \notin workers_completed_current_step /\ AtStep(w) = current_step + 2
  BY MasterMail DEF BarrierInv, LockInv, LockstepOf
<1>2. IsFiniteSet(workers_completed_current_step) /\ workers_completed_current_step \subseteq Workers
        /\ Cardinality(workers_completed_current_step) \in Nat /\ Cardinality(Workers) \in Nat
  BY WorkersAssumption, FS_Subset, FS_CardinalityType DEF TypeOK
<1>3. workers_completed_current_step \union {w} \in SUBSET Workers
        /\ Cardinality(workers_completed_current_step \union {w}) = Cardinality(Workers)
  BY <1>1, <1>2, FS_AddElement DEF LastWorker, BarrierInv, CompletionsCounted
<1>4. workers_completed_current_step \union {w} = Workers
  BY <1>3, WorkersAssumption, FS_Subset
<1>5. \A v \in Workers : AtStep(v) = current_step + 2
  BY <1>1, <1>4 DEF BarrierInv, LockInv, LockstepOf
<1> QED
  BY <1>4, <1>5 DEF BarrierInv, LockInv, LockstepOf

\* The coordinator's handling of JoinPointReached keeps the barrier.
LEMMA JoinPointStep ==
    ASSUME TypeOK, BarrierInv, NEW w \in Workers,
           JoinPointPending(w) \/ JoinPointRaises(w) \/ MoveToNextTask(w) \/ BenchmarkCompleted(w)
    PROVE  BarrierInv'
<1> USE DEF coordinatorVars, workerVars, clientVars
<1>1. MasterReceives(w, "JoinPointReached")
  BY DEF JoinPointPending, JoinPointRaises, MoveToNextTask, BenchmarkCompleted, StepCompleted,
         AllWorkersReached
<1>2. /\ \A v \in Workers \ {w} : to_master'[v] = to_master[v]
      /\ ~HasMessage(to_master'[w], "JoinPointReached") /\ OneMessage(to_master'[w], "JoinPointReached")
      /\ w \notin workers_completed_current_step /\ AtStep(w) = current_step + 2
  BY <1>1, MasterMail DEF BarrierInv, LockInv, LockstepOf
<1>3. \A v \in Workers : LockstepOf(v) /\ OneMessage(to_master'[v], "JoinPointReached")
        /\ (HasMessage(to_master'[v], "JoinPointReached") => v # w /\ HasMessage(to_master[v], "JoinPointReached"))
  BY <1>2 DEF BarrierInv, LockInv, LockstepOf
<1>4. UNCHANGED <<current_task_index, start_driving, executor_future>>
  BY DEF JoinPointPending, JoinPointRaises, MoveToNextTask, BenchmarkCompleted, StepCompleted
<1>5. \A v \in Workers : AtStep(v)' = AtStep(v)
  BY <1>4 DEF AtStep
<1>6. ASSUME \A v \in Workers : \A u \in {"StartWorker", "Drive"} :
                 /\ HasMessage(to_worker'[v], u) => HasMessage(to_worker[v], u)
                 /\ OneMessage(to_worker[v], u) => OneMessage(to_worker'[v], u)
      PROVE  OneReasonToDrive' /\ \A v \in Workers : Resting(v) => Resting(v)'
  BY <1>4, <1>6 DEF BarrierInv, OneReasonToDrive, Resting
<1>7. CASE JoinPointPending(w)
  <2>1. /\ UNCHANGED current_step
        /\ currently_completed' = currently_completed + 1
        /\ workers_completed_current_step' = workers_completed_current_step \union {w}
    BY <1>7 DEF JoinPointPending
  <2>2. to_worker' = to_worker
          \/ to_worker' = [v \in Workers |-> Append(to_worker[v], [type |-> "CompleteCurrentTask"])]
    BY <1>7 DEF JoinPointPending
  <2>3. \A v \in Workers : \A u \in {"StartWorker", "Drive"} :
            /\ HasMessage(to_worker'[v], u) => HasMessage(to_worker[v], u)
            /\ OneMessage(to_worker[v], u) => OneMessage(to_worker'[v], u)
    BY <2>2, WorkerSent
  <2>4. CompletionsCounted'
    <3>1. IsFiniteSet(workers_completed_current_step)
      BY WorkersAssumption, FS_Subset DEF TypeOK
    <3> QED
      BY <1>2, <2>1, <3>1, FS_AddElement DEF BarrierInv, CompletionsCounted
  <2>5. \A v \in Workers : LockstepOf(v)'
    BY <1>2, <1>3, <1>5, <1>6, <2>1, <2>3 DEF LockstepOf
  <2> QED
    BY <1>6, <2>3, <2>4, <2>5 DEF BarrierInv, LockInv
<1>8. CASE JoinPointRaises(w)
  <2>1. /\ UNCHANGED current_step /\ currently_completed' = 0 /\ workers_completed_current_step' = {}
        /\ to_worker' = [to_worker EXCEPT ![w] = Append(@, [type |-> "BenchmarkFailure"])]
    BY <1>8 DEF JoinPointRaises, AllWorkersReached
  <2>2. \A v \in Workers : to_worker'[v] = to_worker[v]
          \/ to_worker'[v] = Append(to_worker[v], [type |-> "BenchmarkFailure"])
    BY <2>1 DEF TypeOK
  <2>3. \A v \in Workers : \A u \in {"StartWorker", "Drive"} :
            /\ HasMessage(to_worker'[v], u) => HasMessage(to_worker[v], u)
            /\ OneMessage(to_worker[v], u) => OneMessage(to_worker'[v], u)
    BY <2>2, WorkerSent
  <2>4. CompletionsCounted'
    BY <2>1, FS_EmptySet DEF CompletionsCounted
  <2>5. \A v \in Workers : LockstepOf(v)'
    BY <1>3, <1>5, <1>6, <2>1, <2>3 DEF LockstepOf
  <2> QED
    BY <1>6, <2>3, <2>4, <2>5 DEF BarrierInv, LockInv
<1>9. CASE MoveToNextTask(w) \/ BenchmarkCompleted(w)
  <2>1. /\ current_step' = current_step + 1 /\ currently_completed' = 0
        /\ workers_completed_current_step' = {} /\ LastWorker
        /\ to_worker' = to_worker
             \/ to_worker' = [v \in Workers |-> Append(to_worker[v], [type |-> "Drive"])]
    BY <1>9 DEF MoveToNextTask, BenchmarkCompleted, StepCompleted, AllWorkersReached
  <2>2. CompletionsCounted'
    BY <2>1, FS_EmptySet DEF CompletionsCounted
  <2>3. \A v \in Workers : AtStep(v) = current_step + 2 /\ Resting(v)
    BY <1>1, <2>1, LastWorkerReaches
  <2>4. \A v \in Workers :
          /\ ~HasMessage(to_worker'[v], "StartWorker")
          /\ OneMessage(to_worker'[v], "StartWorker") /\ OneMessage(to_worker'[v], "Drive")
          /\ ~start_driving'[v] /\ executor_future'[v] = "none"
    BY <1>4, <2>1, <2>3, WorkerSent DEF BarrierInv, OneReasonToDrive, Resting
  <2>5. OneReasonToDrive'
    BY <2>4 DEF OneReasonToDrive
  <2>6. \A v \in Workers : ~HasMessage(to_master'[v], "JoinPointReached")
    BY <1>1, <1>2, <1>3, <2>1, LastWorkerReaches DEF LockstepOf
  <2>7. \A v \in Workers : LockstepOf(v)'
    BY <1>3, <1>5, <2>1, <2>3, <2>6 DEF LockstepOf, TypeOK
  <2> QED
    BY <2>2, <2>5, <2>7 DEF BarrierInv, LockInv
<1> QED
  BY <1>7, <1>8, <1>9

\* Every step keeps the barrier.
LEMMA BarrierStep ==
    ASSUME TypeOK, BarrierInv, [Next]_vars
    PROVE  BarrierInv'
<1> USE DEF coordinatorVars, workerVars, clientVars
<1> DEFINE SameMail(v) ==
        /\ HasMessage(to_master'[v], "JoinPointReached") => HasMessage(to_master[v], "JoinPointReached")
        /\ OneMessage(to_master[v], "JoinPointReached") => OneMessage(to_master'[v], "JoinPointReached")
<1>1. CASE MasterWakeup \/ UNCHANGED vars
  BY <1>1, QuietStep DEF MasterWakeup, vars
<1>2. ASSUME NEW w \in Workers,
             JoinPointPending(w) \/ JoinPointRaises(w) \/ MoveToNextTask(w) \/ BenchmarkCompleted(w)
      PROVE  BarrierInv'
  BY <1>2, JoinPointStep
<1>3. ASSUME NEW w \in Workers, MasterUpdateSamples(w) \/ MasterReceivesFailure(w)
      PROVE  BarrierInv'
  <2>1. MasterReceives(w, "UpdateSamples") \/ MasterReceives(w, "BenchmarkFailure")
    BY <1>3 DEF MasterUpdateSamples, MasterReceivesFailure
  <2>2. \A v \in Workers : SameMail(v)
    BY <2>1, MasterMail
  <2>3. UNCHANGED <<current_step, currently_completed, workers_completed_current_step,
                    current_task_index, start_driving, executor_future, to_worker>>
    BY <1>3 DEF MasterUpdateSamples, MasterReceivesFailure
  <2> QED
    BY <2>2, <2>3, QuietStep
<1>4. ASSUME NEW w \in Workers, ChildActorExited(w) \/ WorkerExits(w) PROVE BarrierInv'
  BY <1>4, QuietStep DEF ChildActorExited, WorkerExits
<1>5. ASSUME NEW w \in Workers, WorkerStart(w) PROVE BarrierInv'
  <2>1. /\ WorkerReceives(w, "StartWorker") /\ DriveOn(w, timers[w]) /\ timers[w] \in Nat
        /\ UNCHANGED <<current_step, currently_completed, workers_completed_current_step, start_driving>>
    BY <1>5 DEF WorkerStart, TypeOK
  <2>2. /\ HasMessage(to_worker[w], "StartWorker") /\ ~HasMessage(to_worker[w], "Drive")
        /\ ~start_driving[w]
        /\ \A u \in {"StartWorker", "Drive"} : OneMessage(to_worker[w], u)
    BY <2>1, WorkerMail DEF BarrierInv, OneReasonToDrive
  <2> QED
    BY <2>1, <2>2, WorkerMail, DriveStep DEF Resting
<1>6. ASSUME NEW w \in Workers, WorkerDrive(w) PROVE BarrierInv'
  <2>1. /\ WorkerReceives(w, "Drive")
        /\ start_driving' = [start_driving EXCEPT ![w] = TRUE]
        /\ UNCHANGED <<current_step, currently_completed, workers_completed_current_step,
                       current_task_index, executor_future, to_master>>
    BY <1>6 DEF WorkerDrive
  <2>2. HasMessage(to_worker[w], "Drive") /\ ~HasMessage(to_worker[w], "StartWorker")
          /\ executor_future[w] = "none"
    BY <2>1, WorkerMail DEF BarrierInv, OneReasonToDrive
  <2>3. /\ \A v \in Workers \ {w} : to_worker'[v] = to_worker[v] /\ start_driving'[v] = start_driving[v]
        /\ ~HasMessage(to_worker'[w], "Drive") /\ ~HasMessage(to_worker'[w], "StartWorker")
        /\ OneMessage(to_worker'[w], "StartWorker") /\ OneMessage(to_worker'[w], "Drive")
    BY <2>1, <2>2, WorkerMail DEF BarrierInv, OneReasonToDrive, TypeOK
  <2>4. OneReasonToDrive'
    BY <2>1, <2>2, <2>3 DEF BarrierInv, OneReasonToDrive
  <2>5. AtStep(w) = current_step + 1
    BY <2>2 DEF BarrierInv, LockInv, LockstepOf, Resting
  <2>6. \A v \in Workers : AtStep(v)' = AtStep(v)
    BY <2>1 DEF AtStep
  <2>7. ASSUME NEW v \in Workers PROVE LockstepOf(v)'
    <3>1. LockstepOf(v) /\ current_step \in Int
      BY DEF BarrierInv, LockInv, TypeOK
    <3>2. CASE v = w
      BY <2>1, <2>5, <2>6, <3>1, <3>2 DEF LockstepOf
    <3>3. CASE v # w
      BY <2>1, <2>3, <2>6, <3>1, <3>3 DEF LockstepOf, Resting
    <3> QED
      BY <3>2, <3>3
  <2> QED
    BY <2>1, <2>4, <2>7 DEF BarrierInv, LockInv, CompletionsCounted
<1>7. ASSUME NEW w \in Workers, WorkerCompleteCurrentTask(w) \/ WorkerForwardsFailure(w)
      PROVE  BarrierInv'
  <2>1. /\ WorkerReceives(w, "CompleteCurrentTask") \/ WorkerReceives(w, "BenchmarkFailure")
        /\ to_master' = to_master
             \/ to_master' = [to_master EXCEPT ![w] = Append(@, [type |-> "BenchmarkFailure"])]
        /\ UNCHANGED <<current_step, currently_completed, workers_completed_current_step,
                       current_task_index, start_driving, executor_future>>
    BY <1>7 DEF WorkerCompleteCurrentTask, WorkerForwardsFailure
  <2>2. \A v \in Workers : SameMail(v)
    BY <2>1, MasterMail DEF TypeOK
  <2>3. \A v \in Workers : \A u \in {"StartWorker", "Drive"} :
            /\ HasMessage(to_worker'[v], u) => HasMessage(to_worker[v], u)
            /\ OneMessage(to_worker[v], u) => OneMessage(to_worker'[v], u)
    BY <2>1, WorkerMail
  <2> QED
    BY <2>1, <2>2, <2>3, QuietStep
<1>8. ASSUME NEW w \in Workers, WakeupToDrive(w) PROVE BarrierInv'
  <2>1. /\ start_driving[w] /\ start_driving' = [start_driving EXCEPT ![w] = FALSE]
        /\ DriveOn(w, timers[w] - 1) /\ timers[w] - 1 \in Nat
        /\ UNCHANGED <<current_step, currently_completed, workers_completed_current_step, to_worker>>
    BY <1>8 DEF WakeupToDrive, TypeOK
  <2>2. /\ ~start_driving'[w] /\ \A v \in Workers \ {w} : start_driving'[v] = start_driving[v]
        /\ ~HasMessage(to_worker[w], "StartWorker") /\ ~HasMessage(to_worker[w], "Drive")
        /\ \A u \in {"StartWorker", "Drive"} : OneMessage(to_worker[w], u)
    BY <2>1 DEF BarrierInv, OneReasonToDrive, TypeOK
  <2> QED
    BY <2>1, <2>2, DriveStep DEF Resting
<1>9. ASSUME NEW w \in Workers, WakeupToCheck(w) PROVE BarrierInv'
  <2>1. \A v \in Workers : to_master'[v] = IF v = w THEN to_master[v] \o SamplesMessage(v)
                                                    ELSE to_master[v]
    BY <1>9 DEF WakeupToCheck, TypeOK
  <2>2. \A v \in Workers : SameMail(v)
    BY <2>1, SamplesSent
  <2>3. UNCHANGED <<current_step, currently_completed, workers_completed_current_step,
                    current_task_index, start_driving, executor_future, to_worker>>
    BY <1>9 DEF WakeupToCheck
  <2> QED
    BY <2>2, <2>3, QuietStep
<1>10. ASSUME NEW w \in Workers, CheckDone(w) PROVE BarrierInv'
  <2>1. /\ executor_future[w] = "done" /\ DriveOn(w, timers[w]) /\ timers[w] \in Nat
        /\ UNCHANGED <<current_step, currently_completed, workers_completed_current_step,
                       start_driving, to_worker>>
    BY <1>10 DEF CheckDone, Handled, TypeOK
  <2>2. /\ ~start_driving[w]
        /\ ~HasMessage(to_worker[w], "StartWorker") /\ ~HasMessage(to_worker[w], "Drive")
        /\ \A u \in {"StartWorker", "Drive"} : OneMessage(to_worker[w], u)
    BY <2>1 DEF BarrierInv, OneReasonToDrive
  <2> QED
    BY <2>1, <2>2, DriveStep DEF Resting
<1>11. ASSUME NEW w \in Workers, CheckFailed(w) \/ CheckBusy(w) PROVE BarrierInv'
  <2>1. to_master' = to_master
          \/ to_master' = [to_master EXCEPT ![w] = Append(@, [type |-> "BenchmarkFailure"])]
    BY <1>11 DEF CheckFailed, CheckBusy
  <2>2. \A v \in Workers : SameMail(v)
    BY <2>1, MasterMail DEF TypeOK
  <2>3. UNCHANGED <<current_step, currently_completed, workers_completed_current_step,
                    current_task_index, start_driving, executor_future, to_worker>>
    BY <1>11 DEF CheckFailed, CheckBusy, Handled
  <2> QED
    BY <2>2, <2>3, QuietStep
<1>12. ASSUME NEW w \in Workers, ExecutorFinishes(w) PROVE BarrierInv'
  BY <1>12, QuietStep DEF ExecutorFinishes, TypeOK
<1>13. ASSUME NEW c \in Clients, Client(c) PROVE BarrierInv'
  BY <1>13, QuietStep DEF Client, ClientContinues, ClientFinishes
<1>14. ASSUME NEW c \in Clients, ClientRaises(c) PROVE BarrierInv'
  <2>1. \A v \in Workers : executor_future'[v] = executor_future[v]
          \/ (executor_future[v] # "none" /\ executor_future'[v] # "none")
    BY <1>14, AssignmentAssumption DEF ClientRaises, ClientRuns, TypeOK
  <2> QED
    BY <1>14, <2>1, QuietStep DEF ClientRaises
<1> QED
  BY <1>1, <1>2, <1>3, <1>4, <1>5, <1>6, <1>7, <1>8, <1>9, <1>10, <1>11, <1>12, <1>13, <1>14
     DEF Next, Coordinator, WorkerMailbox, WorkerWakeup

-----------------------------------------------------------------------------
(* Executors *)

\* drive() is never called with clients of the worker still running.
LEMMA RunningDrive ==
    ASSUME TypeOK, RunningInv, NEW w \in Workers, NEW pending \in Nat, DriveOn(w, pending),
           executor_future[w] \notin {"running", "failed"}
    PROVE  RunningInv'
<1>1. PICK j \in Rows :
        /\ current_task_index' = [current_task_index EXCEPT ![w] = j]
        /\ DriveToJoinPoint(w, j, pending) \/ DriveSkips(w, j, pending) \/ DriveExecutor(w, j, pending)
  BY DEF DriveOn
<1>2. \A c \in Clients : client[c] = "running" => AssignedWorker[c] # w /\ AssignedWorker[c] \in Workers
  BY AssignmentAssumption DEF RunningInv
<1>3. \A v \in Workers \ {w} : current_task_index'[v] = current_task_index[v]
        /\ executor_future'[v] = executor_future[v]
  BY <1>1 DEF TypeOK, DriveToJoinPoint, DriveSkips, DriveExecutor
<1>4. CASE client' = client
  BY <1>2, <1>3, <1>4 DEF RunningInv
<1>5. CASE DriveExecutor(w, j, pending)
  <2>1. /\ executor_future'[w] = "running" /\ current_task_index'[w] = j
        /\ \A c \in Clients : client'[c] = IF c \in Executing(w, j) THEN "running" ELSE client[c]
    BY <1>1, <1>5 DEF DriveExecutor, TypeOK
  <2>2. \A c \in Executing(w, j) : AssignedWorker[c] = w
    BY DEF Executing, ClientsOf
  <2> QED
    BY <1>2, <1>3, <2>1, <2>2 DEF RunningInv
<1> QED
  BY <1>1, <1>4, <1>5 DEF DriveToJoinPoint, DriveSkips

\* Every step keeps RunningInv.
LEMMA RunningStep ==
    ASSUME TypeOK, RunningInv, OneReasonToDrive, [Next]_vars
    PROVE  RunningInv'
<1> USE DEF coordinatorVars, workerVars, clientVars
<1>1. ASSUME NEW w \in Workers, WorkerStart(w) PROVE RunningInv'
  <2>1. executor_future[w] = "none" /\ DriveOn(w, timers[w]) /\ timers[w] \in Nat
    BY <1>1, WorkerMail DEF WorkerStart, OneReasonToDrive, TypeOK
  <2> QED
    BY <2>1, RunningDrive
<1>2. ASSUME NEW w \in Workers, WakeupToDrive(w) PROVE RunningInv'
  <2>1. executor_future[w] = "none" /\ DriveOn(w, timers[w] - 1) /\ timers[w] - 1 \in Nat
    BY <1>2 DEF WakeupToDrive, OneReasonToDrive, TypeOK
  <2> QED
    BY <2>1, RunningDrive
<1>3. ASSUME NEW w \in Workers, CheckDone(w) PROVE RunningInv'
  <2>1. executor_future[w] = "done" /\ DriveOn(w, timers[w]) /\ timers[w] \in Nat
    BY <1>3 DEF CheckDone, TypeOK
  <2> QED
    BY <2>1, RunningDrive
<1>4. ASSUME NEW w \in Workers, ExecutorFinishes(w) PROVE RunningInv'
  BY <1>4, AssignmentAssumption DEF RunningInv, ExecutorFinishes, TypeOK
<1>5. ASSUME NEW c \in Clients, ClientFinishes(c) PROVE RunningInv'
  BY <1>5 DEF RunningInv, ClientFinishes, TypeOK
<1>6. ASSUME NEW c \in Clients, ClientRaises(c) PROVE RunningInv'
  BY <1>6, AssignmentAssumption DEF RunningInv, ClientRaises, TypeOK
<1>7. ASSUME UNCHANGED <<client, current_task_index, executor_future>> PROVE RunningInv'
  BY <1>7 DEF RunningInv
<1>8. CASE MasterWakeup \/ UNCHANGED vars
  BY <1>7, <1>8 DEF MasterWakeup, vars
<1>9. ASSUME NEW w \in Workers, Coordinator(w) \/ WorkerExits(w) PROVE RunningInv'
  BY <1>7, <1>9 DEF Coordinator, JoinPointPending, JoinPointRaises, MoveToNextTask, BenchmarkCompleted,
     StepCompleted, MasterUpdateSamples, MasterReceivesFailure, ChildActorExited, WorkerExits
<1>10. ASSUME NEW w \in Workers, WorkerDrive(w) \/ WorkerCompleteCurrentTask(w) \/ WorkerForwardsFailure(w)
       PROVE  RunningInv'
  BY <1>7, <1>10 DEF WorkerDrive, WorkerCompleteCurrentTask, WorkerForwardsFailure
<1>11. ASSUME NEW w \in Workers, WakeupToCheck(w) \/ CheckFailed(w) \/ CheckBusy(w) PROVE RunningInv'
  BY <1>7, <1>11 DEF WakeupToCheck, CheckFailed, CheckBusy
<1>12. ASSUME NEW c \in Clients, ClientContinues(c) PROVE RunningInv'
  BY <1>7, <1>12 DEF ClientContinues
<1> QED
  BY <1>1, <1>2, <1>3, <1>4, <1>5, <1>6, <1>8, <1>9, <1>10, <1>11, <1>12
     DEF Next, WorkerMailbox, WorkerWakeup, Client

-----------------------------------------------------------------------------
(* The theorems *)

\* The initial state satisfies the inductive invariant.
LEMMA InitInv == Init => IInv
<1> SUFFICES ASSUME Init PROVE IInv
  OBVIOUS
<1>1. TypeOK
  <2>1. <<[type |-> "StartWorker"]>> \in Seq(CoordinatorMessages)
    BY DEF CoordinatorMessages
  <2>2. most_recent_sample_per_client \in [Clients -> Progress]
    BY DEF Init, Progress, Units
  <2> HIDE DEF CoordinatorMessages, WorkerMessages
  <2>3. to_worker \in [Workers -> Seq(CoordinatorMessages)]
    BY <2>1 DEF Init
  <2>4. /\ to_master \in [Workers -> Seq(WorkerMessages)]
        /\ sampler \in [Workers -> Seq(Samples)] /\ profile_sampler \in [Workers -> Seq(Samples)]
        /\ reports \in Seq({"TaskFinished", "BenchmarkComplete", "BenchmarkFailure"})
    BY DEF Init
  <2>5. /\ current_task_index \in [Workers -> 0 .. NumRows] /\ requests \in [Clients -> 0 .. MaxRequests]
        /\ timers \in [Workers -> Nat] /\ current_step \in Nat \union {-1} /\ currently_completed \in Nat
    BY BoundsAssumption DEF Init
  <2>6. /\ complete \in [Workers -> BOOLEAN] /\ start_driving \in [Workers -> BOOLEAN]
        /\ executor_future \in [Workers -> Futures]
        /\ handling \in [Workers -> Progress \union {NotHandling}]
        /\ alive \in [Workers -> {"alive", "exited", "noticed"}]
        /\ client \in [Clients -> {"idle", "running", "finished"}]
    BY DEF Init, Futures
  <2> QED
    BY <2>2, <2>3, <2>4, <2>5, <2>6 DEF Init, TypeOK
<1>2. RunningInv
  BY DEF Init, RunningInv
<1>3. CompletionsCounted
  BY FS_EmptySet DEF Init, CompletionsCounted
<1>4. OneReasonToDrive
  BY DEF Init, OneReasonToDrive, OneMessage, HasMessage
<1>5. LockInv
  <2>1. \A w \in Workers : AtStep(w) = 0
    BY JoinCountType DEF Init, AtStep, JoinPointsUpTo
  <2> QED
    BY <2>1 DEF Init, LockInv, LockstepOf, HasMessage, OneMessage
<1> QED
  BY <1>1, <1>2, <1>3, <1>4, <1>5 DEF IInv

\* Every step keeps it.
LEMMA NextInv == IInv /\ [Next]_vars => IInv'
BY TypeStep, RunningStep, BarrierStep DEF IInv, BarrierInv

\* The inductive invariant holds in every reachable state.
THEOREM Invariance == Spec => []IInv
BY InitInv, NextInv, PTL DEF Spec

\* Every variable of the coordinator, the workers and the clients keeps its
\* type; in particular every message a handler takes from a mailbox is one it
\* can handle.
THEOREM TypeCorrect == Spec => []TypeOK
<1>1. IInv => TypeOK
  BY DEF IInv
<1> QED
  BY <1>1, Invariance, PTL

\* The counter joinpoint_reached compares with the number of workers counts
\* distinct workers: no duplicate, late or reordered report can release a join
\* point early.
THEOREM CountedOnce == Spec => []CompletionsCounted
<1>1. IInv => CompletionsCounted
  BY DEF IInv
<1> QED
  BY <1>1, Invariance, PTL

\* A worker never has two reasons to call drive().
THEOREM DrivenOnce == Spec => []OneReasonToDrive
<1>1. IInv => OneReasonToDrive
  BY DEF IInv
<1> QED
  BY <1>1, Invariance, PTL

\* A step of the coordinator, a worker or a client is a step of the abstract
\* barrier, or changes nothing it can see.
LEMMA BarrierSimulation == IInv /\ [Next]_vars => [Barrier!BarrierNext]_(Barrier!barrierVars)
<1> SUFFICES ASSUME IInv, [Next]_vars PROVE [Barrier!BarrierNext]_(Barrier!barrierVars)
  OBVIOUS
<1> USE DEF coordinatorVars, workerVars, clientVars
<1>1. TypeOK /\ BarrierInv /\ LockInv
  BY DEF IInv, BarrierInv
<1>2. ASSUME UNCHANGED <<current_step, current_task_index>> PROVE UNCHANGED Barrier!barrierVars
  BY <1>2 DEF Barrier!barrierVars, Reached
<1>3. ASSUME NEW w \in Workers, NEW pending \in Nat, DriveOn(w, pending), ~Resting(w),
             UNCHANGED current_step
      PROVE  [Barrier!BarrierNext]_(Barrier!barrierVars)
  <2>1. /\ \A v \in Workers \ {w} : AtStep(v)' = AtStep(v)
        /\ AtStep(w)' = AtStep(w) \/ AtStep(w)' = AtStep(w) + 1
    BY <1>1, <1>3, DriveOnEffect
  <2>2. AtStep(w) = current_step + 1
    BY <1>1, <1>3 DEF LockInv, LockstepOf
  <2>3. Reached = [v \in Workers |-> AtStep(v)] /\ Reached' = [v \in Workers |-> AtStep(v)']
    BY DEF Reached, AtStep
  <2>4. CASE AtStep(w)' = AtStep(w)
    BY <1>3, <2>1, <2>3, <2>4 DEF Barrier!barrierVars
  <2>5. CASE AtStep(w)' = AtStep(w) + 1
    <3>1. Reached' = [Reached EXCEPT ![w] = (current_step + 1) + 1]
      BY <2>1, <2>2, <2>3, <2>5
    <3>2. Reached[w] = current_step + 1
      BY <2>2, <2>3
    <3>3. current_step + 1 < NumJoinPoints
      <4>1. current_task_index'[w] \in 0 .. NumRows
        BY <1>1, <1>3, DriveOnType
      <4>2. AtStep(w)' <= NumJoinPoints /\ AtStep(w)' \in Nat /\ NumJoinPoints \in Nat
        BY <4>1, JoinCountType, BoundsAssumption DEF AtStep, JoinPointsUpTo, NumJoinPoints
      <4> QED
        BY <1>1, <2>2, <2>5, <4>2 DEF TypeOK
    <3>4. Barrier!Reach(w)
      BY <1>3, <3>1, <3>2, <3>3 DEF Barrier!Reach
    <3> QED
      BY <3>4 DEF Barrier!BarrierNext
  <2> QED
    BY <2>1, <2>4, <2>5
<1>4. ASSUME NEW w \in Workers, MoveToNextTask(w) \/ BenchmarkCompleted(w)
      PROVE  Barrier!BarrierNext
  <2>1. /\ current_step' = current_step + 1 /\ UNCHANGED current_task_index
        /\ LastWorker /\ MasterReceives(w, "JoinPointReached")
    BY <1>4 DEF MoveToNextTask, BenchmarkCompleted, StepCompleted, AllWorkersReached
  <2>2. \A v \in Workers : AtStep(v) = current_step + 2
    BY <1>1, <2>1, LastWorkerReaches
  <2>3. \A v \in Workers : Reached[v] = (current_step + 1) + 1
    BY <1>1, <2>2 DEF Reached, AtStep, TypeOK
  <2>4. UNCHANGED Reached
    BY <2>1 DEF Reached
  <2>5. Barrier!Release
    BY <2>1, <2>3, <2>4 DEF Barrier!Release
  <2> QED
    BY <2>5 DEF Barrier!BarrierNext
<1>5. CASE MasterWakeup \/ UNCHANGED vars
  BY <1>2, <1>5 DEF MasterWakeup, vars
<1>6. ASSUME NEW w \in Workers,
             \/ JoinPointPending(w) \/ JoinPointRaises(w) \/ MasterUpdateSamples(w)
             \/ MasterReceivesFailure(w) \/ ChildActorExited(w) \/ WorkerExits(w)
      PROVE  UNCHANGED Barrier!barrierVars
  BY <1>2, <1>6 DEF JoinPointPending, JoinPointRaises, MasterUpdateSamples, MasterReceivesFailure,
     ChildActorExited, WorkerExits
<1>7. ASSUME NEW w \in Workers,
             \/ WorkerDrive(w) \/ WorkerCompleteCurrentTask(w) \/ WorkerForwardsFailure(w)
             \/ WakeupToCheck(w) \/ CheckFailed(w) \/ CheckBusy(w) \/ ExecutorFinishes(w)
      PROVE  UNCHANGED Barrier!barrierVars
  BY <1>2, <1>7 DEF WorkerDrive, WorkerCompleteCurrentTask, WorkerForwardsFailure, WakeupToCheck,
     CheckFailed, CheckBusy, Handled, ExecutorFinishes
<1>8. ASSUME NEW c \in Clients, Client(c) \/ ClientRaises(c) PROVE UNCHANGED Barrier!barrierVars
  BY <1>2, <1>8 DEF Client, ClientContinues, ClientFinishes, ClientRaises
<1>9. ASSUME NEW w \in Workers, WorkerStart(w) PROVE [Barrier!BarrierNext]_(Barrier!barrierVars)
  <2>1. DriveOn(w, timers[w]) /\ timers[w] \in Nat /\ UNCHANGED current_step
    BY <1>1, <1>9 DEF WorkerStart, TypeOK
  <2>2. ~Resting(w)
    BY <1>1, <1>9, WorkerMail DEF WorkerStart, Resting
  <2> QED
    BY <1>3, <2>1, <2>2
<1>10. ASSUME NEW w \in Workers, WakeupToDrive(w) PROVE [Barrier!BarrierNext]_(Barrier!barrierVars)
  <2>1. DriveOn(w, timers[w] - 1) /\ timers[w] - 1 \in Nat /\ UNCHANGED current_step /\ ~Resting(w)
    BY <1>1, <1>10 DEF WakeupToDrive, Resting, TypeOK
  <2> QED
    BY <1>3, <2>1
<1>11. ASSUME NEW w \in Workers, CheckDone(w) PROVE [Barrier!BarrierNext]_(Barrier!barrierVars)
  <2>1. DriveOn(w, timers[w]) /\ timers[w] \in Nat /\ UNCHANGED current_step /\ ~Resting(w)
    BY <1>1, <1>11 DEF CheckDone, Handled, Resting, TypeOK
  <2> QED
    BY <1>3, <2>1
<1> QED
  BY <1>4, <1>5, <1>6, <1>7, <1>8, <1>9, <1>10, <1>11
     DEF Next, Coordinator, WorkerMailbox, WorkerWakeup

\* The coordinator implements the abstract barrier for every set of workers and
\* every allocation matrix: the workers pass the join points in lockstep.
THEOREM ImplementsBarrier == Spec => StepsInLockstep
<1>1. Init => Barrier!BarrierInit
  <2>1. Init => \A w \in Workers : JoinPointsUpTo(current_task_index[w]) = 0
    BY JoinCountType DEF Init, JoinPointsUpTo
  <2> QED
    BY <2>1 DEF Init, Barrier!BarrierInit, Reached
<1> QED
  BY <1>1, BarrierSimulation, Invariance, PTL DEF Spec, StepsInLockstep, Barrier!BarrierSpec
=============================================================================
