---------------------------- MODULE IngestionMC ----------------------------
(***************************************************************************)
(* The documents on the load generators: the corpora are either prepared   *)
(* before the benchmark or streamed during it, so a behaviour is about one *)
(* of the two: part.                                                       *)
(***************************************************************************)
EXTENDS WorkloadPreparationMC, StreamingIngestionMC

VARIABLE part

Init == PreparationInit /\ StreamInit /\ part \in {"prepared", "streamed"}

Prepared(A) == A /\ part = "prepared" /\ UNCHANGED <<streamVars, part>>
Streamed(A) == A /\ part = "streamed" /\ UNCHANGED <<preparationVars, part>>

Next == Prepared(PreparationNext) \/ Streamed(StreamNext)

vars == <<preparationVars, streamVars, part>>

\* The fairness of WorkloadPreparation and of StreamingIngestion
Spec ==
    /\ Init /\ [][Next]_vars
    /\ WF_vars(Prepared(CoordinatorStep))
    /\ \A h \in Hosts : WF_vars(Prepared(PreparatorStep(h)))
    /\ \A e \in Executors : WF_vars(Prepared(ExecutorStep(e))) /\ WF_vars(Prepared(TaskEnds(e)))
    /\ SF_vars(Streamed(ProducerStep))
    /\ \A c \in Consumers : SF_vars(Streamed(ConsumerStep(c)))

(***************************************************************************)
(* The coordinator reports the end of the preparation, or a failure of it, *)
(* unless a process has died; all consumers of a stream come to its end    *)
(* unless the producer waits at its backlog limit for ever: there is no    *)
(* other way for either to hang.                                           *)
(***************************************************************************)
DocumentsArrive ==
    \/ <>(IF part = "prepared" THEN PreparationReported ELSE StreamRead)
    \/ <>[](part = "streamed" /\ producer = "blocked")
=============================================================================
