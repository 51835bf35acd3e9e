----------------------------- MODULE ClientsMC -----------------------------
(***************************************************************************)
(* The clients of a worker: when they send their requests, which           *)
(* LoadGeneration models with runners that do anything, and what the       *)
(* runners do, which SolrOperations models whenever they are called.  A    *)
(* behaviour is about one of the two: part.                                *)
(***************************************************************************)
EXTENDS LoadGenerationMC, SolrOperationsMC

VARIABLE part

LoadParked == LoadInit /\ scenario = Completing
OperationsParked == OperationsInit /\ script = Script(<<>>, <<>>)

Init ==
    \/ part = "schedule" /\ LoadInit /\ OperationsParked
    \/ part = "operations" /\ LoadParked /\ OperationsInit

Scheduled(A) == A /\ part = "schedule" /\ UNCHANGED <<operationVars, part>>
Operated(A) == A /\ part = "operations" /\ UNCHANGED <<loadVars, part>>

Next == Scheduled(LoadNext) \/ Operated(OperationsNext)

vars == <<loadVars, operationVars, part>>

\* The fairness of LoadGeneration and of SolrOperations
Spec ==
    /\ Init /\ [][Next]_vars
    /\ WF_vars(Scheduled(Tick)) /\ \A c \in Clients : WF_vars(Scheduled(Step(c)))
    /\ \A c \in Callers : WF_vars(Operated(BeginOperation(c)))
    /\ WF_vars(Operated(\E k \in calls : TakeThread(k) \/ CallReturns(k)))

(***************************************************************************)
(* Everything ends: a client with an infinite schedule because the task    *)
(* that completes its parent element does, even if that one is paused or   *)
(* fails; an operation because it waits neither for merges nor for a       *)
(* thread for ever.                                                        *)
(***************************************************************************)
ClientsEnd == <>[](IF part = "schedule" THEN ClientsEnded ELSE OperationsEnded)
=============================================================================
