--------------------------- MODULE MeasurementMC ---------------------------
(***************************************************************************)
(* Small instances of what becomes of the measurements: the flow of the    *)
(* records to the orchestrator, the throughput of a task and the results   *)
(* of a test run.  They meet in the records only, so a behaviour is about  *)
(* one of them: part.                                                      *)
(***************************************************************************)
EXTENDS MetricsFlow, Throughput, Results

VARIABLE part

SomeDevices == <<"jvm", "shard">>
NamedClients == [t \in Tasks |-> CASE t = "search_2_clients" -> 2 [] t = "search_4_clients" -> 4 [] OTHER -> 0]

ThroughputParked == ThroughputInit /\ \A s \in Sources : warm[s] = 0
ResultsParked ==
    /\ ResultsInit
    /\ asked = [latency |-> CHOOSE l \in LatencyLists : TRUE, throughput |-> {}, values |-> "available"]

Init ==
    \/ part = "flow" /\ FlowInit /\ ThroughputParked /\ ResultsParked
    \/ part = "throughput" /\ FlowInit /\ ThroughputInit /\ ResultsParked
    \/ part = "results" /\ FlowInit /\ ThroughputParked /\ ResultsInit

About(p) ==
    /\ part = p /\ UNCHANGED part
    /\ p # "flow" => UNCHANGED flowVars
    /\ p # "throughput" => UNCHANGED throughputVars
    /\ p # "results" => UNCHANGED resultsVars

Coordinator == About("flow") /\ CoordinatorStep
Orchestrator == About("flow") /\ OrchestratorStep
ShardSampler == About("flow") /\ "shard" \in Devices /\ PollStep("shard")

Next ==
    \/ About("flow") /\ FlowNext
    \/ About("throughput") /\ ThroughputNext
    \/ About("results") /\ ResultsNext

vars == <<flowVars, throughputVars, resultsVars, part>>

\* The actors handle their messages and go on, and the requests of the shard sampler time out.
Spec == Init /\ [][Next]_vars /\ WF_vars(Coordinator) /\ WF_vars(Orchestrator) /\ WF_vars(ShardSampler)

FlowEnds == part = "flow" => ResultsAreCalculated
=============================================================================
