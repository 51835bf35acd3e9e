--------------------------- MODULE Orchestration ---------------------------
(***************************************************************************)
(* A test run from the command line's point of view: the pipeline and      *)
(* run_test in the main process (osbenchmark/test_run_orchestrator.py),    *)
(* the BenchmarkActor that orchestrates the run, and the actors that start *)
(* and stop the cluster: BuilderActor, Dispatcher and one NodeBuilderActor *)
(* per target host (osbenchmark/builder/builder.py).  Of the worker        *)
(* coordinator only what the orchestrator sees of it is here; the modules  *)
(* WorkloadPreparation and WorkerCoordination have the rest.               *)
(*                                                                         *)
(* The actor hierarchy is main -> orchestrator -> {builder -> dispatcher   *)
(* -> node builders, worker coordinator}.  Messages between two actors     *)
(* arrive in the order they were sent; messages of different senders do    *)
(* not.  An actor that exits tells its children to exit.                   *)
(***************************************************************************)
EXTENDS Integers, Sequences, FiniteSets

CONSTANTS
    Hosts,          \* the target hosts, nodes_by_host: one node builder for each
    Local,          \* those of them that are 127.0.0.1
    NoChild,        \* None in the builder's children
    Tasks,          \* elements of the schedule: the last one completes the benchmark
    FaultKinds,     \* what may go wrong ...
    MaxFaults       \* bound: ... and how often

AllFaultKinds == {"raise", "death", "poison", "interrupt", "cancel", "timeout"}

ASSUME HostsAssumption ==
    /\ IsFiniteSet(Hosts) /\ Hosts # {} /\ Local \subseteq Hosts
    /\ NoChild \notin Hosts
    /\ Hosts \intersect {"main", "orchestrator", "builder", "dispatcher", "worker_coordinator"} = {}
ASSUME BoundsAssumption ==
    /\ Tasks \in Nat \ {0}
    /\ FaultKinds \subseteq AllFaultKinds /\ MaxFaults \in Nat

VARIABLES
    setup,          \* the arguments: is the cluster external, does the pipeline provision Solr?
    main,           \* where run_test stands
    result,         \* how it ended
    solr,           \* is the pipeline's own Solr running?
    orchestrator,   \* cancelled, error: of BenchmarkCoordinator
    stored,         \* elements of the schedule whose metrics are in the metrics store
    published,      \* have the results been stored and summarized?
    builder,        \* status, children and received responses of BuilderActor
    dispatcher,     \* pending and remotes of Dispatcher
    node,           \* the NodeBuilderActors and the nodes they manage
    coordinator,    \* phase of WorkerCoordinatorActor and the elements it has still to run
    alive,          \* actors that have been created and have not exited
    died,           \* actors that are gone without having been told to exit
    net,            \* the messages on their way, in their order
    faults          \* bound: what has gone wrong so far

actorVars == <<orchestrator, stored, published, builder, dispatcher, node, coordinator>>
mainVars == <<setup, main, result, solr>>
vars == <<mainVars, actorVars, alive, died, net, faults>>

Main == "main"
Orchestrator == "orchestrator"
Builder == "builder"
Dispatcher == "dispatcher"
Coordinator == "worker_coordinator"
Actors == {Orchestrator, Builder, Dispatcher, Coordinator} \union Hosts

ChildrenOf(a) ==
    CASE a = Orchestrator -> {Builder, Coordinator}
      [] a = Builder -> {Dispatcher}
      [] a = Dispatcher -> Hosts
      [] OTHER -> {}
ParentOf(a) ==
    CASE a = Orchestrator -> Main
      [] a \in {Builder, Coordinator} -> Orchestrator
      [] a = Dispatcher -> Builder
      [] OTHER -> Dispatcher

Links == {<<Main, Orchestrator>>, <<Orchestrator, Builder>>, <<Orchestrator, Coordinator>>,
          <<Builder, Dispatcher>>}
         \union ({Builder, Dispatcher} \X Hosts)
\* A node builder sends messages to itself, too.
Channels == Links \union {<<l[2], l[1]>> : l \in Links} \union {<<h, h>> : h \in Hosts}

Messages ==
    {"Setup", "BenchmarkCancelled", "BenchmarkFailure", "Success", "PoisonMessage",
     "StartEngine", "EngineStarted", "StopEngine", "EngineStopped",
     "ResetRelativeTime", "StartNodes", "NodesStarted", "StopNodes", "NodesStopped",
     "PrepareBenchmark", "PreparationComplete", "StartBenchmark", "TaskFinished",
     "BenchmarkComplete", "ActorExitRequest", "ChildActorExited"}

\* The actors' attributes, the messages between them and the nodes of the hosts keep their types.
TypeOK ==
    /\ setup \in [external : BOOLEAN, provisions : BOOLEAN]
    /\ main \in {"provision", "create", "create again", "asking", "cancelling", "teardown", "done"}
    /\ result \in {"none", "success", "cancelled", "failure", "interrupted"}
    /\ solr \in BOOLEAN /\ published \in BOOLEAN
    /\ orchestrator \in [cancelled : BOOLEAN, error : BOOLEAN]
    /\ stored \in 0 .. Tasks
    /\ builder \in [status : {"none", "starting", "cluster_started", "cluster_stopping", "cluster_stopped"},
                    children : Seq(Hosts \union {NoChild}), responses : Nat]
    /\ dispatcher \in [pending : SUBSET Hosts, remotes : SUBSET Hosts]
    /\ node \in [Hosts -> [builder : BOOLEAN, nodes : BOOLEAN, up : BOOLEAN, failed : BOOLEAN]]
    /\ coordinator \in [phase : {"none", "preparing", "prepared", "running", "complete"}, left : 0 .. Tasks]
    /\ alive \subseteq Actors /\ died \subseteq Actors
    /\ net \in [Channels -> Seq(Messages)]
    /\ faults \in 0 .. MaxFaults

Init ==
    /\ setup \in {args \in [external : BOOLEAN, provisions : BOOLEAN] :
                    args.provisions => args.external}
    /\ main = "provision" /\ result = "none" /\ solr = FALSE
    /\ orchestrator = [cancelled |-> FALSE, error |-> FALSE]
    /\ stored = 0 /\ published = FALSE
    /\ builder = [status |-> "none", children |-> <<>>, responses |-> 0]
    /\ dispatcher = [pending |-> {}, remotes |-> {}]
    /\ node = [h \in Hosts |-> [builder |-> FALSE, nodes |-> FALSE, up |-> FALSE, failed |-> FALSE]]
    /\ coordinator = [phase |-> "none", left |-> Tasks]
    /\ alive = {} /\ died = {}
    /\ net = [c \in Channels |-> <<>>]
    /\ faults = 0

-----------------------------------------------------------------------------
(* Messages and faults *)

\* What an actor sends: per receiver, the messages for it.
Nothing == [a \in {} |-> <<>>]
To(a, msg) == [x \in {a} |-> <<msg>>]
ToAll(S, msg) == [x \in S |-> <<msg>>]

\* The messages on their way after `me` has sent `out`
Posted(q, me, out) ==
    [c \in Channels |-> IF c[1] = me /\ c[2] \in DOMAIN out THEN q[c] \o out[c[2]] ELSE q[c]]
Popped(src, me) == [net EXCEPT ![<<src, me>>] = Tail(@)]

\* The next message from src to me is a msg.
Pending(src, me, msg) == net[<<src, me>>] # <<>> /\ Head(net[<<src, me>>]) = msg
\* `me` takes it and sends `out`.
Handles(src, me, msg, out) ==
    /\ me \in alive
    /\ Pending(src, me, msg)
    /\ net' = Posted(Popped(src, me), me, out)

Fault(kind) == kind \in FaultKinds /\ faults < MaxFaults /\ faults' = faults + 1
NoFault == UNCHANGED faults

-----------------------------------------------------------------------------
(* The main process *)

\* The pipelines from-sources, from-distribution and docker start Solr, the
\* pipeline benchmark-only does not.
Provision ==
    /\ main = "provision"
    /\ \/ main' = "create" /\ solr' = setup.provisions /\ UNCHANGED result /\ NoFault
       \/ /\ setup.provisions /\ Fault("raise")
          /\ solr' \in BOOLEAN          \* it may have been started before the exception
          /\ main' = "teardown" /\ result' = "failure"
    /\ UNCHANGED <<setup, actorVars, alive, died, net>>

\* run_test: createActor, and ask(Setup)
AskSetup ==
    /\ main \in {"create", "create again"}
    /\ main' = "asking"
    /\ alive' = {Orchestrator}
    /\ net' = Posted(net, Main, To(Orchestrator, "Setup"))
    /\ NoFault
    /\ UNCHANGED <<setup, result, solr, actorVars, died>>

\* createActor times out: the actor system is restarted; the second time the
\* exception is not caught.
CreateTimesOut ==
    /\ Fault("timeout")
    /\ \/ main = "create" /\ main' = "create again" /\ UNCHANGED result
       \/ main = "create again" /\ main' = "teardown" /\ result' = "failure"
    /\ UNCHANGED <<setup, solr, actorVars, alive, died, net>>

\* The answer to ask, and the ActorExitRequest of the finally block
Answered ==
    /\ main \in {"asking", "cancelling"}
    /\ net[<<Orchestrator, Main>>] # <<>>
    /\ net' = Posted(Popped(Orchestrator, Main), Main, To(Orchestrator, "ActorExitRequest"))
    /\ LET answer == Head(net[<<Orchestrator, Main>>])
       IN  result' = CASE main = "cancelling" \/ answer = "BenchmarkCancelled" -> "cancelled"
                       [] main = "asking" /\ answer = "Success" -> "success"
                       [] OTHER -> "failure"
    /\ main' = "teardown"
    /\ NoFault
    /\ UNCHANGED <<setup, solr, actorVars, alive, died>>

\* KeyboardInterrupt: ask(BenchmarkCancelled), and another one while waiting
Interrupt ==
    /\ Fault("interrupt")
    /\ \/ /\ main = "asking" /\ main' = "cancelling"
          /\ net' = Posted(net, Main, To(Orchestrator, "BenchmarkCancelled"))
          /\ UNCHANGED result
       \/ /\ main = "cancelling" /\ main' = "teardown" /\ result' = "interrupted"
          /\ net' = Posted(net, Main, To(Orchestrator, "ActorExitRequest"))
    /\ UNCHANGED <<setup, solr, actorVars, alive, died>>

\* The pipeline's finally block: exceptions are only logged.
Teardown ==
    /\ main = "teardown" /\ main' = "done"
    /\ \/ solr' = FALSE /\ NoFault
       \/ solr /\ Fault("raise") /\ UNCHANGED solr
    /\ UNCHANGED <<setup, result, actorVars, alive, died, net>>

MainStep ==
    \/ Provision \/ AskSetup \/ CreateTimesOut \/ Answered \/ Interrupt \/ Teardown

-----------------------------------------------------------------------------
(* The orchestrator, BenchmarkActor *)

\* A handler raises: no_retry sends BenchmarkFailure to the sender of the
\* message, be it the main process, the builder or the worker coordinator.
OrchestratorRaises(src, msg) ==
    /\ Handles(src, Orchestrator, msg, To(src, "BenchmarkFailure"))
    /\ Fault("raise")
    /\ UNCHANGED <<mainVars, orchestrator, builder, dispatcher, node, coordinator,
                   alive, died>>

\* receiveMsg_Setup
Setup ==
    /\ Handles(Main, Orchestrator, "Setup", To(Builder, "StartEngine"))
    /\ alive' = alive \union {Builder}
    /\ NoFault
    /\ UNCHANGED <<mainVars, actorVars, died>>

\* BenchmarkCoordinator.setup raises: the Solr version is too old, the workload is
\* not a Solr workload or cannot be loaded, there is no such test procedure.
SetupRaises == OrchestratorRaises(Main, "Setup") /\ UNCHANGED <<stored, published>>

\* receiveMsg_EngineStarted
EngineStarted ==
    \/ /\ Handles(Builder, Orchestrator, "EngineStarted", To(Coordinator, "PrepareBenchmark"))
       /\ alive' = alive \union {Coordinator}
       /\ NoFault
       /\ UNCHANGED <<mainVars, actorVars, died>>
    \/ OrchestratorRaises(Builder, "EngineStarted") /\ UNCHANGED <<stored, published>>

\* receiveMsg_PreparationComplete
PreparationComplete ==
    \/ /\ Handles(Coordinator, Orchestrator, "PreparationComplete", To(Coordinator, "StartBenchmark"))
       /\ NoFault
       /\ UNCHANGED <<mainVars, actorVars, alive, died>>
    \/ OrchestratorRaises(Coordinator, "PreparationComplete") /\ UNCHANGED <<stored, published>>

\* Mutant: the metrics are added twice.
TaskFinishedTwice ==
    /\ Handles(Coordinator, Orchestrator, "TaskFinished", To(Builder, "ResetRelativeTime"))
    /\ stored' = stored + 2
    /\ NoFault
    /\ UNCHANGED <<mainVars, orchestrator, published, builder, dispatcher, node, coordinator,
                   alive, died>>

\* receiveMsg_TaskFinished: store the metrics, reset the builder's clocks
TaskFinished ==
    \/ /\ Handles(Coordinator, Orchestrator, "TaskFinished", To(Builder, "ResetRelativeTime"))
       /\ stored' = stored + 1
       /\ NoFault
       /\ UNCHANGED <<mainVars, orchestrator, published, builder, dispatcher, node,
                      coordinator, alive, died>>
    \/ OrchestratorRaises(Coordinator, "TaskFinished") /\ UNCHANGED <<stored, published>>

\* receiveMsg_BenchmarkCancelled
Cancelled(src) ==
    /\ Handles(src, Orchestrator, "BenchmarkCancelled", To(Main, "BenchmarkCancelled"))
    /\ orchestrator' = [orchestrator EXCEPT !.cancelled = TRUE]
    /\ NoFault
    /\ UNCHANGED <<mainVars, stored, published, builder, dispatcher, node, coordinator,
                   alive, died>>

\* Mutant: the error is forwarded, but not remembered.
ForwardFailureForgets(src, msg) ==
    /\ Handles(src, Orchestrator, msg, To(Main, msg))
    /\ NoFault
    /\ UNCHANGED <<mainVars, actorVars, alive, died>>

\* receiveMsg_BenchmarkFailure, receiveMsg_PoisonMessage
ForwardFailure(src, msg) ==
    /\ Handles(src, Orchestrator, msg, To(Main, msg))
    /\ orchestrator' = [orchestrator EXCEPT !.error = TRUE]
    /\ NoFault
    /\ UNCHANGED <<mainVars, stored, published, builder, dispatcher, node, coordinator,
                   alive, died>>

\* on_benchmark_complete: are there results to publish?
Publishes == ~orchestrator.cancelled /\ ~orchestrator.error

\* receiveMsg_BenchmarkComplete: an exception comes before or after the results
\* have been published, and then nobody is told to exit or to stop.
BenchmarkComplete ==
    \/ /\ Handles(Coordinator, Orchestrator, "BenchmarkComplete",
                  [a \in {Coordinator, Builder} |->
                      IF a = Builder THEN <<"StopEngine">> ELSE <<"ActorExitRequest">>])
       /\ stored' = stored + 1
       /\ published' = Publishes
       /\ NoFault
       /\ UNCHANGED <<mainVars, orchestrator, builder, dispatcher, node, coordinator,
                      alive, died>>
    \/ /\ OrchestratorRaises(Coordinator, "BenchmarkComplete")
       /\ \/ stored' \in {stored, stored + 1} /\ published' = FALSE
          \/ stored' = stored + 1 /\ published' = Publishes

\* receiveMsg_EngineStopped
EngineStopped ==
    /\ Handles(Builder, Orchestrator, "EngineStopped", To(Main, "Success"))
    /\ NoFault
    /\ UNCHANGED <<mainVars, actorVars, alive, died>>

\* receiveUnrecognizedMessage of the orchestrator and of the dispatcher: neither
\* cares about a child that has exited.
IgnoreChildExit(src, me) ==
    /\ me \in {Orchestrator, Dispatcher}
    /\ Handles(src, me, "ChildActorExited", Nothing)
    /\ NoFault
    /\ UNCHANGED <<mainVars, actorVars, alive, died>>

OrchestratorStep ==
    \/ Setup \/ SetupRaises \/ EngineStarted \/ PreparationComplete \/ TaskFinished
    \/ BenchmarkComplete \/ EngineStopped
    \/ \E src \in {Main, Coordinator} : Cancelled(src)
    \/ \E src \in {Builder, Coordinator}, msg \in {"BenchmarkFailure", "PoisonMessage"} :
          ForwardFailure(src, msg)
    \/ \E src \in {Builder, Coordinator} : IgnoreChildExit(src, Orchestrator)

-----------------------------------------------------------------------------
(* The builder, BuilderActor *)

builderOnly == <<mainVars, orchestrator, stored, published, dispatcher, node, coordinator, died>>
ActualChildren == {h \in Hosts : \E i \in 1 .. Len(builder.children) : builder.children[i] = h}

\* Mutant: the engine is said to have started as soon as the dispatcher has been told.
StartEngineAtOnce ==
    /\ Handles(Orchestrator, Builder, "StartEngine",
               [a \in {Orchestrator} \union (IF setup.external THEN {} ELSE {Dispatcher}) |->
                   IF a = Orchestrator THEN <<"EngineStarted">> ELSE <<"StartEngine">>])
    /\ builder' = [status |-> IF setup.external THEN "cluster_started" ELSE "starting", responses |-> 0,
                   children |-> IF setup.external THEN <<>>
                                ELSE [i \in 1 .. Cardinality(Hosts) |-> NoChild]]
    /\ alive' = IF setup.external THEN alive ELSE alive \union {Dispatcher}
    /\ NoFault
    /\ UNCHANGED builderOnly

\* receiveMsg_StartEngine
StartEngine ==
    /\ \/ /\ setup.external
          /\ Handles(Orchestrator, Builder, "StartEngine", To(Orchestrator, "EngineStarted"))
          /\ builder' = [builder EXCEPT !.status = "cluster_started"]
          /\ UNCHANGED alive /\ NoFault
       \/ /\ ~setup.external
          /\ Handles(Orchestrator, Builder, "StartEngine", To(Dispatcher, "StartEngine"))
          /\ builder' = [status |-> "starting", responses |-> 0,
                         children |-> [i \in 1 .. Cardinality(Hosts) |-> NoChild]]
          /\ alive' = alive \union {Dispatcher} /\ NoFault
       \/ /\ Handles(Orchestrator, Builder, "StartEngine", To(Orchestrator, "BenchmarkFailure"))
          /\ Fault("raise") /\ UNCHANGED <<builder, alive>>
    /\ UNCHANGED builderOnly

\* The FIFO of children that have answered
WithChild(h) ==
    IF h \in ActualChildren THEN builder.children
    ELSE <<h>> \o SubSeq(builder.children, 1, Len(builder.children) - 1)

\* transition_when_all_children_responded: this is the last response ...
AllResponded(children, expected) ==
    builder.status = expected /\ builder.responses + 1 = Len(children)
\* ... or one of the others; everything else raises, see NoAssertionFails.
SomeResponded(children, expected) ==
    builder.status = expected /\ builder.responses + 1 < Len(children)

\* receiveMsg_NodesStarted
NodesStarted(h) ==
    LET children == WithChild(h)
    IN  /\ \/ /\ AllResponded(children, "starting")
              /\ Handles(h, Builder, "NodesStarted", To(Orchestrator, "EngineStarted"))
              /\ builder' = [status |-> "cluster_started", children |-> children, responses |-> 0]
           \/ /\ SomeResponded(children, "starting")
              /\ Handles(h, Builder, "NodesStarted", Nothing)
              /\ builder' = [builder EXCEPT !.children = children, !.responses = @ + 1]
        /\ NoFault
        /\ UNCHANGED <<builderOnly, alive>>

\* Mutant: does not wait for NodesStopped.
StopEngineAtOnce ==
    /\ Handles(Orchestrator, Builder, "StopEngine",
               [a \in ActualChildren \union {Orchestrator} |->
                   IF a = Orchestrator THEN <<"EngineStopped">> ELSE <<"StopNodes">>])
    /\ builder' = [builder EXCEPT !.status = IF setup.external THEN @ ELSE "cluster_stopping"]
    /\ NoFault
    /\ UNCHANGED <<builderOnly, alive>>

\* receiveMsg_StopEngine
StopEngine ==
    /\ IF setup.external
       THEN /\ Handles(Orchestrator, Builder, "StopEngine", To(Orchestrator, "EngineStopped"))
            /\ UNCHANGED builder
       ELSE /\ Handles(Orchestrator, Builder, "StopEngine", ToAll(ActualChildren, "StopNodes"))
            /\ builder' = [builder EXCEPT !.status = "cluster_stopping"]
    /\ NoFault
    /\ UNCHANGED <<builderOnly, alive>>

\* receiveMsg_NodesStopped, and on_all_nodes_stopped after the last one
NodesStopped(h) ==
    /\ \/ /\ AllResponded(builder.children, "cluster_stopping")
          /\ Handles(h, Builder, "NodesStopped",
                     [a \in ActualChildren \union {Orchestrator} |->
                         IF a = Orchestrator THEN <<"EngineStopped">> ELSE <<"ActorExitRequest">>])
          /\ builder' = [status |-> "cluster_stopped", children |-> <<>>, responses |-> 0]
       \/ /\ SomeResponded(builder.children, "cluster_stopping")
          /\ Handles(h, Builder, "NodesStopped", Nothing)
          /\ builder' = [builder EXCEPT !.responses = @ + 1]
    /\ NoFault
    /\ UNCHANGED <<builderOnly, alive>>

\* receiveMsg_ResetRelativeTime, now or by a wake-up: the clocks of the node
\* builders' metrics stores are not modelled.
ResetRelativeTime ==
    /\ Handles(Orchestrator, Builder, "ResetRelativeTime", Nothing)
    /\ NoFault
    /\ UNCHANGED <<builderOnly, builder, alive>>

\* Mutant: ChildActorExited is only logged.
BuilderLogsExits(src) ==
    /\ \/ \E msg \in {"BenchmarkFailure", "PoisonMessage"} :
             Handles(src, Builder, msg, To(Orchestrator, "BenchmarkFailure"))
       \/ src = Dispatcher /\ Handles(src, Builder, "ChildActorExited", Nothing)
    /\ NoFault
    /\ UNCHANGED <<builderOnly, builder, alive>>

\* receiveMsg_BenchmarkFailure, receiveMsg_PoisonMessage and, unless the cluster
\* is being stopped, receiveMsg_ChildActorExited
BuilderFails(src) ==
    /\ \/ \E msg \in {"BenchmarkFailure", "PoisonMessage"} :
             Handles(src, Builder, msg, To(Orchestrator, "BenchmarkFailure"))
       \/ /\ src = Dispatcher
          /\ IF builder.status \in {"cluster_stopping", "cluster_stopped"}
             THEN Handles(src, Builder, "ChildActorExited", Nothing)
             ELSE Handles(src, Builder, "ChildActorExited", To(Orchestrator, "BenchmarkFailure"))
    /\ NoFault
    /\ UNCHANGED <<builderOnly, builder, alive>>

BuilderStep ==
    \/ StartEngine \/ StopEngine \/ ResetRelativeTime
    \/ \E h \in Hosts : NodesStarted(h) \/ NodesStopped(h)
    \/ \E src \in {Orchestrator, Dispatcher} \union Hosts : BuilderFails(src)

-----------------------------------------------------------------------------
(* The dispatcher *)

dispatcherOnly == <<mainVars, orchestrator, stored, published, builder, node, coordinator>>

\* Mutant: the local node builders are told at once, and stay in pending.
DispatchAtOnce ==
    /\ dispatcher' = [pending |-> Local, remotes |-> Hosts \ Local]
    /\ Handles(Builder, Dispatcher, "StartEngine", ToAll(Local, "StartNodes"))
    /\ alive' = alive \union Local
    /\ NoFault
    /\ UNCHANGED <<dispatcherOnly, died>>

\* receiveMsg_StartEngine: create the local node builders, and wait for the
\* other hosts to join before anybody is told to start
Dispatch ==
    /\ \/ /\ dispatcher' = [pending |-> IF Local = Hosts THEN {} ELSE Local, remotes |-> Hosts \ Local]
          /\ Handles(Builder, Dispatcher, "StartEngine",
                     ToAll(IF Local = Hosts THEN Hosts ELSE {}, "StartNodes"))
          /\ alive' = alive \union Local /\ NoFault
       \/ /\ Handles(Builder, Dispatcher, "StartEngine", To(Builder, "BenchmarkFailure"))
          /\ Fault("raise") /\ UNCHANGED <<dispatcher, alive>>
    /\ UNCHANGED <<dispatcherOnly, died>>

\* receiveMsg_ActorSystemConventionUpdate: a remote host has joined
RemoteJoins(h) ==
    LET last == dispatcher.remotes = {h}
    IN  /\ Dispatcher \in alive
        /\ h \in dispatcher.remotes /\ h \notin died
        /\ dispatcher' = [remotes |-> dispatcher.remotes \ {h},
                          pending |-> IF last THEN {} ELSE dispatcher.pending \union {h}]
        /\ net' = Posted(net, Dispatcher,
                         ToAll(IF last THEN dispatcher.pending \union {h} ELSE {}, "StartNodes"))
        /\ alive' = alive \union {h}
        /\ NoFault
        /\ UNCHANGED <<dispatcherOnly, died>>

\* ... or has left: start_sender, an address, is called like a function, and the
\* exception goes nowhere.
RemoteLeaves(h) ==
    /\ Dispatcher \in alive
    /\ h \in Hosts \ (Local \union died) /\ dispatcher.remotes # {}
    /\ Fault("death")
    /\ alive' = alive \ {h} /\ died' = died \union {h}
    /\ UNCHANGED <<dispatcherOnly, dispatcher, net>>

\* receiveMsg_BenchmarkFailure, receiveMsg_PoisonMessage
DispatcherFails(h) ==
    /\ \E msg \in {"BenchmarkFailure", "PoisonMessage"} :
          Handles(h, Dispatcher, msg, To(Builder, "BenchmarkFailure"))
    /\ NoFault
    /\ UNCHANGED <<dispatcherOnly, dispatcher, alive, died>>

DispatcherStep ==
    \/ Dispatch
    \/ \E h \in Hosts : RemoteJoins(h) \/ DispatcherFails(h) \/ IgnoreChildExit(h, Dispatcher)

-----------------------------------------------------------------------------
(* The node builders, NodeBuilderActor *)

nodeOnly == <<mainVars, orchestrator, stored, published, builder, dispatcher, coordinator, died>>

\* receiveMsg_StartNodes.  The launcher's nodes are known only if all of them
\* have started: after an exception some may be running.
StartNodes(h) ==
    /\ \/ /\ Handles(Dispatcher, h, "StartNodes", To(Builder, "NodesStarted"))
          /\ node' = [node EXCEPT ![h].builder = TRUE, ![h].nodes = TRUE, ![h].up = TRUE]
          /\ NoFault
       \/ /\ Handles(Dispatcher, h, "StartNodes", To(Builder, "BenchmarkFailure"))
          /\ \E created \in BOOLEAN : \E up \in {FALSE, created} :
                node' = [node EXCEPT ![h].builder = created, ![h].up = up, ![h].failed = TRUE]
          /\ Fault("raise")
    /\ UNCHANGED <<nodeOnly, alive>>

\* stop_engine of Builder: the launcher stops the nodes it knows of.
Stopped(n) == [n EXCEPT !.builder = FALSE, !.nodes = FALSE, !.up = n.up /\ ~n.nodes]
\* ... raises before or after the nodes have been stopped
StopRaised(n, up) == [n EXCEPT !.up = up, !.failed = TRUE]

\* StopNodes; NoAssertionFails says that there is a builder.
StopNodes(h) ==
    /\ \/ /\ node[h].builder
          /\ Handles(Builder, h, "StopNodes", To(Builder, "NodesStopped"))
          /\ node' = [node EXCEPT ![h] = Stopped(@)]
          /\ NoFault
       \/ /\ node[h].builder
          /\ Handles(Builder, h, "StopNodes", To(Builder, "BenchmarkFailure"))
          /\ \E up \in {FALSE, node[h].up} : node' = [node EXCEPT ![h] = StopRaised(@, up)]
          /\ Fault("raise")
    /\ UNCHANGED <<nodeOnly, alive>>

\* WakeupMessage: flush_metrics raises, which the node builder tells the sender
\* of the message, itself.
FlushRaises(h) ==
    /\ h \in alive /\ node[h].builder
    /\ Fault("raise")
    /\ net' = Posted(net, h, To(h, "BenchmarkFailure"))
    /\ UNCHANGED <<nodeOnly, node, alive>>

\* receiveMsg_BenchmarkFailure: back to the sender
NodeReturnsFailure(h) ==
    /\ Handles(h, h, "BenchmarkFailure", To(h, "BenchmarkFailure"))
    /\ NoFault
    /\ UNCHANGED <<nodeOnly, node, alive>>

\* ActorExitRequest
NodeExits(src, h) ==
    /\ \/ /\ Handles(src, h, "ActorExitRequest", To(Dispatcher, "ChildActorExited"))
          /\ node' = [node EXCEPT ![h] = IF @.builder THEN Stopped(@) ELSE @]
          /\ NoFault
       \/ /\ node[h].builder
          /\ Handles(src, h, "ActorExitRequest",
                     [a \in {src, Dispatcher} |->
                         (IF a = src THEN <<"BenchmarkFailure">> ELSE <<>>)
                         \o (IF a = Dispatcher THEN <<"ChildActorExited">> ELSE <<>>)])
          /\ \E up \in {FALSE, node[h].up} : node' = [node EXCEPT ![h] = StopRaised(@, up)]
          /\ Fault("raise")
    /\ alive' = alive \ {h}
    /\ UNCHANGED nodeOnly

NodeStep(h) ==
    \/ StartNodes(h) \/ StopNodes(h) \/ FlushRaises(h) \/ NodeReturnsFailure(h)
    \/ \E src \in {Builder, Dispatcher} : NodeExits(src, h)

-----------------------------------------------------------------------------
(* What the orchestrator sees of the worker coordinator *)

coordinatorOnly == <<mainVars, orchestrator, stored, published, builder, dispatcher, node, died>>

\* receiveMsg_PrepareBenchmark, receiveMsg_StartBenchmark
CoordinatorStarts(msg, phase) ==
    /\ \/ /\ Handles(Orchestrator, Coordinator, msg, Nothing)
          /\ coordinator' = [coordinator EXCEPT !.phase = phase] /\ NoFault
       \/ /\ Handles(Orchestrator, Coordinator, msg, To(Orchestrator, "BenchmarkFailure"))
          /\ Fault("raise") /\ UNCHANGED coordinator
    /\ UNCHANGED <<coordinatorOnly, alive>>

\* _after_workload_prepared, on_task_finished, on_benchmark_complete: what
\* happens in between does not concern the orchestrator.
Reports(phase, msg, then) ==
    /\ Coordinator \in alive /\ coordinator.phase = phase
    /\ coordinator' = then
    /\ net' = Posted(net, Coordinator, To(Orchestrator, msg))
    /\ NoFault
    /\ UNCHANGED <<coordinatorOnly, alive>>

WorkloadPrepared ==
    Reports("preparing", "PreparationComplete", [coordinator EXCEPT !.phase = "prepared"])
FinishTask ==
    /\ coordinator.left > 1
    /\ Reports("running", "TaskFinished", [coordinator EXCEPT !.left = @ - 1])
FinishBenchmark ==
    /\ coordinator.left = 1
    /\ Reports("running", "BenchmarkComplete", [phase |-> "complete", left |-> 0])

\* receiveMsg_BenchmarkFailure: the orchestrator's failures come back.
CoordinatorReturnsFailure ==
    /\ Handles(Orchestrator, Coordinator, "BenchmarkFailure", To(Orchestrator, "BenchmarkFailure"))
    /\ NoFault
    /\ UNCHANGED <<coordinatorOnly, coordinator, alive>>

\* A worker has failed (BenchmarkFailure, PoisonMessage, ChildActorExited) or
\* has noticed that the user cancels the benchmark.  The coordinator goes on.
WorkerFails ==
    /\ Coordinator \in alive /\ coordinator.phase # "none"
    /\ \/ /\ Fault("raise")
          /\ net' = Posted(net, Coordinator, To(Orchestrator, "BenchmarkFailure"))
       \/ /\ Fault("cancel")
          /\ net' = Posted(net, Coordinator, To(Orchestrator, "BenchmarkCancelled"))
    /\ UNCHANGED <<coordinatorOnly, coordinator, alive>>

CoordinatorStep ==
    \/ CoordinatorStarts("PrepareBenchmark", "preparing")
    \/ CoordinatorStarts("StartBenchmark", "running")
    \/ WorkloadPrepared \/ FinishTask \/ FinishBenchmark \/ CoordinatorReturnsFailure \/ WorkerFails

-----------------------------------------------------------------------------
(* Exits, deaths and messages that cannot be delivered *)

\* Mutant: the children are left alone.
ExitsAlone(me) ==
    /\ Handles(ParentOf(me), me, "ActorExitRequest", Nothing)
    /\ alive' = alive \ {me}
    /\ NoFault
    /\ UNCHANGED <<mainVars, actorVars, died>>

\* ActorExitRequest, for every actor but the node builders
Exits(me) ==
    /\ Handles(ParentOf(me), me, "ActorExitRequest",
               [a \in ((ChildrenOf(me) \intersect alive) \union {ParentOf(me)}) \ {Main} |->
                   IF a = ParentOf(me) THEN <<"ChildActorExited">> ELSE <<"ActorExitRequest">>])
    /\ alive' = alive \ {me}
    /\ NoFault
    /\ UNCHANGED <<mainVars, actorVars, died>>

\* The process of an actor dies.  Its parent is told.
Dies(a) ==
    /\ a \in alive
    /\ Fault("death")
    /\ alive' = alive \ {a} /\ died' = died \union {a}
    /\ net' = IF a = Orchestrator THEN net
              ELSE Posted(net, a, To(ParentOf(a), "ChildActorExited"))
    /\ UNCHANGED <<mainVars, actorVars>>

\* The first message for a new actor cannot be handled: the sender gets it back.
Poisoned(me) ==
    /\ me \in alive
    /\ \E msg \in {"StartEngine", "PrepareBenchmark", "StartNodes"} : Pending(ParentOf(me), me, msg)
    /\ Fault("poison")
    /\ alive' = alive \ {me}
    /\ net' = Posted(Popped(ParentOf(me), me), me, To(ParentOf(me), "PoisonMessage"))
    /\ UNCHANGED <<mainVars, actorVars, died>>

ActorStep ==
    \/ OrchestratorStep \/ BuilderStep \/ DispatcherStep \/ CoordinatorStep
    \/ \E h \in Hosts : NodeStep(h)
    \/ \E a \in Actors \ Hosts : Exits(a)

Next ==
    \/ MainStep \/ ActorStep
    \/ \E h \in Hosts : RemoteLeaves(h)
    \/ \E a \in Actors : Dies(a)
    \/ \E a \in Actors \ {Orchestrator} : Poisoned(a)

Spec == Init /\ [][Next]_vars

\* Every message is handled in the end, timers fire, the worker coordinator
\* gets on (see WorkloadPreparation and WorkerCoordination), remote hosts that
\* do not leave join; nothing has to go wrong.  There are finitely many such
\* steps, so that none of them can keep another one from happening.
FairSpec == Spec /\ WF_vars(NoFault /\ (MainStep \/ ActorStep))

-----------------------------------------------------------------------------
(* Correctness *)

\* No assertion of transition_when_all_children_responded fails, nobody sends a
\* message to None, and StopNodes finds a builder: when the answers of several
\* node builders, failures and requests to stop meet, the status is the one the
\* handlers expect.
NoAssertionFails ==
    Builder \in alive =>
        /\ \A h \in Hosts :
              /\ Pending(h, Builder, "NodesStarted") =>
                    /\ builder.status = "starting"
                    /\ builder.responses < Len(builder.children)
              /\ Pending(h, Builder, "NodesStopped") =>
                    /\ builder.status = "cluster_stopping"
                    /\ builder.responses < Len(builder.children)
              /\ Pending(Builder, h, "StopNodes") => node[h].builder
        /\ builder.status \in {"cluster_started", "cluster_stopping"} =>
              \A i \in 1 .. Len(builder.children) : builder.children[i] # NoChild

\* The worker coordinator prepares and runs the benchmark only while the nodes
\* of all hosts are up, although they are started by actors that know nothing of
\* each other.
ClusterIsComplete ==
    /\ Orchestrator \in alive /\ ~setup.external /\ died = {}
    /\ Coordinator \in alive /\ coordinator.phase \in {"preparing", "prepared", "running"}
    => \A h \in Hosts : node[h].up

\* When run_test ends with success, the results have been published and the
\* nodes of all hosts have been stopped, whatever failures, cancellations and
\* deaths raced with the end of the benchmark; unless something went wrong on the
\* way, the results are about all elements of the schedule.
SuccessIsComplete ==
    result = "success" =>
        /\ published /\ \A h \in Hosts : ~node[h].up
        /\ faults = 0 => stored = Tasks

\* Once the main process has got an answer, whichever it is, no results are
\* published any more: a benchmark that was reported as failed or cancelled stays so,
\* although the worker coordinator goes on until it is told to exit.
NothingPublishedAfterAnswer ==
    [][(result \in {"success", "cancelled", "failure"}) => published' = published]_vars

\* Deaths nobody reacts to: only the builder's handler of ChildActorExited does
\* something, and its child is the dispatcher.
SilentLoss == died \ {Dispatcher} # {}

\* run_test and the pipeline come to an end, also when a handler raises, a
\* message is poisoned or the dispatcher dies.
RunTestEnds == <>(main = "done" \/ SilentLoss)

\* Unless a process dies, the cluster is stopped in the end, also after a failed
\* or cancelled benchmark; nodes are left only where start_engine or stop_engine
\* raised.
NodesStoppedInTheEnd ==
    <>(died # {}) \/ <>[](\A h \in Hosts : node[h].up => node[h].failed)

(***************************************************************************)
(* BuilderActor counts the answers of its node builders right: its         *)
(* assertions hold, and the benchmark runs only on a complete cluster.     *)
(***************************************************************************)
AnswersAreCounted == TypeOK /\ NoAssertionFails /\ ClusterIsComplete

(***************************************************************************)
(* A test run ends cleanly: run_test returns, and the nodes are stopped    *)
(* whatever went wrong before.                                             *)
(***************************************************************************)
EndsCleanly == RunTestEnds /\ NodesStoppedInTheEnd
=============================================================================
