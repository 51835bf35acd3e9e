------------------------ MODULE OrchestrationProofs ------------------------
(***************************************************************************)
(* Proofs about Orchestration for every set of target hosts, every number  *)
(* of elements of the schedule and every number of faults.                 *)
(*                                                                         *)
(* A test run is handed on from actor to actor: at any time at most one of *)
(* them, or one message, has the run (OneStage).  Within two of the stages *)
(* it is split over the hosts and put together again by counting.          *)
(***************************************************************************)
EXTENDS Orchestration, FiniteSetTheorems, FunctionTheorems, TLAPS

\* Is a message m in the channel q, and not twice?
Has(q, m) == \E i \in 1 .. Len(q) : q[i] = m
Once(q, m) == \A i, j \in 1 .. Len(q) : q[i] = m /\ q[j] = m => i = j

-----------------------------------------------------------------------------
(* The stages of a test run *)

\* The messages that hand the run on, and their ways
Way(msg) ==
    CASE msg = "Setup" -> <<Main, Orchestrator>>
      [] msg \in {"StartEngine", "StopEngine"} -> <<Orchestrator, Builder>>
      [] msg \in {"EngineStarted", "EngineStopped"} -> <<Builder, Orchestrator>>
      [] msg \in {"PrepareBenchmark", "StartBenchmark"} -> <<Orchestrator, Coordinator>>
      [] msg \in {"PreparationComplete", "BenchmarkComplete"} -> <<Coordinator, Orchestrator>>
      [] OTHER -> <<Orchestrator, Main>>
HandOvers == {"Setup", "StartEngine", "EngineStarted", "PrepareBenchmark", "PreparationComplete",
              "StartBenchmark", "BenchmarkComplete", "StopEngine", "EngineStopped", "Success"}

\* The stages in which somebody works on it
Begins == main \in {"provision", "create", "create again"}
Works(s) ==
    \/ s = "begin" /\ Begins
    \/ s \in {"starting", "cluster_stopping"} /\ builder.status = s
    \/ s \in {"preparing", "running"} /\ coordinator.phase = s
    \/ s = "success" /\ result = s

ToPublish == {"begin", "Setup", "StartEngine", "starting", "EngineStarted", "PrepareBenchmark",
              "preparing", "PreparationComplete", "StartBenchmark", "running", "BenchmarkComplete"}
ToEnd == {"StopEngine", "cluster_stopping", "EngineStopped", "Success", "success"}
Stages == ToPublish \union ToEnd

Reached(s) == IF s \in HandOvers THEN Has(net[Way(s)], s) ELSE Works(s)

\* The run is in one place.
OneStage == \A s, t \in Stages : Reached(s) /\ Reached(t) => s = t

\* What hands the run, or a host's share of it, on is sent once.
SentOnce == HandOvers \union {"StartNodes", "NodesStarted", "StopNodes", "NodesStopped"}
NothingTwice == \A c \in Channels, m \in SentOnce : Once(net[c], m)

\* What the builder and the worker coordinator know in each stage
Fits(s) ==
    /\ s \in {"begin", "Setup", "StartEngine"} => builder.status = "none"
    /\ s \in {"EngineStarted", "PrepareBenchmark", "BenchmarkComplete", "StopEngine"} =>
          builder.status = "cluster_started"
    /\ s \in {"EngineStopped", "Success", "success"} => setup.external \/ builder.status = "cluster_stopped"
    /\ s \in {"begin", "Setup", "StartEngine", "starting", "EngineStarted", "PrepareBenchmark"} =>
          coordinator.phase = "none"
    /\ s \in {"PreparationComplete", "StartBenchmark"} => coordinator.phase = "prepared"
    /\ s \in {"BenchmarkComplete"} \union ToEnd => coordinator.phase = "complete"
StartedFirst == coordinator.phase \in {"preparing", "prepared", "running"} => builder.status = "cluster_started"
StageFits == (\A s \in Stages : Reached(s) => Fits(s)) /\ StartedFirst

-----------------------------------------------------------------------------
(* The hosts *)

Asked == Has(net[<<Builder, Dispatcher>>], "StartEngine")
Waits(h) == h \in dispatcher.pending \union dispatcher.remotes
Told(h) == Has(net[<<Dispatcher, h>>], "StartNodes")
Answers(h) == Has(net[<<h, Builder>>], "NodesStarted")
ToldToStop(h) == Has(net[<<Builder, h>>], "StopNodes")
AnswersStop(h) == Has(net[<<h, Builder>>], "NodesStopped")

\* A host is asked, waits, is told, answers and is counted once.
HostStarts(h) ==
    /\ Asked => builder.status = "starting" /\ ~Waits(h) /\ ~Told(h) /\ ~Answers(h) /\ h \notin ActualChildren
    /\ Waits(h) => builder.status = "starting" /\ ~Told(h) /\ ~Answers(h) /\ h \notin ActualChildren
    /\ Told(h) => builder.status = "starting" /\ ~Answers(h) /\ h \notin ActualChildren
    /\ Answers(h) => builder.status = "starting" /\ h \notin ActualChildren

\* ... and so with stopping.
HostStops(h) ==
    /\ ToldToStop(h) => builder.status = "cluster_stopping" /\ ~AnswersStop(h)
    /\ AnswersStop(h) => builder.status = "cluster_stopping" /\ ~node[h].up
    /\ builder.status = "cluster_stopped" => ~node[h].up

\* A host that has started keeps its nodes until it is told to stop, as long as
\* an actor is there to keep it from being told to exit.
Kept(h) == h \in alive \/ Builder \in alive \/ Orchestrator \in alive
HostKeeps(h) ==
    /\ Kept(h) /\ Answers(h) => node[h].builder /\ node[h].nodes /\ node[h].up
    /\ Kept(h) /\ h \in ActualChildren /\ builder.status \in {"starting", "cluster_started"} =>
          node[h].builder /\ node[h].nodes /\ node[h].up
    /\ Kept(h) /\ ToldToStop(h) => node[h].builder /\ node[h].nodes
    /\ setup.external => ~node[h].up

\* The hosts whose nodes are known to have been stopped
StoppedHosts == {h \in Hosts : ~ToldToStop(h) /\ ~AnswersStop(h) /\ ~node[h].up}

\* The builder's list of children and its count of responses
Counts ==
    /\ builder.status = "starting" =>
          /\ ~setup.external
          /\ Len(builder.children) = Cardinality(Hosts)
          /\ builder.responses = Cardinality(ActualChildren)
          /\ \A i \in 1 .. Len(builder.children) : builder.children[i] = NoChild <=> i > builder.responses
    /\ builder.status \in {"cluster_started", "cluster_stopping"} /\ ~setup.external =>
          /\ Len(builder.children) = Cardinality(Hosts)
          /\ ActualChildren = Hosts
          /\ \A i \in 1 .. Len(builder.children) : builder.children[i] # NoChild
    /\ builder.status \in {"none", "cluster_started"} => builder.responses = 0
    /\ builder.status = "cluster_stopping" =>
          ~setup.external /\ builder.responses <= Cardinality(StoppedHosts)
    /\ setup.external => builder.children = <<>>

-----------------------------------------------------------------------------
(* Exits *)

Exit(src, me) == Has(net[<<src, me>>], "ActorExitRequest")

\* Who tells others to exit has exited, or has stopped the cluster.
ExitsInOrder ==
    /\ Exit(Orchestrator, Builder) => Orchestrator \notin alive
    /\ Exit(Builder, Dispatcher) => Orchestrator \notin alive /\ Builder \notin alive
    /\ \A h \in Hosts :
          /\ Exit(Dispatcher, h) => Orchestrator \notin alive /\ Builder \notin alive
          /\ Exit(Builder, h) => builder.status = "cluster_stopped"
    /\ Reached("begin") => alive = {}
    /\ Reached("begin") \/ Reached("Setup") =>
          /\ alive \subseteq {Orchestrator} /\ ~Exit(Orchestrator, Builder) /\ ~Exit(Builder, Dispatcher)
          /\ \A h \in Hosts : ~Exit(Dispatcher, h)

-----------------------------------------------------------------------------
(* The results *)

ToMain == net[<<Orchestrator, Main>>]

\* As soon as the main process can have an answer, nothing is left to publish.
Settled == ~Publishes \/ \A s \in ToPublish : ~Reached(s)

AnswerInv ==
    /\ (\E s \in ToPublish : Reached(s)) => ~published
    /\ ToMain # <<>> \/ result \in {"success", "cancelled", "failure"} => Settled
    /\ Begins => ToMain = <<>> /\ Publishes /\ result = "none"
    /\ main = "asking" => IF ToMain = <<>>
                          THEN Publishes /\ ((\E s \in ToEnd : Reached(s)) => published)
                          ELSE Head(ToMain) = "Success" => published
    /\ result = "success" => published
    /\ main \in {"asking", "cancelling"} => result = "none"

-----------------------------------------------------------------------------
(* The metrics of the elements *)

ToOrchestrator == net[<<Coordinator, Orchestrator>>]
FinishedOnWay(q) == Cardinality({i \in 1 .. Len(q) : q[i] = "TaskFinished"})
Accounted ==
    stored + FinishedOnWay(ToOrchestrator) + coordinator.left
        + (IF Has(ToOrchestrator, "BenchmarkComplete") THEN 1 ELSE 0)

\* The order of the worker coordinator's reports
InOrder(q) ==
    \A i, j \in 1 .. Len(q) : q[i] = "BenchmarkComplete" /\ q[j] = "TaskFinished" => j < i

StoredInv ==
    /\ Accounted <= Tasks
    /\ faults = 0 => Accounted = Tasks
    /\ coordinator.phase = "complete" =>
          /\ coordinator.left = 0
          /\ Has(ToOrchestrator, "TaskFinished") => Has(ToOrchestrator, "BenchmarkComplete")
    /\ InOrder(ToOrchestrator)

-----------------------------------------------------------------------------
OrchestrationInv ==
    /\ TypeOK /\ OneStage /\ NothingTwice /\ StageFits
    /\ \A h \in Hosts : HostStarts(h) /\ HostStops(h) /\ HostKeeps(h)
    /\ Counts /\ ExitsInOrder /\ AnswerInv /\ StoredInv

-----------------------------------------------------------------------------
(* Channels *)

\* The positions of a channel after a message has been sent or handled
LEMMA Positions ==
    ASSUME NEW S, NEW q \in Seq(S)
    PROVE  /\ Len(q) \in Nat
           /\ \A m \in S : /\ q \o <<m>> \in Seq(S) /\ Len(q \o <<m>>) = Len(q) + 1
                          /\ (q \o <<m>>)[Len(q) + 1] = m
                          /\ \A i \in 1 .. Len(q) : (q \o <<m>>)[i] = q[i]
           /\ q # <<>> => /\ Tail(q) \in Seq(S) /\ Len(q) > 0 /\ Len(Tail(q)) = Len(q) - 1 /\ Head(q) = q[1]
                          /\ \A i \in 1 .. Len(q) - 1 : Tail(q)[i] = q[i + 1]
<1>1. ASSUME NEW m \in S
      PROVE  /\ q \o <<m>> \in Seq(S) /\ Len(q \o <<m>>) = Len(q) + 1
             /\ (q \o <<m>>)[Len(q) + 1] = m
             /\ \A i \in 1 .. Len(q) : (q \o <<m>>)[i] = q[i]
  OBVIOUS
<1>2. ASSUME q # <<>>
      PROVE  /\ Tail(q) \in Seq(S) /\ Len(q) > 0 /\ Len(Tail(q)) = Len(q) - 1 /\ Head(q) = q[1]
             /\ \A i \in 1 .. Len(q) - 1 : Tail(q)[i] = q[i + 1]
  BY <1>2
<1> QED
  BY <1>1, <1>2

\* A message that is sent is in its channel, and the others are there as before.
LEMMA Sending ==
    ASSUME NEW S, NEW q \in Seq(S), NEW m \in S
    PROVE  /\ q \o <<m>> \in Seq(S) /\ q \o <<m>> # <<>>
           /\ Head(q \o <<m>>) = IF q = <<>> THEN m ELSE Head(q)
           /\ \A x : Has(q \o <<m>>, x) <=> Has(q, x) \/ x = m
           /\ \A x : Once(q, x) /\ (x = m => ~Has(q, x)) => Once(q \o <<m>>, x)
<1> DEFINE a == q \o <<m>>
<1>1. /\ a \in Seq(S) /\ Len(a) = Len(q) + 1 /\ Len(q) \in Nat /\ a[Len(q) + 1] = m
      /\ \A i \in 1 .. Len(q) : a[i] = q[i]
  BY Positions
<1>2. a # <<>> /\ Head(a) = a[1] /\ (q # <<>> => Head(q) = q[1] /\ Len(q) > 0) /\ (q = <<>> => Len(q) = 0)
  BY <1>1, Positions
<1> HIDE DEF a
<1>3. Head(a) = IF q = <<>> THEN m ELSE Head(q)
  BY <1>1, <1>2
<1>4. ASSUME NEW x PROVE Has(a, x) <=> Has(q, x) \/ x = m
  BY <1>1 DEF Has
<1>5. ASSUME NEW x, Once(q, x), x = m => ~Has(q, x) PROVE Once(a, x)
  BY <1>1, <1>5 DEF Once, Has
<1> QED
  BY <1>1, <1>2, <1>3, <1>4, <1>5 DEF a

\* Handling the first message takes away that one, and nothing else.
LEMMA Handling ==
    ASSUME NEW S, NEW q \in Seq(S), q # <<>>
    PROVE  /\ Tail(q) \in Seq(S) /\ Has(q, Head(q)) /\ Head(q) \in S
           /\ \A x : Has(Tail(q), x) => Has(q, x)
           /\ \A x : Once(q, x) => Once(Tail(q), x)
           /\ Once(q, Head(q)) => ~Has(Tail(q), Head(q))
<1> DEFINE r == Tail(q)
<1>1. /\ r \in Seq(S) /\ Len(q) \in Nat /\ Len(q) > 0 /\ Len(r) = Len(q) - 1 /\ Head(q) = q[1]
      /\ \A i \in 1 .. Len(q) - 1 : r[i] = q[i + 1]
  BY Positions
<1> HIDE DEF r
<1>2. Has(q, Head(q)) /\ Head(q) \in S
  BY <1>1 DEF Has
<1>3. ASSUME NEW x PROVE Has(r, x) => Has(q, x)
  BY <1>1 DEF Has
<1>4. ASSUME NEW x PROVE Once(q, x) => Once(r, x)
  BY <1>1 DEF Once
<1>5. Once(q, Head(q)) => ~Has(r, Head(q))
  BY <1>1 DEF Once, Has
<1> QED
  BY <1>1, <1>2, <1>3, <1>4, <1>5 DEF r

\* What is sent is added to what is there.
LEMMA Joining ==
    ASSUME NEW S, NEW q \in Seq(S), NEW p \in Seq(S), NEW x
    PROVE  /\ q \o p \in Seq(S)
           /\ Has(q \o p, x) <=> Has(q, x) \/ Has(p, x)
           /\ Once(q, x) /\ ~Has(p, x) => Once(q \o p, x)
<1> DEFINE a == q \o p
<1>1. /\ a \in Seq(S) /\ Len(a) = Len(q) + Len(p) /\ Len(q) \in Nat /\ Len(p) \in Nat
      /\ \A i \in 1 .. Len(a) : a[i] = IF i <= Len(q) THEN q[i] ELSE p[i - Len(q)]
  OBVIOUS
<1> HIDE DEF a
<1>2. ASSUME Has(a, x) PROVE Has(q, x) \/ Has(p, x)
  <2>1. PICK i \in 1 .. Len(a) : a[i] = x
    BY <1>2 DEF Has
  <2>2. CASE i <= Len(q)
    BY <1>1, <2>1, <2>2 DEF Has
  <2>3. CASE i > Len(q)
    <3>1. i - Len(q) \in 1 .. Len(p) /\ p[i - Len(q)] = x
      BY <1>1, <2>1, <2>3
    <3> QED
      BY <3>1 DEF Has
  <2> QED
    BY <1>1, <2>2, <2>3
<1>3. ASSUME Has(q, x) PROVE Has(a, x)
  BY <1>1, <1>3 DEF Has
<1>4. ASSUME Has(p, x) PROVE Has(a, x)
  <2>1. PICK i \in 1 .. Len(p) : p[i] = x
    BY <1>4 DEF Has
  <2>2. i + Len(q) \in 1 .. Len(a) /\ a[i + Len(q)] = p[(i + Len(q)) - Len(q)] /\ (i + Len(q)) - Len(q) = i
    BY <1>1, <2>1
  <2> QED
    BY <2>1, <2>2 DEF Has
<1>5. ASSUME Once(q, x), ~Has(p, x) PROVE Once(a, x)
  <2>1. \A i \in 1 .. Len(a) : a[i] = x => i \in 1 .. Len(q) /\ q[i] = x
    <3>1. ASSUME NEW i \in 1 .. Len(a), a[i] = x PROVE i <= Len(q)
      <4>1. CASE i > Len(q)
        <5>1. i - Len(q) \in 1 .. Len(p) /\ p[i - Len(q)] = x
          BY <1>1, <3>1, <4>1
        <5> QED
          BY <5>1, <1>5 DEF Has
      <4> QED
        BY <1>1, <4>1
    <3> QED
      BY <1>1, <3>1
  <2> QED
    BY <1>5, <2>1 DEF Once
<1> QED
  BY <1>1, <1>2, <1>3, <1>4, <1>5 DEF a

\* The names of the actors differ, and who talks to whom has a channel.
LEMMA Ways ==
    /\ \A h \in Hosts : h \notin {Main, Orchestrator, Builder, Dispatcher, Coordinator} /\ h # NoChild
    /\ {<<Main, Orchestrator>>, <<Orchestrator, Main>>, <<Orchestrator, Builder>>, <<Builder, Orchestrator>>,
         <<Orchestrator, Coordinator>>, <<Coordinator, Orchestrator>>, <<Builder, Dispatcher>>,
         <<Dispatcher, Builder>>} \subseteq Channels
    /\ \A h \in Hosts : {<<Builder, h>>, <<h, Builder>>, <<Dispatcher, h>>, <<h, Dispatcher>>, <<h, h>>}
                            \subseteq Channels
    /\ \A s \in HandOvers : Way(s) \in Channels /\ s \in Messages
<1>1. \A h \in Hosts : h \notin {Main, Orchestrator, Builder, Dispatcher, Coordinator} /\ h # NoChild
  BY HostsAssumption DEF Main, Orchestrator, Builder, Dispatcher, Coordinator
<1>2. {<<Main, Orchestrator>>, <<Orchestrator, Main>>, <<Orchestrator, Builder>>, <<Builder, Orchestrator>>,
       <<Orchestrator, Coordinator>>, <<Coordinator, Orchestrator>>, <<Builder, Dispatcher>>,
       <<Dispatcher, Builder>>} \subseteq Channels
  <2>1. ASSUME NEW a, NEW b, <<a, b>> \in Links PROVE <<a, b>> \in Channels /\ <<b, a>> \in Channels
    BY <2>1 DEF Channels
  <2>2. /\ <<Main, Orchestrator>> \in Links /\ <<Orchestrator, Builder>> \in Links
        /\ <<Orchestrator, Coordinator>> \in Links /\ <<Builder, Dispatcher>> \in Links
    BY DEF Links
  <2> QED
    BY <2>1, <2>2
<1>3. ASSUME NEW h \in Hosts
      PROVE  {<<Builder, h>>, <<h, Builder>>, <<Dispatcher, h>>, <<h, Dispatcher>>, <<h, h>>} \subseteq Channels
  BY DEF Channels, Links
<1>4. \A s \in HandOvers : Way(s) \in Channels /\ s \in Messages
  BY <1>2 DEF HandOvers, Way, Messages
<1> QED
  BY <1>1, <1>2, <1>3, <1>4

-----------------------------------------------------------------------------
(* What a step does to the messages *)

NetOK(q) == q \in [Channels -> Seq(Messages)]

\* The messages `gone' have been handled and no others than those of `new' sent.
Mail(gone, new) ==
    /\ NetOK(net')
    /\ \A c \in Channels, m \in Messages :
          /\ Has(net'[c], m) => Has(net[c], m) \/ <<c, m>> \in new
          /\ m \in SentOnce /\ Once(net[c], m) /\ (<<c, m>> \in new => ~Has(net[c], m)) => Once(net'[c], m)
          /\ <<c, m>> \in gone =>
                Has(net[c], m) /\ (Once(net[c], m) /\ <<c, m>> \notin new => ~Has(net'[c], m))

\* A channel has two ends.
LEMMA TwoEnds == \A c \in Channels : c = <<c[1], c[2]>>
  BY DEF Channels, Links

\* The channels after an actor has sent something
LEMMA PostedTo ==
    ASSUME NEW q, NetOK(q), NEW me, NEW out, \A a \in DOMAIN out : out[a] \in Seq(Messages)
    PROVE  /\ NetOK(Posted(q, me, out))
           /\ \A c \in Channels :
                 /\ c[1] = me /\ c[2] \in DOMAIN out => Posted(q, me, out)[c] = q[c] \o out[c[2]]
                 /\ ~(c[1] = me /\ c[2] \in DOMAIN out) => Posted(q, me, out)[c] = q[c]
<1> DEFINE r == Posted(q, me, out)
<1>1. \A c \in Channels : /\ c[1] = me /\ c[2] \in DOMAIN out => r[c] = q[c] \o out[c[2]]
                          /\ ~(c[1] = me /\ c[2] \in DOMAIN out) => r[c] = q[c]
  BY DEF Posted
<1>2. \A c \in Channels : q[c] \in Seq(Messages)
  BY DEF NetOK
<1>3. ASSUME NEW c \in Channels PROVE r[c] \in Seq(Messages)
  <2>1. CASE c[1] = me /\ c[2] \in DOMAIN out
    <3>1. q[c] \in Seq(Messages) /\ out[c[2]] \in Seq(Messages) /\ r[c] = q[c] \o out[c[2]]
      BY <2>1, <1>1, <1>2
    <3> HIDE DEF r
    <3> QED
      BY <3>1
  <2>2. CASE ~(c[1] = me /\ c[2] \in DOMAIN out)
    BY <2>2, <1>1, <1>2
  <2> QED
    BY <2>1, <2>2
<1>4. r = [c \in Channels |-> r[c]]
  BY DEF Posted
<1> QED
  BY <1>1, <1>3, <1>4 DEF NetOK

\* The channels after an actor has taken a message
LEMMA PoppedFrom ==
    ASSUME NetOK(net), NEW src, NEW me, <<src, me>> \in Channels, net[<<src, me>>] # <<>>
    PROVE  /\ NetOK(Popped(src, me))
           /\ Popped(src, me)[<<src, me>>] = Tail(net[<<src, me>>])
           /\ \A c \in Channels : c # <<src, me>> => Popped(src, me)[c] = net[c]
<1>1. net[<<src, me>>] \in Seq(Messages)
  BY DEF NetOK
<1>2. Tail(net[<<src, me>>]) \in Seq(Messages)
  BY <1>1, Handling
<1> QED
  BY <1>2 DEF Popped, NetOK

\* Sending and nothing else: at most one message for each receiver
LEMMA MailPosted ==
    ASSUME NetOK(net), NEW me, NEW out, \A a \in DOMAIN out : \E m \in Messages : out[a] = <<m>>,
           net' = Posted(net, me, out),
           NEW new, \A c \in Channels, m \in Messages :
                       c[1] = me /\ c[2] \in DOMAIN out /\ out[c[2]] = <<m>> => <<c, m>> \in new
    PROVE  Mail({}, new)
<1>1. ASSUME NEW a \in DOMAIN out PROVE out[a] \in Seq(Messages)
  <2>1. PICK m \in Messages : out[a] = <<m>>
    OBVIOUS
  <2> QED
    BY <2>1
<1>2. NetOK(net') /\ \A c \in Channels :
                 /\ c[1] = me /\ c[2] \in DOMAIN out => net'[c] = net[c] \o out[c[2]]
                 /\ ~(c[1] = me /\ c[2] \in DOMAIN out) => net'[c] = net[c]
  <2> DEFINE r == Posted(net, me, out)
  <2>1. NetOK(r) /\ \A c \in Channels :
                 /\ c[1] = me /\ c[2] \in DOMAIN out => r[c] = net[c] \o out[c[2]]
                 /\ ~(c[1] = me /\ c[2] \in DOMAIN out) => r[c] = net[c]
    <3>1. \A a \in DOMAIN out : out[a] \in Seq(Messages)
      BY <1>1
    <3>2. NetOK(r)
      BY <3>1, PostedTo
    <3>3. ASSUME NEW c \in Channels
          PROVE  /\ c[1] = me /\ c[2] \in DOMAIN out => r[c] = net[c] \o out[c[2]]
                 /\ ~(c[1] = me /\ c[2] \in DOMAIN out) => r[c] = net[c]
      BY DEF Posted
    <3> QED
      BY <3>2, <3>3
  <2>2. net' = r
    OBVIOUS
  <2> HIDE DEF r
  <2> QED
    BY <2>1, <2>2
<1>3. ASSUME NEW c \in Channels, NEW m \in Messages
      PROVE  /\ Has(net'[c], m) => Has(net[c], m) \/ <<c, m>> \in new
             /\ Once(net[c], m) /\ (<<c, m>> \in new => ~Has(net[c], m)) => Once(net'[c], m)
  <2>1. CASE c[1] = me /\ c[2] \in DOMAIN out
    <3>1. PICK x \in Messages : out[c[2]] = <<x>>
      BY <2>1
    <3>2. net'[c] = net[c] \o <<x>> /\ net[c] \in Seq(Messages)
      BY <1>2, <2>1, <3>1 DEF NetOK
    <3>3. x = m => <<c, m>> \in new
      BY <2>1, <3>1
    <3> QED
      BY <3>2, <3>3, Sending
  <2>2. CASE ~(c[1] = me /\ c[2] \in DOMAIN out)
    BY <1>2, <2>2
  <2> QED
    BY <2>1, <2>2
<1> QED
  BY <1>2, <1>3 DEF Mail

\* Handling a message: at most one message for each receiver
LEMMA MailHandled ==
    ASSUME NetOK(net), NEW src, NEW me, <<src, me>> \in Channels, NEW msg, Pending(src, me, msg),
           NEW out, \A a \in DOMAIN out : \E m \in Messages : out[a] = <<m>>,
           net' = Posted(Popped(src, me), me, out),
           NEW new, \A c \in Channels, m \in Messages :
                       c[1] = me /\ c[2] \in DOMAIN out /\ out[c[2]] = <<m>> => <<c, m>> \in new
    PROVE  Mail({<<<<src, me>>, msg>>}, new)
<1> DEFINE q == Popped(src, me)
<1>1. ASSUME NEW a \in DOMAIN out PROVE out[a] \in Seq(Messages)
  <2>1. PICK m \in Messages : out[a] = <<m>>
    OBVIOUS
  <2> QED
    BY <2>1
<1>2. net[<<src, me>>] # <<>> /\ Head(net[<<src, me>>]) = msg
  BY DEF Pending
<1>3. /\ NetOK(q) /\ q[<<src, me>>] = Tail(net[<<src, me>>])
      /\ \A c \in Channels : c # <<src, me>> => q[c] = net[c]
  BY <1>2, PoppedFrom
<1>4. /\ Has(net[<<src, me>>], msg) /\ Once(net[<<src, me>>], msg) => ~Has(q[<<src, me>>], msg)
      /\ \A x : Has(q[<<src, me>>], x) => Has(net[<<src, me>>], x)
      /\ \A x : Once(net[<<src, me>>], x) => Once(q[<<src, me>>], x)
      /\ Has(net[<<src, me>>], msg)
  <2>1. net[<<src, me>>] \in Seq(Messages)
    BY DEF NetOK
  <2> QED
    BY <2>1, <1>2, <1>3, Handling
<1>5. \A c \in Channels, x \in Messages : /\ Has(q[c], x) => Has(net[c], x)
                                          /\ Once(net[c], x) => Once(q[c], x)
  BY <1>3, <1>4
<1> HIDE DEF q
<1>6. NetOK(net') /\ \A c \in Channels :
                 /\ c[1] = me /\ c[2] \in DOMAIN out => net'[c] = q[c] \o out[c[2]]
                 /\ ~(c[1] = me /\ c[2] \in DOMAIN out) => net'[c] = q[c]
  <2> DEFINE r == Posted(q, me, out)
  <2>1. NetOK(r) /\ \A c \in Channels :
                 /\ c[1] = me /\ c[2] \in DOMAIN out => r[c] = q[c] \o out[c[2]]
                 /\ ~(c[1] = me /\ c[2] \in DOMAIN out) => r[c] = q[c]
    <3>1. \A a \in DOMAIN out : out[a] \in Seq(Messages)
      BY <1>1
    <3>2. NetOK(r)
      BY <1>3, <3>1, PostedTo
    <3>3. ASSUME NEW c \in Channels
          PROVE  /\ c[1] = me /\ c[2] \in DOMAIN out => r[c] = q[c] \o out[c[2]]
                 /\ ~(c[1] = me /\ c[2] \in DOMAIN out) => r[c] = q[c]
      BY DEF Posted
    <3> QED
      BY <3>2, <3>3
  <2>2. net' = r
    BY DEF q
  <2> HIDE DEF r
  <2> QED
    BY <2>1, <2>2
<1>7. ASSUME NEW c \in Channels, NEW m \in Messages
      PROVE  /\ Has(net'[c], m) => Has(q[c], m) \/ <<c, m>> \in new
             /\ Once(q[c], m) /\ (<<c, m>> \in new => ~Has(q[c], m)) => Once(net'[c], m)
  <2>1. CASE c[1] = me /\ c[2] \in DOMAIN out
    <3>1. PICK x \in Messages : out[c[2]] = <<x>>
      BY <2>1
    <3>2. net'[c] = q[c] \o <<x>> /\ q[c] \in Seq(Messages)
      BY <1>3, <1>6, <2>1, <3>1 DEF NetOK
    <3>3. x = m => <<c, m>> \in new
      BY <2>1, <3>1
    <3> QED
      BY <3>2, <3>3, Sending
  <2>2. CASE ~(c[1] = me /\ c[2] \in DOMAIN out)
    BY <1>6, <2>2
  <2> QED
    BY <2>1, <2>2
<1>8. ASSUME NEW c \in Channels, NEW m \in Messages
      PROVE  /\ Has(net'[c], m) => Has(net[c], m) \/ <<c, m>> \in new
             /\ Once(net[c], m) /\ (<<c, m>> \in new => ~Has(net[c], m)) => Once(net'[c], m)
             /\ c = <<src, me>> /\ m = msg =>
                   Has(net[c], m) /\ (Once(net[c], m) /\ <<c, m>> \notin new => ~Has(net'[c], m))
  BY <1>4, <1>5, <1>7
<1> QED
  BY <1>6, <1>8 DEF Mail

\* The channels that neither hold the handled message nor belong to its receiver stay as they are.
LEMMA Elsewhere ==
    ASSUME NetOK(net), NEW src, NEW me, <<src, me>> \in Channels, NEW msg, NEW out, Handles(src, me, msg, out),
           NEW c \in Channels, c # <<src, me>>, c[1] # me \/ c[2] \notin DOMAIN out
    PROVE  net'[c] = net[c]
<1>1. net[<<src, me>>] # <<>> /\ net' = Posted(Popped(src, me), me, out)
  BY DEF Handles, Pending
<1>2. net'[c] = Popped(src, me)[c]
  BY <1>1 DEF Posted
<1> QED
  BY <1>1, <1>2, PoppedFrom

\* A channel with one message more
With(q, m) == q \o <<m>>

\* Handling a message and sending one: the two channels, and the others
LEMMA TakesAndSends ==
    ASSUME NetOK(net), NEW src, NEW me, <<src, me>> \in Channels, NEW msg,
           NEW a, NEW m, Handles(src, me, msg, To(a, m)), m \in Messages
    PROVE  /\ net[<<src, me>>] # <<>> /\ Head(net[<<src, me>>]) = msg
           /\ \A c \in Channels :
                 /\ c \notin {<<src, me>>, <<me, a>>} => net'[c] = net[c]
                 /\ c = <<src, me>> /\ c # <<me, a>> => net'[c] = Tail(net[c])
                 /\ c = <<me, a>> /\ c # <<src, me>> => net'[c] = With(net[c], m)
<1> DEFINE out == To(a, m)
<1>1. DOMAIN out = {a} /\ out[a] = <<m>>
  BY DEF To
<1> HIDE DEF out
<1>2. Pending(src, me, msg) /\ net' = Posted(Popped(src, me), me, out)
  BY DEF Handles, out
<1>3. net[<<src, me>>] # <<>> /\ Head(net[<<src, me>>]) = msg
  BY <1>2 DEF Pending
<1>7. /\ Popped(src, me)[<<src, me>>] = Tail(net[<<src, me>>])
      /\ \A c \in Channels : c # <<src, me>> => Popped(src, me)[c] = net[c]
  BY <1>3, PoppedFrom
<1>8. ASSUME NEW c \in Channels, c # <<me, a>> PROVE net'[c] = Popped(src, me)[c]
  <2>1. ~(c[1] = me /\ c[2] \in DOMAIN out)
    BY <1>1, <1>8, TwoEnds
  <2> QED
    BY <1>2, <2>1 DEF Posted
<1>9. <<me, a>> \in Channels => net'[<<me, a>>] = With(Popped(src, me)[<<me, a>>], m)
  BY <1>1, <1>2 DEF Posted, With
<1> QED
  BY <1>3, <1>7, <1>8, <1>9

\* ... and the mail
LEMMA HandlesTo ==
    ASSUME NetOK(net), NEW src, NEW me, <<src, me>> \in Channels, NEW msg,
           NEW a, NEW m \in Messages, Handles(src, me, msg, To(a, m))
    PROVE  /\ me \in alive /\ Mail({<<<<src, me>>, msg>>}, {<<<<me, a>>, m>>})
           /\ net[<<src, me>>] # <<>> /\ Head(net[<<src, me>>]) = msg
           /\ \A c \in Channels : c \notin {<<src, me>>, <<me, a>>} => net'[c] = net[c]
<1> DEFINE out == To(a, m)
<1>1. DOMAIN out = {a} /\ out[a] = <<m>>
  BY DEF To
<1> HIDE DEF out
<1>2. me \in alive /\ Pending(src, me, msg) /\ net' = Posted(Popped(src, me), me, out)
  BY DEF Handles, out
<1>3. \A c \in Channels, x \in Messages :
         c[1] = me /\ c[2] \in DOMAIN out /\ out[c[2]] = <<x>> => <<c, x>> \in {<<<<me, a>>, m>>}
  BY <1>1, TwoEnds
<1>4. \A x \in DOMAIN out : \E y \in Messages : out[x] = <<y>>
  BY <1>1
<1>5. Mail({<<<<src, me>>, msg>>}, {<<<<me, a>>, m>>})
  BY <1>2, <1>3, <1>4, MailHandled
<1>6. /\ net[<<src, me>>] # <<>> /\ Head(net[<<src, me>>]) = msg
      /\ \A c \in Channels : c \notin {<<src, me>>, <<me, a>>} => net'[c] = net[c]
  BY TakesAndSends
<1> QED
  BY <1>2, <1>5, <1>6

\* Handling a message and sending none
LEMMA HandlesNothing ==
    ASSUME NetOK(net), NEW src, NEW me, <<src, me>> \in Channels, NEW msg, Handles(src, me, msg, Nothing)
    PROVE  /\ me \in alive /\ Mail({<<<<src, me>>, msg>>}, {})
           /\ net[<<src, me>>] # <<>> /\ Head(net[<<src, me>>]) = msg
           /\ \A c \in Channels : c # <<src, me>> => net'[c] = net[c]
           /\ net'[<<src, me>>] = Tail(net[<<src, me>>])
<1> DEFINE out == Nothing
<1>1. DOMAIN out = {}
  BY DEF Nothing
<1> HIDE DEF out
<1> DEFINE none == {}
<1> HIDE DEF none
<1>2. me \in alive /\ Pending(src, me, msg) /\ net' = Posted(Popped(src, me), me, out)
  BY DEF Handles, out
<1>3. net[<<src, me>>] # <<>> /\ Head(net[<<src, me>>]) = msg
  BY <1>2 DEF Pending
<1>4. \A c \in Channels, x \in Messages :
         c[1] = me /\ c[2] \in DOMAIN out /\ out[c[2]] = <<x>> => <<c, x>> \in none
  BY <1>1
<1>5. \A x \in DOMAIN out : \E y \in Messages : out[x] = <<y>>
  BY <1>1
<1>6. Mail({<<<<src, me>>, msg>>}, none)
  BY <1>2, <1>4, <1>5, MailHandled
<1>7. /\ Popped(src, me)[<<src, me>>] = Tail(net[<<src, me>>])
      /\ \A c \in Channels : c # <<src, me>> => Popped(src, me)[c] = net[c]
  BY <1>3, PoppedFrom
<1>8. ASSUME NEW c \in Channels PROVE net'[c] = Popped(src, me)[c]
  BY <1>1, <1>2 DEF Posted
<1> QED
  BY <1>2, <1>3, <1>6, <1>7, <1>8 DEF none

\* Handling a message and sending the same to several
LEMMA HandlesAll ==
    ASSUME NetOK(net), NEW src, NEW me, <<src, me>> \in Channels, NEW msg,
           NEW S, NEW m \in Messages, Handles(src, me, msg, ToAll(S, m))
    PROVE  /\ me \in alive
           /\ \A new : (\A a \in S : <<<<me, a>>, m>> \in new) => Mail({<<<<src, me>>, msg>>}, new)
<1> DEFINE out == ToAll(S, m)
<1>1. DOMAIN out = S /\ \A a \in S : out[a] = <<m>>
  BY DEF ToAll
<1> HIDE DEF out
<1>2. me \in alive /\ Pending(src, me, msg) /\ net' = Posted(Popped(src, me), me, out)
  BY DEF Handles, out
<1>3. \A x \in DOMAIN out : \E y \in Messages : out[x] = <<y>>
  BY <1>1
<1>4. ASSUME NEW new, \A a \in S : <<<<me, a>>, m>> \in new PROVE Mail({<<<<src, me>>, msg>>}, new)
  <2>1. \A c \in Channels, x \in Messages :
           c[1] = me /\ c[2] \in DOMAIN out /\ out[c[2]] = <<x>> => <<c, x>> \in new
    BY <1>1, <1>4, TwoEnds
  <2> QED
    BY <1>2, <1>3, <2>1, MailHandled
<1> QED
  BY <1>2, <1>4

\* Sending a message without a message to handle
LEMMA SendsTo ==
    ASSUME NetOK(net), NEW me, NEW a, NEW m \in Messages, net' = Posted(net, me, To(a, m))
    PROVE  /\ Mail({}, {<<<<me, a>>, m>>})
           /\ \A c \in Channels : c # <<me, a>> => net'[c] = net[c]
           /\ <<me, a>> \in Channels => net'[<<me, a>>] = net[<<me, a>>] \o <<m>>
<1> DEFINE out == To(a, m)
<1>1. DOMAIN out = {a} /\ out[a] = <<m>>
  BY DEF To
<1> HIDE DEF out
<1>2. net' = Posted(net, me, out)
  BY DEF out
<1>4. \A c \in Channels, x \in Messages :
         c[1] = me /\ c[2] \in DOMAIN out /\ out[c[2]] = <<x>> => <<c, x>> \in {<<<<me, a>>, m>>}
  BY <1>1, TwoEnds
<1>5. \A x \in DOMAIN out : \E y \in Messages : out[x] = <<y>>
  BY <1>1
<1>6. Mail({}, {<<<<me, a>>, m>>})
  BY <1>2, <1>4, <1>5, MailPosted
<1>8. ASSUME NEW c \in Channels, c # <<me, a>> PROVE net'[c] = net[c]
  <2>1. ~(c[1] = me /\ c[2] \in DOMAIN out)
    BY <1>1, <1>8, TwoEnds
  <2> QED
    BY <1>2, <2>1 DEF Posted
<1>9. <<me, a>> \in Channels => net'[<<me, a>>] = net[<<me, a>>] \o <<m>>
  BY <1>1, <1>2 DEF Posted
<1> QED
  BY <1>6, <1>8, <1>9

\* Nothing handled, nothing sent
LEMMA NoMail == ASSUME NetOK(net), UNCHANGED net PROVE Mail({}, {})
  BY DEF Mail

-----------------------------------------------------------------------------
(* Steps of the run *)

StageInv == OneStage /\ NothingTwice /\ StageFits

\* No stage is reached by a step, or one is left for the next.
Stays == \A s \in Stages : Reached(s)' => Reached(s)
Moves(old, new) == Reached(old) /\ \A s \in Stages : Reached(s)' => s = new

\* What the messages of a step say about the stages
LEMMA ReachedByMail ==
    ASSUME NEW gone, NEW new, Mail(gone, new)
    PROVE  /\ \A s \in HandOvers : Reached(s)' => Reached(s) \/ <<Way(s), s>> \in new
           /\ \A s \in HandOvers : <<Way(s), s>> \in gone =>
                 Reached(s) /\ (NothingTwice /\ <<Way(s), s>> \notin new => ~Reached(s)')
<1>1. ASSUME NEW s \in HandOvers
      PROVE  /\ Has(net'[Way(s)], s) => Has(net[Way(s)], s) \/ <<Way(s), s>> \in new
             /\ <<Way(s), s>> \in gone =>
                  Has(net[Way(s)], s) /\ (Once(net[Way(s)], s) /\ <<Way(s), s>> \notin new => ~Has(net'[Way(s)], s))
             /\ NothingTwice => Once(net[Way(s)], s)
  BY Ways DEF Mail, NothingTwice, SentOnce
<1> QED
  BY <1>1 DEF Reached, Way

\* Messages that are sent once stay so.
LEMMA OnceKept ==
    ASSUME NEW gone, NEW new, Mail(gone, new), NothingTwice,
           \A c \in Channels, m \in SentOnce : <<c, m>> \in new => ~Has(net[c], m)
    PROVE  NothingTwice'
<1>1. SentOnce \subseteq Messages
  BY DEF SentOnce, HandOvers, Messages
<1> QED
  BY <1>1 DEF Mail, NothingTwice

\* A step that hands nothing on
LEMMA StageStays ==
    ASSUME StageInv, NEW gone, NEW new, Mail(gone, new),
           \A c \in Channels, m \in SentOnce : <<c, m>> \in new => ~Has(net[c], m),
           \A s \in HandOvers : <<Way(s), s>> \notin new,
           builder'.status = builder.status, coordinator'.phase = coordinator.phase, setup' = setup,
           Begins' => Begins, result' = "success" => result = "success"
    PROVE  StageInv' /\ Stays
<1>1. \A s \in Stages : Works(s)' => Works(s)
  BY DEF Works
<1>2. \A s \in HandOvers : Reached(s)' => Reached(s)
  BY ReachedByMail
<1>3. ASSUME NEW s \in Stages, s \notin HandOvers PROVE Reached(s)' => Reached(s)
  BY <1>1, <1>3 DEF Reached
<1>4. Stays
  BY <1>2, <1>3 DEF Stays
<1>5. OneStage'
  BY <1>4 DEF Stays, OneStage, StageInv
<1>6. NothingTwice'
  BY OnceKept DEF StageInv
<1>7. StageFits'
  <2>1. ASSUME NEW s \in Stages, Fits(s) PROVE Fits(s)'
    BY <2>1 DEF Fits
  <2> QED
    BY <1>4, <2>1 DEF Stays, StageFits, StartedFirst, StageInv
<1> QED
  BY <1>4, <1>5, <1>6, <1>7 DEF StageInv

\* A step that hands the run on
LEMMA StageMoves ==
    ASSUME OneStage, NEW old \in Stages, NEW new \in Stages, Reached(old), ~Reached(old)',
           \A s \in Stages : Reached(s)' => Reached(s) \/ s = new
    PROVE  OneStage' /\ Moves(old, new)
<1>1. \A s \in Stages : Reached(s)' => s = new
  BY DEF OneStage
<1> QED
  BY <1>1 DEF OneStage, Moves

\* A step that hands the run on to the next stage keeps it in one place.
LEMMA HandsOn ==
    ASSUME StageInv, NEW gone, NEW new, Mail(gone, new), NEW old \in Stages, NEW next \in Stages, old # next,
           IF old \in HandOvers THEN <<Way(old), old>> \in gone \ new ELSE Works(old) /\ ~Works(old)',
           \A s \in HandOvers : <<Way(s), s>> \in new => s = next,
           \A s \in Stages \ HandOvers : Works(s)' => Works(s) \/ s = next,
           \A c \in Channels, m \in SentOnce :
              <<c, m>> \in new => (next \in HandOvers /\ c = Way(next) /\ m = next) \/ ~Has(net[c], m),
           Fits(next)', StartedFirst'
    PROVE  StageInv' /\ Moves(old, next)
<1>1. Reached(old) /\ ~Reached(old)'
  <2>1. CASE old \in HandOvers
    BY <2>1, ReachedByMail DEF StageInv
  <2>2. CASE old \notin HandOvers
    BY <2>2 DEF Reached
  <2> QED
    BY <2>1, <2>2
<1>2. ASSUME NEW s \in Stages PROVE Reached(s)' => Reached(s) \/ s = next
  <2>1. CASE s \in HandOvers
    BY <2>1, ReachedByMail
  <2>2. CASE s \notin HandOvers
    BY <2>2 DEF Reached
  <2> QED
    BY <2>1, <2>2
<1>3. OneStage' /\ Moves(old, next)
  BY <1>1, <1>2, StageMoves DEF StageInv
<1>4. ~Reached(next)
  BY <1>1 DEF OneStage, StageInv
<1>5. NothingTwice'
  <2>1. \A c \in Channels, m \in SentOnce : <<c, m>> \in new => ~Has(net[c], m)
    BY <1>4 DEF Reached
  <2> QED
    BY <2>1, OnceKept DEF StageInv
<1>6. \A s \in Stages : Reached(s)' => s = next
  BY <1>3 DEF Moves
<1>7. StageFits'
  BY <1>6 DEF StageFits
<1> QED
  BY <1>3, <1>5, <1>7 DEF StageInv

-----------------------------------------------------------------------------
(* Steps that hand nothing on *)

HostInv == (\A h \in Hosts : HostStarts(h) /\ HostStops(h) /\ HostKeeps(h)) /\ Counts

Idle == {"BenchmarkFailure", "PoisonMessage", "BenchmarkCancelled", "ResetRelativeTime", "ChildActorExited",
         "TaskFinished"}
IdleMail == (Channels \X Idle) \union {<<<<Main, Orchestrator>>, "ActorExitRequest">>}

Calm ==
    /\ Mail({}, IdleMail)
    /\ UNCHANGED <<setup, builder, dispatcher, node>> /\ coordinator'.phase = coordinator.phase
    /\ alive' \subseteq alive
    /\ Begins' => Begins
    /\ result' = "success" => result = "success"

\* Mail that hands nothing on is idle.
LEMMA IdleOnly ==
    ASSUME NEW gone, NEW new, Mail(gone, new),
           \A c \in Channels, m \in Messages : <<c, m>> \in new => m \in Idle \/ <<c, m>> \in IdleMail
    PROVE  Mail({}, IdleMail)
<1>1. ASSUME NEW c \in Channels, NEW m \in Messages
      PROVE  /\ Has(net'[c], m) => Has(net[c], m) \/ <<c, m>> \in IdleMail
             /\ m \in SentOnce /\ Once(net[c], m) => Once(net'[c], m)
  <2>1. <<c, m>> \in new => <<c, m>> \in IdleMail /\ m \notin SentOnce
    BY DEF IdleMail, Idle, SentOnce, HandOvers
  <2> QED
    BY <2>1 DEF Mail
<1> QED
  BY <1>1 DEF Mail

\* A calm step leaves the run where it is.
LEMMA CalmStage ==
    ASSUME StageInv, Calm
    PROVE  StageInv' /\ Stays
<1>1. \A c \in Channels, m \in SentOnce : <<c, m>> \notin IdleMail
  BY DEF IdleMail, Idle, SentOnce, HandOvers
<1>2. \A s \in HandOvers : <<Way(s), s>> \notin IdleMail
  BY <1>1, Ways DEF SentOnce
<1> QED
  BY <1>1, <1>2, StageStays DEF Calm

\* What the messages of a step say about a host
LEMMA HostMail ==
    ASSUME NEW gone, NEW new, Mail(gone, new), NEW h \in Hosts
    PROVE  /\ Asked' => Asked \/ <<<<Builder, Dispatcher>>, "StartEngine">> \in new
           /\ Told(h)' => Told(h) \/ <<<<Dispatcher, h>>, "StartNodes">> \in new
           /\ Answers(h)' => Answers(h) \/ <<<<h, Builder>>, "NodesStarted">> \in new
           /\ ToldToStop(h)' => ToldToStop(h) \/ <<<<Builder, h>>, "StopNodes">> \in new
           /\ AnswersStop(h)' => AnswersStop(h) \/ <<<<h, Builder>>, "NodesStopped">> \in new
           /\ <<<<Builder, Dispatcher>>, "StartEngine">> \in gone \ new =>
                 Asked /\ (NothingTwice => ~Asked')
           /\ <<<<Dispatcher, h>>, "StartNodes">> \in gone \ new => Told(h) /\ (NothingTwice => ~Told(h)')
           /\ <<<<h, Builder>>, "NodesStarted">> \in gone \ new => Answers(h) /\ (NothingTwice => ~Answers(h)')
           /\ <<<<Builder, h>>, "StopNodes">> \in gone \ new => ToldToStop(h) /\ (NothingTwice => ~ToldToStop(h)')
           /\ <<<<h, Builder>>, "NodesStopped">> \in gone \ new =>
                 AnswersStop(h) /\ (NothingTwice => ~AnswersStop(h)')
<1>1. ASSUME NEW c \in Channels, NEW m \in SentOnce
      PROVE  /\ Has(net'[c], m) => Has(net[c], m) \/ <<c, m>> \in new
             /\ <<c, m>> \in gone \ new => Has(net[c], m) /\ (NothingTwice => ~Has(net'[c], m))
  <2>1. m \in Messages
    BY DEF SentOnce, HandOvers, Messages
  <2> QED
    BY <2>1 DEF Mail, NothingTwice
<1>2. <<Builder, Dispatcher>> \in Channels /\ <<Dispatcher, h>> \in Channels /\ <<h, Builder>> \in Channels
        /\ <<Builder, h>> \in Channels
  BY Ways
<1>3. {"StartEngine", "StartNodes", "NodesStarted", "StopNodes", "NodesStopped"} \subseteq SentOnce
  BY DEF SentOnce, HandOvers
<1>4. /\ Asked' => Asked \/ <<<<Builder, Dispatcher>>, "StartEngine">> \in new
      /\ <<<<Builder, Dispatcher>>, "StartEngine">> \in gone \ new => Asked /\ (NothingTwice => ~Asked')
  BY <1>1, <1>2, <1>3 DEF Asked
<1>5. /\ Told(h)' => Told(h) \/ <<<<Dispatcher, h>>, "StartNodes">> \in new
      /\ <<<<Dispatcher, h>>, "StartNodes">> \in gone \ new => Told(h) /\ (NothingTwice => ~Told(h)')
  BY <1>1, <1>2, <1>3 DEF Told
<1>6. /\ Answers(h)' => Answers(h) \/ <<<<h, Builder>>, "NodesStarted">> \in new
      /\ <<<<h, Builder>>, "NodesStarted">> \in gone \ new => Answers(h) /\ (NothingTwice => ~Answers(h)')
  BY <1>1, <1>2, <1>3 DEF Answers
<1>7. /\ ToldToStop(h)' => ToldToStop(h) \/ <<<<Builder, h>>, "StopNodes">> \in new
      /\ <<<<Builder, h>>, "StopNodes">> \in gone \ new => ToldToStop(h) /\ (NothingTwice => ~ToldToStop(h)')
  BY <1>1, <1>2, <1>3 DEF ToldToStop
<1>8. /\ AnswersStop(h)' => AnswersStop(h) \/ <<<<h, Builder>>, "NodesStopped">> \in new
      /\ <<<<h, Builder>>, "NodesStopped">> \in gone \ new => AnswersStop(h) /\ (NothingTwice => ~AnswersStop(h)')
  BY <1>1, <1>2, <1>3 DEF AnswersStop
<1> QED
  BY <1>4, <1>5, <1>6, <1>7, <1>8

\* Messages about the hosts
HostMessages == {"StartNodes", "NodesStarted", "StopNodes", "NodesStopped"}

\* The list of children depends on the builder only.
LEMMA SameChildren == builder'.children = builder.children => ActualChildren' = ActualChildren
  BY DEF ActualChildren

\* The hosts and the builder's account of them do not notice a step that leaves them alone.
LEMMA HostsStay ==
    ASSUME TypeOK, HostInv, NEW gone, NEW new, Mail(gone, new),
           \A c \in Channels, m \in Messages : <<c, m>> \in new =>
              m \notin HostMessages /\ (c = <<Builder, Dispatcher>> => m # "StartEngine"),
           UNCHANGED <<setup, builder, dispatcher, node>>,
           builder.status = "none" \/ alive' \subseteq alive \union {Coordinator, Dispatcher}
    PROVE  HostInv'
<1>1. /\ <<<<Builder, Dispatcher>>, "StartEngine">> \notin new
      /\ \A h \in Hosts : /\ <<<<Dispatcher, h>>, "StartNodes">> \notin new
                          /\ <<<<h, Builder>>, "NodesStarted">> \notin new
                          /\ <<<<Builder, h>>, "StopNodes">> \notin new
                          /\ <<<<h, Builder>>, "NodesStopped">> \notin new
  BY Ways DEF HostMessages, Messages
<1>2. ASSUME NEW h \in Hosts
      PROVE  /\ Asked' => Asked
             /\ (Told(h)' => Told(h)) /\ (Answers(h)' => Answers(h))
             /\ (ToldToStop(h)' => ToldToStop(h)) /\ (AnswersStop(h)' => AnswersStop(h))
  BY <1>1, HostMail
<1>3. \A h \in Hosts : Waits(h)' => Waits(h)
  BY DEF Waits
<1>4. ActualChildren' = ActualChildren
  BY SameChildren
<1>5. ASSUME NEW h \in Hosts PROVE HostStarts(h)'
  BY <1>2, <1>3, <1>4 DEF HostInv, HostStarts
<1>6. ASSUME NEW h \in Hosts PROVE HostStops(h)'
  BY <1>2 DEF HostInv, HostStops
<1>7. ASSUME NEW h \in Hosts PROVE HostKeeps(h)'
  <2>1. CASE builder.status = "none"
    BY <2>1, <1>2, <1>4 DEF HostInv, HostKeeps, HostStarts, HostStops
  <2>2. CASE alive' \subseteq alive \union {Coordinator, Dispatcher}
    <3>1. Kept(h)' => Kept(h)
      BY <2>2, Ways DEF Kept, Coordinator, Dispatcher, Builder, Orchestrator
    <3> QED
      BY <3>1, <1>2, <1>4 DEF HostInv, HostKeeps
  <2> QED
    BY <2>1, <2>2
<1>8. Counts'
  <2>1. IsFiniteSet(StoppedHosts) /\ IsFiniteSet(StoppedHosts')
    BY HostsAssumption, FS_Subset DEF StoppedHosts
  <2>2. StoppedHosts \subseteq StoppedHosts'
    BY <1>2 DEF StoppedHosts
  <2>3. Cardinality(StoppedHosts) \in Nat /\ Cardinality(StoppedHosts)' \in Nat
           /\ Cardinality(StoppedHosts) <= Cardinality(StoppedHosts)'
    BY <2>1, <2>2, FS_Subset, FS_CardinalityType
  <2>4. builder' = builder /\ setup' = setup /\ builder.responses \in Nat
    BY DEF TypeOK
  <2>5. Counts
    BY DEF HostInv
  <2>6. builder.status = "cluster_stopping" => builder.responses <= Cardinality(StoppedHosts)'
    BY <2>3, <2>4, <2>5 DEF Counts
  <2> QED
    BY <2>4, <2>5, <2>6, <1>4 DEF Counts
<1> QED
  BY <1>5, <1>6, <1>7, <1>8 DEF HostInv

\* Nobody is told to exit who was not before.
LEMMA NoNewExits ==
    ASSUME NEW gone, NEW new, Mail(gone, new), NEW a, NEW b, <<a, b>> \in Channels,
           <<<<a, b>>, "ActorExitRequest">> \notin new
    PROVE  Exit(a, b)' => Exit(a, b)
<1>1. "ActorExitRequest" \in Messages
  BY DEF Messages
<1>2. Has(net'[<<a, b>>], "ActorExitRequest") => Has(net[<<a, b>>], "ActorExitRequest")
  BY <1>1 DEF Mail
<1> QED
  BY <1>2 DEF Exit

\* A step that tells nobody to exit keeps the order of the exits.
LEMMA ExitsStay ==
    ASSUME ExitsInOrder, NEW gone, NEW new, Mail(gone, new),
           <<<<Orchestrator, Builder>>, "ActorExitRequest">> \notin new,
           <<<<Builder, Dispatcher>>, "ActorExitRequest">> \notin new,
           \A h \in Hosts : /\ <<<<Dispatcher, h>>, "ActorExitRequest">> \notin new
                            /\ <<<<Builder, h>>, "ActorExitRequest">> \notin new,
           Reached("Setup") \/ alive' \intersect {Orchestrator, Builder} \subseteq alive,
           builder.status = "cluster_stopped" => builder'.status = "cluster_stopped",
           Reached("begin")' => Reached("begin") /\ alive' \subseteq alive,
           Reached("Setup")' => Reached("Setup") /\ alive' \subseteq alive
    PROVE  ExitsInOrder'
<1>1. /\ Exit(Orchestrator, Builder)' => Exit(Orchestrator, Builder)
      /\ Exit(Builder, Dispatcher)' => Exit(Builder, Dispatcher)
  BY NoNewExits, Ways
<1>2. \A h \in Hosts : /\ Exit(Dispatcher, h)' => Exit(Dispatcher, h)
                       /\ Exit(Builder, h)' => Exit(Builder, h)
  BY NoNewExits, Ways
<1>5. /\ Exit(Orchestrator, Builder)' => Orchestrator \notin alive'
      /\ Exit(Builder, Dispatcher)' => Orchestrator \notin alive' /\ Builder \notin alive'
  BY <1>1 DEF ExitsInOrder
<1>6. ASSUME NEW h \in Hosts
      PROVE  /\ Exit(Dispatcher, h)' => Orchestrator \notin alive' /\ Builder \notin alive'
             /\ Exit(Builder, h)' => builder'.status = "cluster_stopped"
  BY <1>2 DEF ExitsInOrder
<1>7. Reached("begin")' => alive' = {}
  BY DEF ExitsInOrder
<1>8. Reached("begin")' \/ Reached("Setup")' =>
          /\ alive' \subseteq {Orchestrator} /\ ~Exit(Orchestrator, Builder)' /\ ~Exit(Builder, Dispatcher)'
          /\ \A h \in Hosts : ~Exit(Dispatcher, h)'
  BY <1>1, <1>2 DEF ExitsInOrder
<1> QED
  BY <1>5, <1>6, <1>7, <1>8 DEF ExitsInOrder

\* A step that hands nothing on keeps the stages, the hosts and the exits.
LEMMA CalmStep ==
    ASSUME TypeOK, StageInv, HostInv, ExitsInOrder, Calm
    PROVE  StageInv' /\ HostInv' /\ ExitsInOrder' /\ Stays
<1>1. StageInv' /\ Stays
  BY CalmStage
<1>2. Mail({}, IdleMail)
  BY DEF Calm
<1>3. HostInv'
  <2>1. \A c \in Channels, m \in Messages : <<c, m>> \in IdleMail =>
              m \notin HostMessages /\ (c = <<Builder, Dispatcher>> => m # "StartEngine")
    BY DEF IdleMail, Idle, HostMessages
  <2> QED
    BY <1>2, <2>1, HostsStay DEF Calm
<1>4. ExitsInOrder'
  <2>1. \A c : <<c, "ActorExitRequest">> \in IdleMail => c = <<Main, Orchestrator>>
    BY DEF IdleMail, Idle
  <2>2. /\ <<<<Orchestrator, Builder>>, "ActorExitRequest">> \notin IdleMail
        /\ <<<<Builder, Dispatcher>>, "ActorExitRequest">> \notin IdleMail
        /\ \A h \in Hosts : /\ <<<<Dispatcher, h>>, "ActorExitRequest">> \notin IdleMail
                            /\ <<<<Builder, h>>, "ActorExitRequest">> \notin IdleMail
    BY <2>1 DEF Main, Orchestrator, Builder, Dispatcher
  <2>3. alive' \subseteq alive /\ builder' = builder
    BY DEF Calm
  <2>4. (Reached("begin")' => Reached("begin")) /\ (Reached("Setup")' => Reached("Setup"))
    BY <1>1 DEF Stays, Stages, ToPublish
  <2> QED
    BY <1>2, <2>2, <2>3, <2>4, ExitsStay
<1> QED
  BY <1>1, <1>3, <1>4

\* Failures, cancellations, exits and results of elements on their way
LEMMA IdleSent ==
    ASSUME NetOK(net)
    PROVE  /\ \A src, me, msg : <<src, me>> \in Channels /\ Handles(src, me, msg, Nothing) => Mail({}, IdleMail)
           /\ \A src, me, msg, a : \A m \in Idle :
                 <<src, me>> \in Channels /\ Handles(src, me, msg, To(a, m)) => Mail({}, IdleMail)
           /\ \A me, a : \A m \in Idle : net' = Posted(net, me, To(a, m)) => Mail({}, IdleMail)
           /\ UNCHANGED net => Mail({}, IdleMail)
<1>0. Idle \subseteq Messages
  BY DEF Idle, Messages
<1>1. ASSUME NEW src, NEW me, NEW msg, <<src, me>> \in Channels, Handles(src, me, msg, Nothing)
      PROVE  Mail({}, IdleMail)
  <2>1. Mail({<<<<src, me>>, msg>>}, {})
    BY <1>1, HandlesNothing
  <2> QED
    BY <2>1, IdleOnly
<1>2. ASSUME NEW src, NEW me, NEW msg, NEW a, NEW m \in Idle, <<src, me>> \in Channels,
             Handles(src, me, msg, To(a, m))
      PROVE  Mail({}, IdleMail)
  <2>1. Mail({<<<<src, me>>, msg>>}, {<<<<me, a>>, m>>})
    BY <1>0, <1>2, HandlesTo
  <2>2. \A c \in Channels, x \in Messages : <<c, x>> \in {<<<<me, a>>, m>>} => x \in Idle
    OBVIOUS
  <2> QED
    BY <2>1, <2>2, IdleOnly
<1>3. ASSUME NEW me, NEW a, NEW m \in Idle, net' = Posted(net, me, To(a, m)) PROVE Mail({}, IdleMail)
  <2>1. Mail({}, {<<<<me, a>>, m>>})
    BY <1>0, <1>3, SendsTo
  <2>2. \A c \in Channels, x \in Messages : <<c, x>> \in {<<<<me, a>>, m>>} => x \in Idle
    OBVIOUS
  <2> QED
    BY <2>1, <2>2, IdleOnly
<1>4. ASSUME UNCHANGED net PROVE Mail({}, IdleMail)
  <2>1. Mail({}, {})
    BY <1>4, NoMail
  <2> QED
    BY <2>1, IdleOnly
<1> QED
  BY <1>1, <1>2, <1>3, <1>4

\* The main process: everything but asking and success
LEMMA MainIsCalm ==
    ASSUME TypeOK, Provision \/ CreateTimesOut \/ Interrupt \/ Teardown
    PROVE  Calm
<1>0. NetOK(net)
  BY DEF TypeOK, NetOK
<1>1. CASE Provision
  <2>1. Mail({}, IdleMail)
    BY <1>0, <1>1, IdleSent DEF Provision
  <2> QED
    BY <2>1, <1>1 DEF Calm, Provision, Begins, actorVars
<1>2. CASE CreateTimesOut
  <2>1. Mail({}, IdleMail)
    BY <1>0, <1>2, IdleSent DEF CreateTimesOut
  <2> QED
    BY <2>1, <1>2 DEF Calm, CreateTimesOut, Begins, actorVars
<1>3. CASE Interrupt
  <2>1. Mail({}, IdleMail)
    <3>1. CASE net' = Posted(net, Main, To(Orchestrator, "BenchmarkCancelled"))
      BY <1>0, <3>1, IdleSent DEF Idle
    <3>2. CASE net' = Posted(net, Main, To(Orchestrator, "ActorExitRequest"))
      <4>1. Mail({}, {<<<<Main, Orchestrator>>, "ActorExitRequest">>})
        BY <1>0, <3>2, SendsTo DEF Messages
      <4> QED
        BY <4>1, IdleOnly DEF IdleMail
    <3> QED
      BY <1>3, <3>1, <3>2 DEF Interrupt
  <2> QED
    BY <2>1, <1>3 DEF Calm, Interrupt, Begins, actorVars
<1>4. CASE Teardown
  <2>1. Mail({}, IdleMail)
    BY <1>0, <1>4, IdleSent DEF Teardown
  <2> QED
    BY <2>1, <1>4 DEF Calm, Teardown, Begins, actorVars
<1> QED
  BY <1>1, <1>2, <1>3, <1>4

\* The orchestrator: exceptions, failures, cancellations and finished elements
LEMMA OrchestratorIsCalm ==
    ASSUME TypeOK
    PROVE  /\ \A src \in {Main, Builder, Coordinator} : \A msg : OrchestratorRaises(src, msg) => Calm
           /\ TaskFinished => Calm
           /\ \A src \in {Main, Coordinator} : Cancelled(src) => Calm
           /\ \A src \in {Builder, Coordinator}, msg \in {"BenchmarkFailure", "PoisonMessage"} :
                 ForwardFailure(src, msg) => Calm
           /\ \A src \in {Builder, Coordinator} : IgnoreChildExit(src, Orchestrator) => Calm
           /\ \A h \in Hosts : IgnoreChildExit(h, Dispatcher) => Calm
<1>0. NetOK(net)
  BY DEF TypeOK, NetOK
<1>1. ASSUME NEW src \in {Main, Builder, Coordinator}, NEW msg, OrchestratorRaises(src, msg) PROVE Calm
  <2>1. <<src, Orchestrator>> \in Channels
    BY Ways
  <2>2. Mail({}, IdleMail)
    BY <1>0, <1>1, <2>1, IdleSent DEF OrchestratorRaises, Idle
  <2> QED
    BY <2>2, <1>1 DEF Calm, OrchestratorRaises, Begins, mainVars
<1>2. ASSUME TaskFinished PROVE Calm
  <2>1. CASE OrchestratorRaises(Coordinator, "TaskFinished")
    BY <1>1, <2>1
  <2>2. CASE ~OrchestratorRaises(Coordinator, "TaskFinished")
    <3>1. <<Coordinator, Orchestrator>> \in Channels
      BY Ways
    <3>2. Mail({}, IdleMail)
      BY <1>0, <1>2, <2>2, <3>1, IdleSent DEF TaskFinished, Idle
    <3> QED
      BY <3>2, <1>2, <2>2 DEF Calm, TaskFinished, Begins, mainVars
  <2> QED
    BY <2>1, <2>2
<1>3. ASSUME NEW src \in {Main, Coordinator}, Cancelled(src) PROVE Calm
  <2>1. <<src, Orchestrator>> \in Channels
    BY Ways
  <2>2. Mail({}, IdleMail)
    BY <1>0, <1>3, <2>1, IdleSent DEF Cancelled, Idle
  <2> QED
    BY <2>2, <1>3 DEF Calm, Cancelled, Begins, mainVars
<1>4. ASSUME NEW src \in {Builder, Coordinator}, NEW msg \in {"BenchmarkFailure", "PoisonMessage"},
             ForwardFailure(src, msg)
      PROVE  Calm
  <2>1. <<src, Orchestrator>> \in Channels /\ msg \in Idle
    BY Ways DEF Idle
  <2>2. Mail({}, IdleMail)
    BY <1>0, <1>4, <2>1, IdleSent DEF ForwardFailure
  <2> QED
    BY <2>2, <1>4 DEF Calm, ForwardFailure, Begins, mainVars
<1>5. ASSUME NEW src, NEW me, <<src, me>> \in Channels, IgnoreChildExit(src, me) PROVE Calm
  <2>1. Mail({}, IdleMail)
    BY <1>0, <1>5, IdleSent DEF IgnoreChildExit
  <2> QED
    BY <2>1, <1>5 DEF Calm, IgnoreChildExit, Begins, mainVars, actorVars
<1> QED
  BY <1>1, <1>2, <1>3, <1>4, <1>5, Ways

\* The builder and the dispatcher: exceptions and failures, the clocks, hosts that leave
LEMMA BuilderIsCalm ==
    ASSUME TypeOK
    PROVE  /\ StartEngine /\ faults' # faults => Calm
           /\ ResetRelativeTime => Calm
           /\ \A src \in {Orchestrator, Dispatcher} \union Hosts : BuilderFails(src) => Calm
           /\ Dispatch /\ faults' # faults => Calm
           /\ \A h \in Hosts : DispatcherFails(h) \/ RemoteLeaves(h) => Calm
<1>0. NetOK(net)
  BY DEF TypeOK, NetOK
<1>1. ASSUME StartEngine, faults' # faults PROVE Calm
  <2>1. /\ Handles(Orchestrator, Builder, "StartEngine", To(Orchestrator, "BenchmarkFailure"))
        /\ UNCHANGED <<builder, alive>> /\ UNCHANGED builderOnly
    BY <1>1 DEF StartEngine, NoFault
  <2>2. Mail({}, IdleMail)
    BY <1>0, <2>1, IdleSent, Ways DEF Idle
  <2> QED
    BY <2>1, <2>2 DEF Calm, builderOnly, Begins, mainVars
<1>2. ASSUME ResetRelativeTime PROVE Calm
  <2>1. Mail({}, IdleMail)
    BY <1>0, <1>2, IdleSent, Ways DEF ResetRelativeTime
  <2> QED
    BY <2>1, <1>2 DEF Calm, ResetRelativeTime, builderOnly, Begins, mainVars
<1>3. ASSUME NEW src \in {Orchestrator, Dispatcher} \union Hosts, BuilderFails(src) PROVE Calm
  <2>1. <<src, Builder>> \in Channels
    BY Ways
  <2>2. \E msg : \/ Handles(src, Builder, msg, Nothing)
                 \/ Handles(src, Builder, msg, To(Orchestrator, "BenchmarkFailure"))
    BY <1>3 DEF BuilderFails
  <2>3. Mail({}, IdleMail)
    BY <1>0, <2>1, <2>2, IdleSent DEF Idle
  <2> QED
    BY <2>3, <1>3 DEF Calm, BuilderFails, builderOnly, Begins, mainVars
<1>4. ASSUME Dispatch, faults' # faults PROVE Calm
  <2>1. /\ Handles(Builder, Dispatcher, "StartEngine", To(Builder, "BenchmarkFailure"))
        /\ UNCHANGED <<dispatcher, alive>> /\ UNCHANGED dispatcherOnly
    BY <1>4 DEF Dispatch, NoFault
  <2>2. Mail({}, IdleMail)
    BY <1>0, <2>1, IdleSent, Ways DEF Idle
  <2> QED
    BY <2>1, <2>2 DEF Calm, dispatcherOnly, Begins, mainVars
<1>5. ASSUME NEW h \in Hosts, DispatcherFails(h) PROVE Calm
  <2>1. Mail({}, IdleMail)
    BY <1>0, <1>5, IdleSent, Ways DEF DispatcherFails, Idle
  <2> QED
    BY <2>1, <1>5 DEF Calm, DispatcherFails, dispatcherOnly, Begins, mainVars
<1>6. ASSUME NEW h \in Hosts, RemoteLeaves(h) PROVE Calm
  <2>1. Mail({}, IdleMail)
    BY <1>0, <1>6, IdleSent DEF RemoteLeaves
  <2> QED
    BY <2>1, <1>6 DEF Calm, RemoteLeaves, dispatcherOnly, Begins, mainVars
<1> QED
  BY <1>1, <1>2, <1>3, <1>4, <1>5, <1>6

\* The node builders and the worker coordinator: exceptions, failures and finished elements
LEMMA OthersAreCalm ==
    ASSUME TypeOK
    PROVE  /\ \A h \in Hosts : FlushRaises(h) \/ NodeReturnsFailure(h) => Calm
           /\ \A msg, phase : CoordinatorStarts(msg, phase) /\ faults' # faults => Calm
           /\ FinishTask \/ CoordinatorReturnsFailure \/ WorkerFails => Calm
<1>0. NetOK(net)
  BY DEF TypeOK, NetOK
<1>1. ASSUME NEW h \in Hosts, FlushRaises(h) PROVE Calm
  <2>1. Mail({}, IdleMail)
    BY <1>0, <1>1, IdleSent DEF FlushRaises, Idle
  <2> QED
    BY <2>1, <1>1 DEF Calm, FlushRaises, nodeOnly, Begins, mainVars
<1>2. ASSUME NEW h \in Hosts, NodeReturnsFailure(h) PROVE Calm
  <2>1. Mail({}, IdleMail)
    BY <1>0, <1>2, IdleSent, Ways DEF NodeReturnsFailure, Idle
  <2> QED
    BY <2>1, <1>2 DEF Calm, NodeReturnsFailure, nodeOnly, Begins, mainVars
<1>3. ASSUME NEW msg, NEW phase, CoordinatorStarts(msg, phase), faults' # faults PROVE Calm
  <2>1. /\ Handles(Orchestrator, Coordinator, msg, To(Orchestrator, "BenchmarkFailure"))
        /\ UNCHANGED coordinator /\ UNCHANGED <<coordinatorOnly, alive>>
    BY <1>3 DEF CoordinatorStarts, NoFault
  <2>2. Mail({}, IdleMail)
    BY <1>0, <2>1, IdleSent, Ways DEF Idle
  <2> QED
    BY <2>1, <2>2 DEF Calm, coordinatorOnly, Begins, mainVars
<1>4. ASSUME FinishTask PROVE Calm
  <2>1. Mail({}, IdleMail)
    BY <1>0, <1>4, IdleSent DEF FinishTask, Reports, Idle
  <2>2. coordinator'.phase = coordinator.phase
    BY <1>4 DEF FinishTask, Reports, TypeOK
  <2> QED
    BY <2>1, <2>2, <1>4 DEF Calm, FinishTask, Reports, coordinatorOnly, Begins, mainVars
<1>5. ASSUME CoordinatorReturnsFailure PROVE Calm
  <2>1. Mail({}, IdleMail)
    BY <1>0, <1>5, IdleSent, Ways DEF CoordinatorReturnsFailure, Idle
  <2> QED
    BY <2>1, <1>5 DEF Calm, CoordinatorReturnsFailure, coordinatorOnly, Begins, mainVars
<1>6. ASSUME WorkerFails PROVE Calm
  <2>1. Mail({}, IdleMail)
    BY <1>0, <1>6, IdleSent DEF WorkerFails, Idle
  <2> QED
    BY <2>1, <1>6 DEF Calm, WorkerFails, coordinatorOnly, Begins, mainVars
<1> QED
  BY <1>1, <1>2, <1>3, <1>4, <1>5, <1>6

\* Everybody has a channel to and from the parent.
LEMMA Family ==
    /\ \A h \in Hosts : ParentOf(h) = Dispatcher
    /\ ParentOf(Orchestrator) = Main /\ ParentOf(Builder) = Orchestrator /\ ParentOf(Coordinator) = Orchestrator
    /\ ParentOf(Dispatcher) = Builder
    /\ \A a \in Actors : <<ParentOf(a), a>> \in Channels
<1>1. \A h \in Hosts : ParentOf(h) = Dispatcher
  BY Ways DEF ParentOf
<1>2. /\ ParentOf(Orchestrator) = Main /\ ParentOf(Builder) = Orchestrator /\ ParentOf(Coordinator) = Orchestrator
      /\ ParentOf(Dispatcher) = Builder
  BY DEF ParentOf, Main, Orchestrator, Builder, Dispatcher, Coordinator
<1>3. ASSUME NEW a \in Actors PROVE <<ParentOf(a), a>> \in Channels
  BY <1>1, <1>2, Ways DEF Actors
<1> QED
  BY <1>1, <1>2, <1>3

\* Deaths, poisoned messages and the exit of the worker coordinator
LEMMA EndsAreCalm ==
    ASSUME TypeOK
    PROVE  /\ \A a \in Actors : Dies(a) => Calm
           /\ \A a \in Actors \ {Orchestrator} : Poisoned(a) => Calm
           /\ Exits(Coordinator) => Calm
<1>0. NetOK(net)
  BY DEF TypeOK, NetOK
<1>1. ASSUME NEW a \in Actors, Dies(a) PROVE Calm
  <2>1. Mail({}, IdleMail)
    BY <1>0, <1>1, IdleSent DEF Dies, Idle
  <2> QED
    BY <2>1, <1>1 DEF Calm, Dies, Begins, mainVars, actorVars
<1>2. ASSUME NEW a \in Actors \ {Orchestrator}, Poisoned(a) PROVE Calm
  <2>1. PICK msg : Pending(ParentOf(a), a, msg)
    BY <1>2 DEF Poisoned
  <2>2. Handles(ParentOf(a), a, msg, To(ParentOf(a), "PoisonMessage"))
    BY <1>2, <2>1 DEF Poisoned, Handles
  <2>3. Mail({}, IdleMail)
    BY <1>0, <2>2, IdleSent, Family DEF Idle
  <2> QED
    BY <2>3, <1>2 DEF Calm, Poisoned, Begins, mainVars, actorVars
<1>3. ASSUME Exits(Coordinator) PROVE Calm
  <2> DEFINE out == [a \in ((ChildrenOf(Coordinator) \intersect alive) \union {ParentOf(Coordinator)}) \ {Main} |->
                       IF a = ParentOf(Coordinator) THEN <<"ChildActorExited">> ELSE <<"ActorExitRequest">>]
  <2>1. ChildrenOf(Coordinator) = {}
    BY DEF ChildrenOf, Orchestrator, Builder, Dispatcher, Coordinator
  <2>2. DOMAIN out = {Orchestrator} /\ out[Orchestrator] = <<"ChildActorExited">>
    BY <2>1, Family DEF Main, Orchestrator
  <2>3. Handles(Orchestrator, Coordinator, "ActorExitRequest", out)
    BY <1>3, Family DEF Exits
  <2> HIDE DEF out
  <2> DEFINE new == {<<<<Coordinator, Orchestrator>>, "ChildActorExited">>}
  <2>4. \A c \in Channels, m \in Messages :
           c[1] = Coordinator /\ c[2] \in DOMAIN out /\ out[c[2]] = <<m>> => <<c, m>> \in new
    BY <2>2, TwoEnds
  <2>5. \A a \in DOMAIN out : \E m \in Messages : out[a] = <<m>>
    BY <2>2 DEF Messages
  <2>6. Mail({<<<<Orchestrator, Coordinator>>, "ActorExitRequest">>}, new)
    <3> HIDE DEF new
    <3> QED
      BY <1>0, <2>3, <2>4, <2>5, MailHandled, Ways DEF Handles
  <2>7. \A c \in Channels, m \in Messages : <<c, m>> \in new => m \in Idle
    BY DEF Idle
  <2>8. Mail({}, IdleMail)
    BY <2>6, <2>7, IdleOnly
  <2> QED
    BY <2>8, <1>3 DEF Calm, Exits, Begins, mainVars, actorVars
<1> QED
  BY <1>1, <1>2, <1>3

-----------------------------------------------------------------------------
(* Steps that hand the run on *)

Core == TypeOK /\ StageInv /\ HostInv /\ ExitsInOrder
CoreKept == StageInv' /\ HostInv' /\ ExitsInOrder'

\* Mail that goes with handing over to stage s
MailFor(s) ==
    (Channels \X Idle) \union {<<<<Main, Orchestrator>>, "ActorExitRequest">>,
                               <<<<Orchestrator, Coordinator>>, "ActorExitRequest">>}
                       \union (IF s \in HandOvers THEN {<<Way(s), s>>} ELSE {})

\* The run is handed on, which does not concern the hosts.
LEMMA PassOn ==
    ASSUME Core, NEW gone, NEW new, Mail(gone, new), NEW old \in Stages, NEW next \in Stages \ {"begin", "Setup"},
           old # next, new \subseteq MailFor(next),
           IF old \in HandOvers THEN <<Way(old), old>> \in gone ELSE Works(old) /\ ~Works(old)',
           \A s \in Stages \ HandOvers : Works(s)' => Works(s) \/ s = next,
           Fits(next)', StartedFirst',
           UNCHANGED <<setup, builder, dispatcher, node>>,
           alive' \subseteq alive \union {Coordinator} \/ (old = "Setup" /\ alive' \subseteq alive \union {Builder})
    PROVE  CoreKept /\ Moves(old, next)
<1>0. /\ "ActorExitRequest" \notin SentOnce /\ Idle \intersect SentOnce = {} /\ Idle \intersect HostMessages = {}
      /\ "ActorExitRequest" \notin HostMessages /\ HandOvers \intersect HostMessages = {}
      /\ "StartEngine" \notin Idle /\ HandOvers \subseteq SentOnce /\ "ActorExitRequest" \notin Idle
      /\ "ActorExitRequest" \notin HandOvers
  BY DEF Idle, SentOnce, HandOvers, HostMessages
<1>1. ASSUME NEW c, NEW m, <<c, m>> \in new
      PROVE  \/ m \in Idle
             \/ m = "ActorExitRequest" /\ c \in {<<Main, Orchestrator>>, <<Orchestrator, Coordinator>>}
             \/ next \in HandOvers /\ c = Way(next) /\ m = next
  BY <1>1 DEF MailFor
<1>2. StageInv' /\ Moves(old, next)
  <2>1. \A s \in HandOvers : <<Way(s), s>> \in new => s = next
    BY <1>0, <1>1
  <2>2. \A c \in Channels, m \in SentOnce :
           <<c, m>> \in new => (next \in HandOvers /\ c = Way(next) /\ m = next) \/ ~Has(net[c], m)
    BY <1>0, <1>1
  <2>3. IF old \in HandOvers THEN <<Way(old), old>> \in gone \ new ELSE Works(old) /\ ~Works(old)'
    BY <2>1
  <2>4. StageInv
    BY DEF Core
  <2> QED
    BY <2>1, <2>2, <2>3, <2>4, HandsOn
<1>3. Reached(old)
  BY <1>2 DEF Moves
<1>4. HostInv'
  <2>1. ASSUME NEW c \in Channels, NEW m \in Messages, <<c, m>> \in new
        PROVE  m \notin HostMessages /\ (c = <<Builder, Dispatcher>> => m # "StartEngine")
    <3>1. Way("StartEngine") # <<Builder, Dispatcher>>
      BY DEF Way, Orchestrator, Builder, Dispatcher
    <3> QED
      BY <1>0, <1>1, <2>1, <3>1
  <2>2. old = "Setup" => builder.status = "none"
    BY <1>3 DEF Core, StageInv, StageFits, Fits
  <2>3. builder.status = "none" \/ alive' \subseteq alive \union {Coordinator, Dispatcher}
    BY <2>2
  <2> QED
    BY <2>1, <2>3, HostsStay DEF Core
<1>5. ExitsInOrder'
  <2>1. \A c : <<c, "ActorExitRequest">> \in new => c \in {<<Main, Orchestrator>>, <<Orchestrator, Coordinator>>}
    BY <1>0, <1>1
  <2>2. /\ <<<<Orchestrator, Builder>>, "ActorExitRequest">> \notin new
        /\ <<<<Builder, Dispatcher>>, "ActorExitRequest">> \notin new
        /\ \A h \in Hosts : /\ <<<<Dispatcher, h>>, "ActorExitRequest">> \notin new
                            /\ <<<<Builder, h>>, "ActorExitRequest">> \notin new
    BY <2>1 DEF Main, Orchestrator, Builder, Dispatcher, Coordinator
  <2>3. ~Reached("begin")' /\ ~Reached("Setup")'
    BY <1>2 DEF Moves, Stages, ToPublish
  <2>4. Reached("Setup") \/ alive' \intersect {Orchestrator, Builder} \subseteq alive
    BY <1>3 DEF Orchestrator, Builder, Coordinator
  <2> QED
    BY <2>2, <2>3, <2>4, ExitsStay DEF Core
<1> QED
  BY <1>2, <1>4, <1>5 DEF CoreKept

\* The ways of the messages that hand the run on
LEMMA WayOf ==
    /\ Way("Setup") = <<Main, Orchestrator>> /\ Way("StartEngine") = <<Orchestrator, Builder>>
    /\ Way("StopEngine") = <<Orchestrator, Builder>> /\ Way("EngineStarted") = <<Builder, Orchestrator>>
    /\ Way("EngineStopped") = <<Builder, Orchestrator>> /\ Way("PrepareBenchmark") = <<Orchestrator, Coordinator>>
    /\ Way("StartBenchmark") = <<Orchestrator, Coordinator>>
    /\ Way("PreparationComplete") = <<Coordinator, Orchestrator>>
    /\ Way("BenchmarkComplete") = <<Coordinator, Orchestrator>> /\ Way("Success") = <<Orchestrator, Main>>
  BY DEF Way

\* Who takes a message knows the stage.
LEMMA TakesStage ==
    ASSUME StageInv, NEW gone, NEW new, Mail(gone, new), NEW s \in HandOvers, <<Way(s), s>> \in gone
    PROVE  Reached(s) /\ Fits(s)
<1>1. s \in Stages
  BY DEF HandOvers, Stages, ToPublish, ToEnd
<1>2. Reached(s)
  BY ReachedByMail
<1> QED
  BY <1>1, <1>2 DEF StageInv, StageFits

\* Nobody begins to work on the run.
LEMMA SameWorks ==
    ASSUME builder'.status = builder.status, coordinator'.phase = coordinator.phase, Begins' => Begins,
           result' = "success" => result = "success"
    PROVE  \A s \in Stages \ HandOvers : Works(s)' => Works(s)
  BY DEF Works

\* A message that hands the run on is handled by sending the next one.
LEMMA Relays ==
    ASSUME Core, NEW old \in HandOvers, NEW next \in HandOvers \ {"Setup"}, old # next, NEW src, NEW me, NEW a,
           Way(old) = <<src, me>>, Way(next) = <<me, a>>, Handles(src, me, old, To(a, next)),
           UNCHANGED <<setup, main, result, builder, dispatcher, node>>, coordinator'.phase = coordinator.phase,
           Fits(old) => Fits(next)',
           alive' \subseteq alive \union {Coordinator} \/ (old = "Setup" /\ alive' \subseteq alive \union {Builder})
    PROVE  CoreKept /\ Moves(old, next) /\ Fits(old)
<1> DEFINE gone == {<<<<src, me>>, old>>}
           new == {<<<<me, a>>, next>>}
<1>0. NetOK(net)
  BY DEF Core, TypeOK, NetOK
<1>1. NetOK(net) /\ <<src, me>> \in Channels /\ next \in Messages
  BY <1>0, Ways
<1>2. Mail(gone, new)
  BY <1>1, HandlesTo
<1>3. <<Way(old), old>> \in gone /\ new \subseteq MailFor(next)
  BY DEF MailFor
<1> HIDE DEF gone, new
<1>4. Fits(old)
  BY <1>2, <1>3, TakesStage DEF Core
<1>5. \A s \in Stages \ HandOvers : Works(s)' => Works(s) \/ s = next
  <2>1. Begins' => Begins
    BY DEF Begins
  <2> QED
    BY <2>1, SameWorks
<1>6. Fits(next)' /\ StartedFirst'
  BY <1>4 DEF StartedFirst, Core, StageInv, StageFits
<1>7. old \in Stages /\ next \in Stages \ {"begin", "Setup"}
  BY DEF HandOvers, Stages, ToPublish, ToEnd
<1>8. IF old \in HandOvers THEN <<Way(old), old>> \in gone ELSE Works(old) /\ ~Works(old)'
  BY <1>3
<1> QED
  BY <1>2, <1>3, <1>4, <1>5, <1>6, <1>7, <1>8, PassOn

\* Who fails counts a fault.
LEMMA NoFaultCounted == TypeOK => \A kind : Fault(kind) => faults' # faults
<1>0. TypeOK => faults \in 0 .. MaxFaults
  BY DEF TypeOK
<1>1. TypeOK => faults \in Nat
  BY <1>0, BoundsAssumption
<1> QED
  BY <1>1 DEF Fault

\* receiveMsg_Setup hands the run on to the builder.
LEMMA SetupStep == ASSUME Core, Setup PROVE CoreKept /\ Moves("Setup", "StartEngine")
<1>1. /\ UNCHANGED <<setup, main, result, builder, dispatcher, node, coordinator>> /\ alive' = alive \union {Builder}
      /\ Handles(Main, Orchestrator, "Setup", To(Builder, "StartEngine"))
  BY DEF Setup, mainVars, actorVars
<1>2. Fits("Setup") => Fits("StartEngine")'
  BY <1>1 DEF Fits, ToEnd
<1>3. "Setup" \in HandOvers /\ "StartEngine" \in HandOvers \ {"Setup"} /\ "Setup" # "StartEngine"
  BY DEF HandOvers
<1> QED
  BY <1>1, <1>2, <1>3, WayOf, Relays

\* receiveMsg_EngineStarted hands it on to the worker coordinator.
LEMMA EngineStartedStep ==
    ASSUME Core, EngineStarted, faults' = faults
    PROVE  CoreKept /\ Moves("EngineStarted", "PrepareBenchmark")
<1>1. /\ UNCHANGED <<setup, main, result, builder, dispatcher, node, coordinator>>
      /\ alive' = alive \union {Coordinator}
      /\ Handles(Builder, Orchestrator, "EngineStarted", To(Coordinator, "PrepareBenchmark"))
  BY NoFaultCounted DEF EngineStarted, OrchestratorRaises, mainVars, actorVars, Core
<1>2. Fits("EngineStarted") => Fits("PrepareBenchmark")'
  BY <1>1 DEF Fits, ToEnd
<1>3. "EngineStarted" \in HandOvers /\ "PrepareBenchmark" \in HandOvers \ {"Setup"} /\ "EngineStarted" # "PrepareBenchmark"
  BY DEF HandOvers
<1> QED
  BY <1>1, <1>2, <1>3, WayOf, Relays

\* receiveMsg_PreparationComplete lets the worker coordinator start the benchmark.
LEMMA PreparationCompleteStep ==
    ASSUME Core, PreparationComplete, faults' = faults
    PROVE  CoreKept /\ Moves("PreparationComplete", "StartBenchmark")
<1>1. /\ UNCHANGED <<setup, main, result, builder, dispatcher, node, coordinator, alive>>
      /\ Handles(Coordinator, Orchestrator, "PreparationComplete", To(Coordinator, "StartBenchmark"))
  BY NoFaultCounted DEF PreparationComplete, OrchestratorRaises, mainVars, actorVars, Core
<1>2. Fits("PreparationComplete") => Fits("StartBenchmark")'
  BY <1>1 DEF Fits, ToEnd
<1>3. /\ "PreparationComplete" \in HandOvers /\ "StartBenchmark" \in HandOvers \ {"Setup"}
      /\ "PreparationComplete" # "StartBenchmark"
  BY DEF HandOvers
<1> QED
  BY <1>1, <1>2, <1>3, WayOf, Relays

\* receiveMsg_EngineStopped tells the main process of the success.
LEMMA EngineStoppedStep == ASSUME Core, EngineStopped PROVE CoreKept /\ Moves("EngineStopped", "Success")
<1>1. /\ UNCHANGED <<setup, main, result, builder, dispatcher, node, coordinator, alive>>
      /\ Handles(Builder, Orchestrator, "EngineStopped", To(Main, "Success"))
  BY DEF EngineStopped, mainVars, actorVars
<1>2. Fits("EngineStopped") => Fits("Success")'
  BY <1>1 DEF Fits, ToEnd
<1>3. "EngineStopped" \in HandOvers /\ "Success" \in HandOvers \ {"Setup"} /\ "EngineStopped" # "Success"
  BY DEF HandOvers
<1> QED
  BY <1>1, <1>2, <1>3, WayOf, Relays

\* A message that hands the run on is the beginning of some work.
LEMMA BeginsWork ==
    ASSUME Core, NEW old \in HandOvers, NEW next \in Stages \ HandOvers, next # "begin", NEW src, NEW me,
           Way(old) = <<src, me>>, Handles(src, me, old, Nothing),
           UNCHANGED <<setup, main, result, builder, dispatcher, node, alive>>,
           \A s \in Stages \ HandOvers : Works(s)' => Works(s) \/ s = next,
           Fits(old) => Fits(next)' /\ StartedFirst'
    PROVE  CoreKept /\ Moves(old, next) /\ Fits(old)
<1> DEFINE gone == {<<<<src, me>>, old>>}
           new == {}
<1>0. NetOK(net)
  BY DEF Core, TypeOK, NetOK
<1>1. <<src, me>> \in Channels
  BY Ways
<1>2. Mail(gone, new)
  BY <1>0, <1>1, HandlesNothing
<1>3. <<Way(old), old>> \in gone /\ new \subseteq MailFor(next)
  BY DEF MailFor
<1> HIDE DEF gone, new
<1>4. Fits(old)
  BY <1>2, <1>3, TakesStage DEF Core
<1>6. Fits(next)' /\ StartedFirst'
  BY <1>4
<1>7. old \in Stages /\ next \in Stages \ {"begin", "Setup"} /\ old # next
  BY DEF HandOvers, Stages, ToPublish, ToEnd
<1>8. IF old \in HandOvers THEN <<Way(old), old>> \in gone ELSE Works(old) /\ ~Works(old)'
  BY <1>3
<1> QED
  BY <1>2, <1>3, <1>4, <1>6, <1>7, <1>8, PassOn

\* Work on the run is done when the next message that hands it on is sent.
LEMMA EndsWork ==
    ASSUME Core, NEW old \in Stages \ HandOvers, NEW next \in HandOvers \ {"Setup"}, NEW me, NEW a,
           Way(next) = <<me, a>>, net' = Posted(net, me, To(a, next)),
           UNCHANGED <<setup, main, result, builder, dispatcher, node, alive>>,
           Works(old), ~Works(old)',
           \A s \in Stages \ HandOvers : Works(s)' => Works(s),
           Fits(next)', StartedFirst'
    PROVE  CoreKept /\ Moves(old, next)
<1> DEFINE gone == {}
           new == {<<<<me, a>>, next>>}
<1>0. NetOK(net)
  BY DEF Core, TypeOK, NetOK
<1>1. next \in Messages
  BY Ways
<1>2. Mail(gone, new)
  BY <1>0, <1>1, SendsTo
<1>3. new \subseteq MailFor(next)
  BY DEF MailFor
<1> HIDE DEF gone, new
<1>7. old \in Stages /\ next \in Stages \ {"begin", "Setup"} /\ old # next
  BY DEF HandOvers, Stages, ToPublish, ToEnd
<1>8. IF old \in HandOvers THEN <<Way(old), old>> \in gone ELSE Works(old) /\ ~Works(old)'
  OBVIOUS
<1> QED
  BY <1>2, <1>3, <1>7, <1>8, PassOn

\* The worker coordinator begins to prepare or to run the benchmark.
LEMMA CoordinatorStartsStep ==
    ASSUME Core, NEW msg, NEW phase,
           <<msg, phase>> \in {<<"PrepareBenchmark", "preparing">>, <<"StartBenchmark", "running">>},
           CoordinatorStarts(msg, phase), faults' = faults
    PROVE  CoreKept /\ Moves(msg, phase)
<1>1. /\ UNCHANGED <<setup, main, result, builder, dispatcher, node, alive>>
      /\ coordinator' = [coordinator EXCEPT !.phase = phase]
      /\ Handles(Orchestrator, Coordinator, msg, Nothing)
  BY NoFaultCounted DEF CoordinatorStarts, coordinatorOnly, mainVars, Core
<1>2. coordinator'.phase = phase
  <2>1. coordinator \in [phase : {"none", "preparing", "prepared", "running", "complete"}, left : 0 .. Tasks]
    BY DEF Core, TypeOK
  <2> QED
    BY <1>1, <2>1
<1>3. \A s \in Stages \ HandOvers : Works(s)' => Works(s) \/ s = phase
  BY <1>1, <1>2 DEF Works, Begins
<1>4. msg \in HandOvers /\ phase \in Stages \ HandOvers /\ phase # "begin" /\ Way(msg) = <<Orchestrator, Coordinator>>
  BY WayOf DEF HandOvers, Stages, ToPublish, ToEnd
<1>5. Fits(msg) => Fits(phase)' /\ StartedFirst'
  <2>1. StartedFirst
    BY DEF Core, StageInv, StageFits
  <2>2. Fits(msg) => StartedFirst'
    BY <1>1, <1>2, <2>1 DEF Fits, StartedFirst
  <2>3. Fits(phase)'
    BY <1>1, <1>2 DEF Fits, ToEnd
  <2> QED
    BY <2>2, <2>3
<1> QED
  BY <1>1, <1>3, <1>4, <1>5, BeginsWork

\* The worker coordinator has prepared the workload.
LEMMA WorkloadPreparedStep ==
    ASSUME Core, WorkloadPrepared
    PROVE  CoreKept /\ Moves("preparing", "PreparationComplete")
<1>1. /\ UNCHANGED <<setup, main, result, builder, dispatcher, node, alive>>
      /\ coordinator.phase = "preparing" /\ coordinator' = [coordinator EXCEPT !.phase = "prepared"]
      /\ net' = Posted(net, Coordinator, To(Orchestrator, "PreparationComplete"))
  BY DEF WorkloadPrepared, Reports, coordinatorOnly, mainVars
<1>2. coordinator'.phase = "prepared"
  <2>1. coordinator \in [phase : {"none", "preparing", "prepared", "running", "complete"}, left : 0 .. Tasks]
    BY DEF Core, TypeOK
  <2> QED
    BY <1>1, <2>1
<1>3. \A s \in Stages \ HandOvers : Works(s)' => Works(s)
  BY <1>1, <1>2 DEF Works, Begins
<1>4. /\ "preparing" \in Stages \ HandOvers /\ "PreparationComplete" \in HandOvers \ {"Setup"}
      /\ Way("PreparationComplete") = <<Coordinator, Orchestrator>>
  BY WayOf DEF HandOvers, Stages, ToPublish, ToEnd
<1>5. Works("preparing") /\ ~Works("preparing")'
  BY <1>1, <1>2 DEF Works
<1>6. Fits("PreparationComplete")'
  BY <1>2 DEF Fits, ToEnd
<1>7. StartedFirst'
  BY <1>1, <1>2 DEF StartedFirst, Core, StageInv, StageFits
<1> QED
  BY <1>1, <1>3, <1>4, <1>5, <1>6, <1>7, EndsWork

\* The worker coordinator has run the last element.
LEMMA FinishBenchmarkStep ==
    ASSUME Core, FinishBenchmark
    PROVE  CoreKept /\ Moves("running", "BenchmarkComplete")
<1>1. /\ UNCHANGED <<setup, main, result, builder, dispatcher, node, alive>>
      /\ coordinator.phase = "running" /\ coordinator'.phase = "complete"
      /\ net' = Posted(net, Coordinator, To(Orchestrator, "BenchmarkComplete"))
  BY DEF FinishBenchmark, Reports, coordinatorOnly, mainVars
<1>3. \A s \in Stages \ HandOvers : Works(s)' => Works(s)
  BY <1>1 DEF Works, Begins
<1>4. /\ "running" \in Stages \ HandOvers /\ "BenchmarkComplete" \in HandOvers \ {"Setup"}
      /\ Way("BenchmarkComplete") = <<Coordinator, Orchestrator>>
  BY WayOf DEF HandOvers, Stages, ToPublish, ToEnd
<1>5. Works("running") /\ ~Works("running")'
  BY <1>1 DEF Works
<1>6. Fits("BenchmarkComplete")'
  BY <1>1 DEF Fits, ToEnd, Core, StageInv, StageFits, StartedFirst
<1>7. StartedFirst'
  BY <1>1 DEF StartedFirst
<1> QED
  BY <1>1, <1>3, <1>4, <1>5, <1>6, <1>7, EndsWork

\* A cluster that is not the builder's own needs no stopping.
LEMMA StopExternalStep ==
    ASSUME Core, StopEngine, setup.external
    PROVE  CoreKept /\ Moves("StopEngine", "EngineStopped")
<1>1. /\ UNCHANGED <<setup, main, result, builder, dispatcher, node, coordinator, alive>>
      /\ Handles(Orchestrator, Builder, "StopEngine", To(Orchestrator, "EngineStopped"))
  BY DEF StopEngine, builderOnly, mainVars
<1>2. Fits("StopEngine") => Fits("EngineStopped")'
  BY <1>1 DEF Fits, ToEnd
<1>3. "StopEngine" \in HandOvers /\ "EngineStopped" \in HandOvers \ {"Setup"} /\ "StopEngine" # "EngineStopped"
  BY DEF HandOvers
<1> QED
  BY <1>1, <1>2, <1>3, WayOf, Relays

\* receiveMsg_BenchmarkComplete hands the run back to the builder.
LEMMA BenchmarkCompleteStep ==
    ASSUME Core, BenchmarkComplete, faults' = faults
    PROVE  CoreKept /\ Moves("BenchmarkComplete", "StopEngine")
<1> DEFINE out == [a \in {Coordinator, Builder} |->
                     IF a = Builder THEN <<"StopEngine">> ELSE <<"ActorExitRequest">>]
           gone == {<<<<Coordinator, Orchestrator>>, "BenchmarkComplete">>}
           new == {<<<<Orchestrator, Builder>>, "StopEngine">>, <<<<Orchestrator, Coordinator>>, "ActorExitRequest">>}
<1>1. /\ UNCHANGED <<setup, main, result, builder, dispatcher, node, coordinator, alive>>
      /\ Handles(Coordinator, Orchestrator, "BenchmarkComplete", out)
  BY NoFaultCounted DEF BenchmarkComplete, OrchestratorRaises, mainVars, Core
<1>2. /\ DOMAIN out = {Coordinator, Builder} /\ out[Builder] = <<"StopEngine">>
      /\ out[Coordinator] = <<"ActorExitRequest">>
  BY DEF Builder, Coordinator
<1> HIDE DEF out
<1>3. \A a \in DOMAIN out : \E m \in Messages : out[a] = <<m>>
  BY <1>2 DEF Messages
<1>4. ASSUME NEW c \in Channels, NEW m \in Messages, c[1] = Orchestrator, c[2] \in DOMAIN out, out[c[2]] = <<m>>
      PROVE  <<c, m>> \in new
  <2>1. c = <<Orchestrator, c[2]>>
    BY <1>4, TwoEnds
  <2>2. CASE c[2] = Builder
    BY <1>2, <1>4, <2>1, <2>2
  <2>3. CASE c[2] = Coordinator
    BY <1>2, <1>4, <2>1, <2>3
  <2> QED
    BY <1>2, <1>4, <2>2, <2>3
<1>5. new \subseteq MailFor("StopEngine")
  BY WayOf DEF MailFor, HandOvers
<1>6. <<Way("BenchmarkComplete"), "BenchmarkComplete">> \in gone
  BY WayOf
<1>7. NetOK(net) /\ <<Coordinator, Orchestrator>> \in Channels
  <2>1. NetOK(net)
    BY DEF Core, TypeOK, NetOK
  <2> QED
    BY <2>1, Ways
<1> HIDE DEF new
<1>8. Mail(gone, new)
  BY <1>1, <1>3, <1>4, <1>7, MailHandled DEF Handles
<1>9. /\ "BenchmarkComplete" \in HandOvers /\ "BenchmarkComplete" \in Stages
      /\ "StopEngine" \in Stages \ {"begin", "Setup"} /\ "BenchmarkComplete" # "StopEngine"
  BY DEF HandOvers, Stages, ToPublish, ToEnd
<1> HIDE DEF gone
<1>10. Fits("BenchmarkComplete")
  BY <1>6, <1>8, <1>9, TakesStage DEF Core
<1>11. Fits("StopEngine")' /\ StartedFirst'
  BY <1>1, <1>10 DEF Fits, ToEnd, StartedFirst
<1>12. \A s \in Stages \ HandOvers : Works(s)' => Works(s) \/ s = "StopEngine"
  <2>1. Begins' => Begins
    BY <1>1 DEF Begins
  <2> QED
    BY <1>1, <2>1, SameWorks
<1> QED
  BY <1>1, <1>5, <1>6, <1>8, <1>9, <1>11, <1>12, PassOn

\* Main takes the answer: success, or nothing that hands the run on.
LEMMA AnsweredStep ==
    ASSUME Core, Answered
    PROVE  (CoreKept /\ Moves("Success", "success")) \/ Calm
<1> DEFINE answer == Head(net[<<Orchestrator, Main>>])
           gone == {<<<<Orchestrator, Main>>, answer>>}
           new == {<<<<Main, Orchestrator>>, "ActorExitRequest">>}
           out == To(Orchestrator, "ActorExitRequest")
<1>1. /\ UNCHANGED <<setup, builder, dispatcher, node, coordinator, alive>>
      /\ main \in {"asking", "cancelling"} /\ main' = "teardown"
      /\ net[<<Orchestrator, Main>>] # <<>>
      /\ net' = Posted(Popped(Orchestrator, Main), Main, out)
      /\ result' = "success" => answer = "Success"
  BY DEF Answered, actorVars
<1>2. NetOK(net) /\ <<Orchestrator, Main>> \in Channels
  <2>1. NetOK(net)
    BY DEF Core, TypeOK, NetOK
  <2> QED
    BY <2>1, Ways
<1>3. DOMAIN out = {Orchestrator} /\ out[Orchestrator] = <<"ActorExitRequest">>
  BY DEF To
<1>4. Pending(Orchestrator, Main, answer)
  BY <1>1 DEF Pending
<1> HIDE DEF out
<1>5. \A a \in DOMAIN out : \E m \in Messages : out[a] = <<m>>
  BY <1>3 DEF Messages
<1>6. ASSUME NEW c \in Channels, NEW m \in Messages, c[1] = Main, c[2] \in DOMAIN out, out[c[2]] = <<m>>
      PROVE  <<c, m>> \in new
  BY <1>3, <1>6, TwoEnds
<1>7. <<Way("Success"), "Success">> \in gone <=> answer = "Success"
  BY WayOf
<1>8. new \subseteq MailFor("success") /\ new \subseteq IdleMail
  BY DEF MailFor, IdleMail
<1> HIDE DEF new
<1>9. Mail(gone, new)
  BY <1>1, <1>2, <1>4, <1>5, <1>6, MailHandled
<1> HIDE DEF gone, answer
<1>10. CASE result' # "success"
  <2>1. Mail({}, IdleMail)
    BY <1>8, <1>9, IdleOnly
  <2> QED
    BY <1>1, <1>10, <2>1 DEF Calm, Begins
<1>11. CASE result' = "success"
  <2>1. answer = "Success"
    BY <1>1, <1>11
  <2>2. <<Way("Success"), "Success">> \in gone
    BY <1>7, <2>1
  <2>3. /\ "Success" \in HandOvers /\ "Success" \in Stages
        /\ "success" \in Stages \ {"begin", "Setup"} /\ "Success" # "success"
    BY DEF HandOvers, Stages, ToPublish, ToEnd
  <2>4. Fits("Success")
    BY <2>2, <2>3, <1>9, TakesStage DEF Core
  <2>5. Fits("success")' /\ StartedFirst'
    BY <1>1, <2>4 DEF Fits, ToEnd, StartedFirst
  <2>6. \A s \in Stages \ HandOvers : Works(s)' => Works(s) \/ s = "success"
    BY <1>1 DEF Works, Begins
  <2>7. CoreKept /\ Moves("Success", "success")
    BY <1>1, <1>8, <1>9, <2>2, <2>3, <2>5, <2>6, PassOn
  <2> QED
    BY <2>7
<1> QED
  BY <1>10, <1>11

\* run_test asks the orchestrator.
LEMMA AskSetupStep ==
    ASSUME Core, AskSetup
    PROVE  CoreKept /\ Moves("begin", "Setup")
<1> DEFINE gone == {}
           new == {<<<<Main, Orchestrator>>, "Setup">>}
<1>1. /\ UNCHANGED <<setup, result, builder, dispatcher, node, coordinator>>
      /\ main \in {"create", "create again"} /\ main' = "asking" /\ alive' = {Orchestrator}
      /\ net' = Posted(net, Main, To(Orchestrator, "Setup"))
  BY DEF AskSetup, actorVars
<1>2. NetOK(net) /\ "Setup" \in Messages
  <2>1. NetOK(net)
    BY DEF Core, TypeOK, NetOK
  <2> QED
    BY <2>1 DEF Messages
<1>3. Mail(gone, new)
  BY <1>1, <1>2, SendsTo
<1>4. \A c, m : <<c, m>> \in new <=> c = <<Main, Orchestrator>> /\ m = "Setup"
  OBVIOUS
<1> HIDE DEF gone, new
<1>5. Works("begin") /\ ~Works("begin")'
  BY <1>1 DEF Works, Begins
<1>6. "begin" \in Stages \ HandOvers /\ "Setup" \in Stages /\ "Setup" \in HandOvers /\ "begin" # "Setup"
  BY DEF HandOvers, Stages, ToPublish
<1>7. Reached("begin")
  BY <1>5, <1>6 DEF Reached
<1>8. Fits("begin")
  BY <1>6, <1>7 DEF Core, StageInv, StageFits
<1>9. Fits("Setup")' /\ StartedFirst'
  BY <1>1, <1>8 DEF Fits, ToEnd, StartedFirst
<1>10. StageInv' /\ Moves("begin", "Setup")
  <2>1. \A s \in HandOvers : <<Way(s), s>> \in new => s = "Setup"
    BY <1>4
  <2>2. \A s \in Stages \ HandOvers : Works(s)' => Works(s) \/ s = "Setup"
    BY <1>1 DEF Works, Begins
  <2>3. \A c \in Channels, m \in SentOnce : <<c, m>> \in new =>
           ("Setup" \in HandOvers /\ c = Way("Setup") /\ m = "Setup") \/ ~Has(net[c], m)
    BY <1>4, <1>6, WayOf
  <2>4. IF "begin" \in HandOvers THEN <<Way("begin"), "begin">> \in gone \ new ELSE Works("begin") /\ ~Works("begin")'
    BY <1>5, <1>6
  <2>5. StageInv
    BY DEF Core
  <2> QED
    BY <1>3, <1>6, <1>9, <2>1, <2>2, <2>3, <2>4, <2>5, HandsOn
<1>11. HostInv'
  <2>1. builder.status = "none"
    BY <1>8 DEF Fits
  <2>2. \A c \in Channels, m \in Messages : <<c, m>> \in new =>
           m \notin HostMessages /\ (c = <<Builder, Dispatcher>> => m # "StartEngine")
    BY <1>4 DEF HostMessages
  <2> QED
    BY <1>1, <1>3, <2>1, <2>2, HostsStay DEF Core
<1>12. ExitsInOrder'
  <2>1. \A c : <<c, "ActorExitRequest">> \notin new
    BY <1>4
  <2>2. /\ ~Exit(Orchestrator, Builder) /\ ~Exit(Builder, Dispatcher)
        /\ \A h \in Hosts : ~Exit(Dispatcher, h) /\ (Exit(Builder, h) => builder.status = "cluster_stopped")
    BY <1>7 DEF Core, ExitsInOrder
  <2>3. ~Exit(Orchestrator, Builder)' /\ ~Exit(Builder, Dispatcher)'
    BY <1>3, <2>1, <2>2, NoNewExits, Ways
  <2>4. ASSUME NEW h \in Hosts PROVE ~Exit(Dispatcher, h)' /\ (Exit(Builder, h)' => builder'.status = "cluster_stopped")
    BY <1>1, <1>3, <2>1, <2>2, NoNewExits, Ways
  <2>5. ~Reached("begin")'
    BY <1>5, <1>6 DEF Reached
  <2> QED
    BY <1>1, <2>3, <2>4, <2>5 DEF ExitsInOrder
<1> QED
  BY <1>10, <1>11, <1>12 DEF CoreKept

-----------------------------------------------------------------------------
(* Steps that concern the hosts *)

\* A step does not concern host h.
Unseen(h) ==
    /\ (Asked' => Asked) /\ (Waits(h)' => Waits(h)) /\ (Told(h)' => Told(h)) /\ (Answers(h)' => Answers(h))
    /\ (ToldToStop(h)' => ToldToStop(h)) /\ (AnswersStop(h)' => AnswersStop(h))
    /\ node'[h] = node[h] /\ (h \in ActualChildren' <=> h \in ActualChildren)
    /\ Kept(h)' => Kept(h)

\* What does not concern a host keeps what is known of it.
LEMMA UnseenKept ==
    ASSUME NEW h \in Hosts, HostStarts(h), HostStops(h), HostKeeps(h), Unseen(h),
           builder'.status = builder.status, setup' = setup
    PROVE  HostStarts(h)' /\ HostStops(h)' /\ HostKeeps(h)'
<1>1. HostStarts(h)'
  BY DEF HostStarts, Unseen
<1>2. HostStops(h)'
  BY DEF HostStops, Unseen
<1>3. HostKeeps(h)'
  BY DEF HostKeeps, Unseen
<1> QED
  BY <1>1, <1>2, <1>3

\* The number of stopped hosts
LEMMA StoppedNumber ==
    /\ IsFiniteSet(StoppedHosts) /\ Cardinality(StoppedHosts) \in Nat
    /\ IsFiniteSet(StoppedHosts') /\ Cardinality(StoppedHosts') \in Nat
    /\ \A S : S \subseteq StoppedHosts' => IsFiniteSet(S) /\ Cardinality(S) <= Cardinality(StoppedHosts')
<1>1. IsFiniteSet(StoppedHosts) /\ IsFiniteSet(StoppedHosts')
  BY HostsAssumption, FS_Subset DEF StoppedHosts
<1> QED
  BY <1>1, FS_Subset, FS_CardinalityType

\* The builder's account does not change, nor does a stopped host come back.
LEMMA CountsStay ==
    ASSUME TypeOK, Counts, UNCHANGED <<setup, builder>>,
           builder.status = "cluster_stopping" => StoppedHosts \subseteq StoppedHosts'
    PROVE  Counts'
<1>1. ActualChildren' = ActualChildren
  BY SameChildren
<1>2. builder' = builder /\ setup' = setup /\ builder.responses \in Nat
  BY DEF TypeOK
<1>3. builder.status = "cluster_stopping" => builder.responses <= Cardinality(StoppedHosts)
  BY DEF Counts
<1>4. builder.status = "cluster_stopping" => Cardinality(StoppedHosts) <= Cardinality(StoppedHosts')
  BY StoppedNumber
<1>6. builder.status = "cluster_stopping" => builder.responses <= Cardinality(StoppedHosts)'
  BY <1>2, <1>3, <1>4, StoppedNumber
<1> QED
  BY <1>1, <1>2, <1>6 DEF Counts

\* One host works on the nodes: the others do not notice.
LEMMA OneHost ==
    ASSUME Core, NEW h \in Hosts, NEW gone, NEW new, Mail(gone, new),
           \A c, m : <<c, m>> \in new => m \in Idle \/ (c = <<h, Builder>> /\ m \in HostMessages),
           UNCHANGED <<setup, builder, dispatcher>>, alive' \subseteq alive,
           \A x \in Hosts \ {h} : node'[x] = node[x]
    PROVE  /\ \A x \in Hosts \ {h} : HostStarts(x)' /\ HostStops(x)' /\ HostKeeps(x)'
           /\ Asked' => Asked
           /\ Waits(h)' => Waits(h)
           /\ ActualChildren' = ActualChildren
           /\ Kept(h)' => Kept(h)
<1>1. ActualChildren' = ActualChildren
  BY SameChildren
<1>2. Idle \intersect HostMessages = {} /\ "StartEngine" \notin Idle \union HostMessages
  BY DEF Idle, HostMessages
<1>3. <<<<Builder, Dispatcher>>, "StartEngine">> \notin new
  BY <1>2
<1>4. Asked' => Asked
  BY <1>3, HostMail
<1>5. ASSUME NEW x \in Hosts \ {h} PROVE Unseen(x)
  <2>1. x # Builder /\ x # h
    BY Ways
  <2>2. /\ <<<<Dispatcher, x>>, "StartNodes">> \notin new /\ <<<<x, Builder>>, "NodesStarted">> \notin new
        /\ <<<<Builder, x>>, "StopNodes">> \notin new /\ <<<<x, Builder>>, "NodesStopped">> \notin new
    BY <2>1, <1>2 DEF HostMessages
  <2>3. /\ (Told(x)' => Told(x)) /\ (Answers(x)' => Answers(x))
        /\ (ToldToStop(x)' => ToldToStop(x)) /\ (AnswersStop(x)' => AnswersStop(x))
    BY <2>2, HostMail
  <2>4. (Waits(x)' => Waits(x)) /\ (Kept(x)' => Kept(x))
    BY DEF Waits, Kept
  <2> QED
    BY <1>1, <1>4, <2>3, <2>4 DEF Unseen
<1>6. ASSUME NEW x \in Hosts \ {h} PROVE HostStarts(x)' /\ HostStops(x)' /\ HostKeeps(x)'
  <2>1. HostStarts(x) /\ HostStops(x) /\ HostKeeps(x)
    BY DEF Core, HostInv
  <2> QED
    BY <1>5, <2>1, UnseenKept
<1>7. (Waits(h)' => Waits(h)) /\ (Kept(h)' => Kept(h))
  BY DEF Waits, Kept
<1> QED
  BY <1>1, <1>4, <1>6, <1>7

\* The work of one host leaves the run where it is.
LEMMA OneHostStage ==
    ASSUME Core, NEW h \in Hosts, NEW gone, NEW new, Mail(gone, new),
           \A c, m : <<c, m>> \in new => m \in Idle \/ (c = <<h, Builder>> /\ m \in HostMessages /\ ~Has(net[c], m)),
           UNCHANGED <<setup, main, result, builder, coordinator>>, alive' \subseteq alive
    PROVE  StageInv' /\ ExitsInOrder' /\ Stays
<1>1. /\ Idle \intersect SentOnce = {} /\ Idle \intersect HandOvers = {} /\ HostMessages \intersect HandOvers = {}
      /\ "ActorExitRequest" \notin Idle \union HostMessages
  BY DEF Idle, SentOnce, HandOvers, HostMessages
<1>2. \A c \in Channels, m \in SentOnce : <<c, m>> \in new => ~Has(net[c], m)
  BY <1>1
<1>3. \A s \in HandOvers : <<Way(s), s>> \notin new
  BY <1>1
<1>4. StageInv' /\ Stays
  <2>1. StageInv /\ (Begins' => Begins)
    BY DEF Core, Begins
  <2> QED
    BY <1>2, <1>3, <2>1, StageStays
<1>5. (Reached("begin")' => Reached("begin")) /\ (Reached("Setup")' => Reached("Setup"))
  BY <1>4 DEF Stays, Stages, ToPublish
<1>6. \A c : <<c, "ActorExitRequest">> \notin new
  BY <1>1
<1>7. ExitsInOrder'
  BY <1>5, <1>6, ExitsStay DEF Core
<1> QED
  BY <1>4, <1>7

\* A node builder starts its nodes, or fails to.
LEMMA StartNodesStep ==
    ASSUME Core, NEW h \in Hosts, StartNodes(h)
    PROVE  CoreKept /\ Stays
<1>0. NetOK(net) /\ <<Dispatcher, h>> \in Channels
  <2>1. NetOK(net)
    BY DEF Core, TypeOK, NetOK
  <2> QED
    BY <2>1, Ways
<1>1. UNCHANGED <<setup, main, result, builder, dispatcher, coordinator, alive>>
  BY DEF StartNodes, nodeOnly, mainVars
<1>2. ASSUME NEW new, Mail({<<<<Dispatcher, h>>, "StartNodes">>}, new),
             \A c, m : <<c, m>> \in new => m \in Idle \/ (c = <<h, Builder>> /\ m = "NodesStarted"),
             \A x \in Hosts \ {h} : node'[x] = node[x],
             <<<<h, Builder>>, "NodesStarted">> \in new => node'[h].builder /\ node'[h].nodes /\ node'[h].up
      PROVE  CoreKept /\ Stays
  <2> DEFINE gone == {<<<<Dispatcher, h>>, "StartNodes">>}
  <2>1. <<<<Dispatcher, h>>, "StartNodes">> \in gone
    OBVIOUS
  <2> HIDE DEF gone
  <2>2. Mail(gone, new)
    BY <1>2 DEF gone
  <2>3. "StartNodes" \notin Idle /\ "StopNodes" \notin Idle /\ "NodesStopped" \notin Idle
    BY DEF Idle
  <2>4. <<<<Dispatcher, h>>, "StartNodes">> \in gone \ new
    BY <1>2, <2>1, <2>3
  <2>5. NothingTwice /\ HostStarts(h) /\ HostStops(h) /\ HostKeeps(h) /\ Counts
    BY DEF Core, StageInv, HostInv
  <2>6. Told(h) /\ ~Told(h)'
    BY <2>2, <2>4, <2>5, HostMail
  <2>7. builder.status = "starting" /\ ~Waits(h) /\ ~Asked /\ ~Answers(h) /\ h \notin ActualChildren /\ ~setup.external
    BY <2>5, <2>6 DEF HostStarts, Counts
  <2>8. ~ToldToStop(h)' /\ ~AnswersStop(h)'
    <3>1. ~ToldToStop(h) /\ ~AnswersStop(h)
      BY <2>5, <2>7 DEF HostStops
    <3>2. <<<<Builder, h>>, "StopNodes">> \notin new /\ <<<<h, Builder>>, "NodesStopped">> \notin new
      BY <1>2, <2>3
    <3> QED
      BY <2>2, <3>1, <3>2, HostMail
  <2>9. \A c, m : <<c, m>> \in new => m \in Idle \/ (c = <<h, Builder>> /\ m \in HostMessages /\ ~Has(net[c], m))
    BY <1>2, <2>7 DEF Answers, HostMessages
  <2>10. StageInv' /\ ExitsInOrder' /\ Stays
    BY <1>1, <2>2, <2>9, OneHostStage
  <2>11. /\ \A x \in Hosts \ {h} : HostStarts(x)' /\ HostStops(x)' /\ HostKeeps(x)'
         /\ (Asked' => Asked) /\ (Waits(h)' => Waits(h)) /\ ActualChildren' = ActualChildren
    BY <1>1, <1>2, <2>2, <2>9, OneHost
  <2>12. HostStarts(h)'
    BY <1>1, <2>6, <2>7, <2>11 DEF HostStarts
  <2>13. HostStops(h)'
    BY <1>1, <2>7, <2>8 DEF HostStops
  <2>14. Answers(h)' => <<<<h, Builder>>, "NodesStarted">> \in new
    BY <2>2, <2>7, HostMail
  <2>15. HostKeeps(h)'
    BY <1>1, <1>2, <2>7, <2>8, <2>11, <2>14 DEF HostKeeps
  <2>16. Counts'
    BY <1>1, <2>5, <2>7, CountsStay DEF Core
  <2> QED
    BY <2>10, <2>11, <2>12, <2>13, <2>15, <2>16 DEF CoreKept, HostInv
<1>3. CASE /\ Handles(Dispatcher, h, "StartNodes", To(Builder, "NodesStarted"))
           /\ node' = [node EXCEPT ![h].builder = TRUE, ![h].nodes = TRUE, ![h].up = TRUE]
  <2> DEFINE new == {<<<<h, Builder>>, "NodesStarted">>}
  <2>1. Mail({<<<<Dispatcher, h>>, "StartNodes">>}, new)
    BY <1>0, <1>3, HandlesTo DEF Messages
  <2>2. \A c, m : <<c, m>> \in new => m \in Idle \/ (c = <<h, Builder>> /\ m = "NodesStarted")
    OBVIOUS
  <2>3. \A x \in Hosts \ {h} : node'[x] = node[x]
    BY <1>3 DEF Core, TypeOK
  <2>4. node'[h].builder /\ node'[h].nodes /\ node'[h].up
    BY <1>3 DEF Core, TypeOK
  <2> HIDE DEF new
  <2> QED
    BY <1>2, <2>1, <2>2, <2>3, <2>4
<1>4. CASE /\ Handles(Dispatcher, h, "StartNodes", To(Builder, "BenchmarkFailure"))
           /\ \E created \in BOOLEAN : \E up \in {FALSE, created} :
                node' = [node EXCEPT ![h].builder = created, ![h].up = up, ![h].failed = TRUE]
  <2> DEFINE new == {<<<<h, Builder>>, "BenchmarkFailure">>}
  <2>1. Mail({<<<<Dispatcher, h>>, "StartNodes">>}, new)
    BY <1>0, <1>4, HandlesTo DEF Messages
  <2>2. \A c, m : <<c, m>> \in new => m \in Idle \/ (c = <<h, Builder>> /\ m = "NodesStarted")
    BY DEF Idle
  <2>3. \A x \in Hosts \ {h} : node'[x] = node[x]
    BY <1>4 DEF Core, TypeOK
  <2>4. <<<<h, Builder>>, "NodesStarted">> \notin new
    OBVIOUS
  <2> HIDE DEF new
  <2> QED
    BY <1>2, <2>1, <2>2, <2>3, <2>4
<1> QED
  BY <1>3, <1>4 DEF StartNodes

\* Stopping leaves no node running that the launcher knows of, and starts none.
LEMMA StoppedEntry ==
    ASSUME NEW n \in [builder : BOOLEAN, nodes : BOOLEAN, up : BOOLEAN, failed : BOOLEAN]
    PROVE  /\ Stopped(n) \in [builder : BOOLEAN, nodes : BOOLEAN, up : BOOLEAN, failed : BOOLEAN]
           /\ (Stopped(n).up => n.up) /\ (n.nodes => ~Stopped(n).up)
           /\ \A up \in {FALSE, n.up} :
                 /\ StopRaised(n, up) \in [builder : BOOLEAN, nodes : BOOLEAN, up : BOOLEAN, failed : BOOLEAN]
                 /\ StopRaised(n, up).up => n.up
<1>1. /\ Stopped(n) \in [builder : BOOLEAN, nodes : BOOLEAN, up : BOOLEAN, failed : BOOLEAN]
      /\ (Stopped(n).up => n.up) /\ (n.nodes => ~Stopped(n).up)
  BY Zenon DEF Stopped
<1>2. ASSUME NEW up \in {FALSE, n.up}
      PROVE  /\ StopRaised(n, up) \in [builder : BOOLEAN, nodes : BOOLEAN, up : BOOLEAN, failed : BOOLEAN]
             /\ StopRaised(n, up).up => n.up
  <2>1. up \in BOOLEAN /\ (up => n.up)
    OBVIOUS
  <2> QED
    BY <2>1, Zenon DEF StopRaised
<1> QED
  BY <1>1, <1>2

\* A node builder stops its nodes, or fails to.
LEMMA StopNodesStep ==
    ASSUME Core, NEW h \in Hosts, StopNodes(h)
    PROVE  CoreKept /\ Stays
<1>0. NetOK(net) /\ <<Builder, h>> \in Channels
  <2>1. NetOK(net)
    BY DEF Core, TypeOK, NetOK
  <2> QED
    BY <2>1, Ways
<1>1. UNCHANGED <<setup, main, result, builder, dispatcher, coordinator, alive>>
  BY DEF StopNodes, nodeOnly, mainVars
<1>2. ASSUME NEW new, Mail({<<<<Builder, h>>, "StopNodes">>}, new),
             \A c, m : <<c, m>> \in new => m \in Idle \/ (c = <<h, Builder>> /\ m = "NodesStopped"),
             \A x \in Hosts \ {h} : node'[x] = node[x], h \in alive,
             <<<<h, Builder>>, "NodesStopped">> \in new => (node[h].nodes => ~node'[h].up)
      PROVE  CoreKept /\ Stays
  <2> DEFINE gone == {<<<<Builder, h>>, "StopNodes">>}
  <2>1. <<<<Builder, h>>, "StopNodes">> \in gone
    OBVIOUS
  <2> HIDE DEF gone
  <2>2. Mail(gone, new)
    BY <1>2 DEF gone
  <2>3. Idle \intersect HostMessages = {} /\ "StartNodes" \notin Idle /\ "StopNodes" \notin Idle
        /\ "NodesStarted" \notin Idle /\ "NodesStopped" \notin Idle
    BY DEF Idle, HostMessages
  <2>4. <<<<Builder, h>>, "StopNodes">> \in gone \ new
    BY <1>2, <2>1, <2>3
  <2>5. NothingTwice /\ HostStarts(h) /\ HostStops(h) /\ HostKeeps(h) /\ Counts
    BY DEF Core, StageInv, HostInv
  <2>6. ToldToStop(h) /\ ~ToldToStop(h)'
    BY <2>2, <2>4, <2>5, HostMail
  <2>7. builder.status = "cluster_stopping" /\ ~AnswersStop(h) /\ ~setup.external /\ node[h].nodes
    BY <1>2, <2>5, <2>6 DEF HostStops, Counts, HostKeeps, Kept
  <2>8. ~Asked /\ ~Waits(h) /\ ~Told(h) /\ ~Answers(h)
    BY <2>5, <2>7 DEF HostStarts
  <2>9. ~Told(h)' /\ ~Answers(h)'
    <3>1. <<<<Dispatcher, h>>, "StartNodes">> \notin new /\ <<<<h, Builder>>, "NodesStarted">> \notin new
      BY <1>2, <2>3
    <3> QED
      BY <2>2, <2>8, <3>1, HostMail
  <2>10. \A c, m : <<c, m>> \in new => m \in Idle \/ (c = <<h, Builder>> /\ m \in HostMessages /\ ~Has(net[c], m))
    BY <1>2, <2>7 DEF AnswersStop, HostMessages
  <2>11. StageInv' /\ ExitsInOrder' /\ Stays
    BY <1>1, <2>2, <2>10, OneHostStage
  <2>12. /\ \A x \in Hosts \ {h} : HostStarts(x)' /\ HostStops(x)' /\ HostKeeps(x)'
         /\ (Asked' => Asked) /\ (Waits(h)' => Waits(h)) /\ ActualChildren' = ActualChildren
    BY <1>1, <1>2, <2>2, <2>10, OneHost
  <2>13. HostStarts(h)'
    BY <2>8, <2>9, <2>12 DEF HostStarts
  <2>14. AnswersStop(h)' => <<<<h, Builder>>, "NodesStopped">> \in new
    BY <2>2, <2>7, HostMail
  <2>15. HostStops(h)'
    BY <1>1, <1>2, <2>6, <2>7, <2>14 DEF HostStops
  <2>16. HostKeeps(h)'
    BY <1>1, <2>6, <2>7, <2>9 DEF HostKeeps
  <2>17. StoppedHosts \subseteq StoppedHosts'
    <3>1. ASSUME NEW x \in StoppedHosts PROVE x \in StoppedHosts'
      <4>1. x \in Hosts \ {h} /\ ~ToldToStop(x) /\ ~AnswersStop(x) /\ ~node[x].up
        BY <2>6 DEF StoppedHosts
      <4>2. <<<<Builder, x>>, "StopNodes">> \notin new /\ <<<<x, Builder>>, "NodesStopped">> \notin new
        BY <1>2, <2>3, <4>1
      <4>3. ~ToldToStop(x)' /\ ~AnswersStop(x)'
        BY <2>2, <4>1, <4>2, HostMail
      <4> QED
        BY <1>2, <4>1, <4>3 DEF StoppedHosts
    <3> QED
      BY <3>1
  <2>18. Counts'
    BY <1>1, <2>5, <2>17, CountsStay DEF Core
  <2> QED
    BY <2>11, <2>12, <2>13, <2>15, <2>16, <2>18 DEF CoreKept, HostInv
<1>3. CASE Handles(Builder, h, "StopNodes", To(Builder, "NodesStopped")) /\ node' = [node EXCEPT ![h] = Stopped(@)]
  <2> DEFINE new == {<<<<h, Builder>>, "NodesStopped">>}
  <2>1. Mail({<<<<Builder, h>>, "StopNodes">>}, new) /\ h \in alive
    BY <1>0, <1>3, HandlesTo DEF Messages
  <2>2. \A c, m : <<c, m>> \in new => m \in Idle \/ (c = <<h, Builder>> /\ m = "NodesStopped")
    OBVIOUS
  <2>3. node'[h] = Stopped(node[h]) /\ \A x \in Hosts \ {h} : node'[x] = node[x]
    BY <1>3 DEF Core, TypeOK
  <2>4. node[h].nodes => ~node'[h].up
    <3>1. node[h] \in [builder : BOOLEAN, nodes : BOOLEAN, up : BOOLEAN, failed : BOOLEAN]
      BY DEF Core, TypeOK
    <3>2. node[h].nodes => ~Stopped(node[h]).up
      BY <3>1, StoppedEntry
    <3> QED
      BY <2>3, <3>2
  <2> HIDE DEF new
  <2> QED
    BY <1>2, <2>1, <2>2, <2>3, <2>4
<1>4. CASE /\ Handles(Builder, h, "StopNodes", To(Builder, "BenchmarkFailure"))
           /\ \E up \in {FALSE, node[h].up} : node' = [node EXCEPT ![h] = StopRaised(@, up)]
  <2> DEFINE new == {<<<<h, Builder>>, "BenchmarkFailure">>}
  <2>1. Mail({<<<<Builder, h>>, "StopNodes">>}, new) /\ h \in alive
    BY <1>0, <1>4, HandlesTo DEF Messages
  <2>2. \A c, m : <<c, m>> \in new => m \in Idle \/ (c = <<h, Builder>> /\ m = "NodesStopped")
    BY DEF Idle
  <2>3. \A x \in Hosts \ {h} : node'[x] = node[x]
    BY <1>4 DEF Core, TypeOK
  <2>4. <<<<h, Builder>>, "NodesStopped">> \notin new
    OBVIOUS
  <2> HIDE DEF new
  <2> QED
    BY <1>2, <2>1, <2>2, <2>3, <2>4
<1> QED
  BY <1>3, <1>4 DEF StopNodes

\* Several messages for one receiver, none of which hands anything on
LEMMA IdleSeveral ==
    ASSUME NetOK(net), NEW src, NEW me, <<src, me>> \in Channels, NEW msg, NEW out, Handles(src, me, msg, out),
           \A a \in DOMAIN out : out[a] \in Seq(Messages) /\ \A m \in Messages : Has(out[a], m) => m \in Idle
    PROVE  Mail({}, Channels \X Idle)
<1> DEFINE q == Popped(src, me)
<1>1. net[<<src, me>>] # <<>> /\ net' = Posted(q, me, out)
  BY DEF Handles, Pending
<1>2. /\ NetOK(q) /\ q[<<src, me>>] = Tail(net[<<src, me>>])
      /\ \A c \in Channels : c # <<src, me>> => q[c] = net[c]
  BY <1>1, PoppedFrom
<1>3. \A x : /\ Has(q[<<src, me>>], x) => Has(net[<<src, me>>], x)
             /\ Once(net[<<src, me>>], x) => Once(q[<<src, me>>], x)
  <2>1. net[<<src, me>>] \in Seq(Messages)
    BY DEF NetOK
  <2> QED
    BY <1>1, <1>2, <2>1, Handling
<1>4. \A c \in Channels, x \in Messages : /\ Has(q[c], x) => Has(net[c], x)
                                          /\ Once(net[c], x) => Once(q[c], x)
  BY <1>2, <1>3
<1> HIDE DEF q
<1>5. NetOK(net')
  <2>1. \A a \in DOMAIN out : out[a] \in Seq(Messages)
    OBVIOUS
  <2> QED
    BY <1>1, <1>2, <2>1, PostedTo
<1>6. ASSUME NEW c \in Channels
      PROVE  /\ c[1] = me /\ c[2] \in DOMAIN out => net'[c] = q[c] \o out[c[2]]
             /\ ~(c[1] = me /\ c[2] \in DOMAIN out) => net'[c] = q[c]
  BY <1>1 DEF Posted
<1>7. ASSUME NEW c \in Channels, NEW m \in Messages
      PROVE  /\ Has(net'[c], m) => Has(q[c], m) \/ m \in Idle
             /\ m \in SentOnce /\ Once(q[c], m) => Once(net'[c], m)
  <2>1. CASE c[1] = me /\ c[2] \in DOMAIN out
    <3>1. /\ net'[c] = q[c] \o out[c[2]] /\ out[c[2]] \in Seq(Messages) /\ q[c] \in Seq(Messages)
          /\ Has(out[c[2]], m) => m \in Idle
      BY <1>2, <1>6, <2>1 DEF NetOK
    <3>2. m \in SentOnce => m \notin Idle
      BY DEF SentOnce, HandOvers, Idle
    <3> QED
      BY <3>1, <3>2, Joining
  <2>2. CASE ~(c[1] = me /\ c[2] \in DOMAIN out)
    BY <1>6, <2>2
  <2> QED
    BY <2>1, <2>2
<1>8. ASSUME NEW c \in Channels, NEW m \in Messages
      PROVE  /\ Has(net'[c], m) => Has(net[c], m) \/ <<c, m>> \in Channels \X Idle
             /\ m \in SentOnce /\ Once(net[c], m) => Once(net'[c], m)
  BY <1>4, <1>7
<1> QED
  BY <1>5, <1>8 DEF Mail

\* Who handles a request to exit has been sent it.
LEMMA TakesExit ==
    ASSUME NetOK(net), NEW src, NEW me, <<src, me>> \in Channels, NEW out, Handles(src, me, "ActorExitRequest", out)
    PROVE  Exit(src, me) /\ me \in alive
<1>1. net[<<src, me>>] \in Seq(Messages) /\ net[<<src, me>>] # <<>> /\ Head(net[<<src, me>>]) = "ActorExitRequest"
  BY DEF NetOK, Handles, Pending
<1> QED
  BY <1>1, Handling DEF Exit, Handles

\* A node builder that exits stops its nodes; the builder has answered or is gone.
LEMMA NodeExitsStep ==
    ASSUME Core, NEW h \in Hosts, NEW src \in {Builder, Dispatcher}, NodeExits(src, h)
    PROVE  CoreKept /\ Stays
<1> DEFINE new == Channels \X Idle
<1>0. NetOK(net) /\ <<src, h>> \in Channels /\ <<h, src>> \in Channels /\ <<h, Dispatcher>> \in Channels
  <2>1. NetOK(net)
    BY DEF Core, TypeOK, NetOK
  <2> QED
    BY <2>1, Ways
<1>1. UNCHANGED <<setup, main, result, builder, dispatcher, coordinator>> /\ alive' = alive \ {h}
  BY DEF NodeExits, nodeOnly, mainVars
<1>2. Mail({}, new) /\ Exit(src, h)
  <2>1. CASE Handles(src, h, "ActorExitRequest", To(Dispatcher, "ChildActorExited"))
    <3> DEFINE out == To(Dispatcher, "ChildActorExited")
    <3>1. DOMAIN out = {Dispatcher} /\ out[Dispatcher] = <<"ChildActorExited">>
      BY DEF To
    <3> HIDE DEF out
    <3>2. out[Dispatcher] \in Seq(Messages) /\ \A m \in Messages : Has(out[Dispatcher], m) => m \in Idle
      BY <3>1 DEF Messages, Idle, Has
    <3>3. Handles(src, h, "ActorExitRequest", out)
      BY <2>1 DEF out
    <3> QED
      BY <1>0, <3>1, <3>2, <3>3, IdleSeveral, TakesExit
  <2>2. CASE Handles(src, h, "ActorExitRequest",
                     [a \in {src, Dispatcher} |->
                         (IF a = src THEN <<"BenchmarkFailure">> ELSE <<>>)
                         \o (IF a = Dispatcher THEN <<"ChildActorExited">> ELSE <<>>)])
    <3> DEFINE out == [a \in {src, Dispatcher} |->
                         (IF a = src THEN <<"BenchmarkFailure">> ELSE <<>>)
                         \o (IF a = Dispatcher THEN <<"ChildActorExited">> ELSE <<>>)]
    <3>1. DOMAIN out = {src, Dispatcher}
      OBVIOUS
    <3>2. ASSUME NEW a \in {src, Dispatcher}
          PROVE  out[a] \in Seq(Messages) /\ \A m \in Messages : Has(out[a], m) => m \in Idle
      <4> DEFINE p == IF a = src THEN <<"BenchmarkFailure">> ELSE <<>>
                 r == IF a = Dispatcher THEN <<"ChildActorExited">> ELSE <<>>
      <4>1. out[a] = p \o r
        OBVIOUS
      <4>2. p \in Seq(Messages) /\ \A m : Has(p, m) => m \in Idle
        <5>1. CASE a = src
          <6>1. p = <<"BenchmarkFailure">>
            BY <5>1
          <6> HIDE DEF p
          <6> QED
            BY <6>1 DEF Messages, Idle, Has
        <5>2. CASE ~(a = src)
          <6>1. p = <<>>
            BY <5>2
          <6> HIDE DEF p
          <6> QED
            BY <6>1 DEF Has
        <5> QED
          BY <5>1, <5>2
      <4>3. r \in Seq(Messages) /\ \A m : Has(r, m) => m \in Idle
        <5>1. CASE a = Dispatcher
          <6>1. r = <<"ChildActorExited">>
            BY <5>1
          <6> HIDE DEF r
          <6> QED
            BY <6>1 DEF Messages, Idle, Has
        <5>2. CASE ~(a = Dispatcher)
          <6>1. r = <<>>
            BY <5>2
          <6> HIDE DEF r
          <6> QED
            BY <6>1 DEF Has
        <5> QED
          BY <5>1, <5>2
      <4> HIDE DEF p, r, out
      <4> QED
        BY <4>1, <4>2, <4>3, Joining
    <3>3. Handles(src, h, "ActorExitRequest", out)
      BY <2>2
    <3> HIDE DEF out
    <3> QED
      BY <1>0, <3>1, <3>2, <3>3, IdleSeveral, TakesExit
  <2> QED
    BY <2>1, <2>2 DEF NodeExits
<1>3. (\A x \in Hosts \ {h} : node'[x] = node[x]) /\ (node'[h].up => node[h].up)
  <2>1. /\ DOMAIN node = Hosts
        /\ node[h] \in [builder : BOOLEAN, nodes : BOOLEAN, up : BOOLEAN, failed : BOOLEAN]
    BY DEF Core, TypeOK
  <2>2. CASE node' = [node EXCEPT ![h] = IF @.builder THEN Stopped(@) ELSE @]
    <3>1. (\A x \in Hosts \ {h} : node'[x] = node[x]) /\ node'[h] \in {node[h], Stopped(node[h])}
      BY <2>1, <2>2
    <3> QED
      BY <2>1, <3>1, StoppedEntry
  <2>3. CASE \E up \in {FALSE, node[h].up} : node' = [node EXCEPT ![h] = StopRaised(@, up)]
    <3>1. PICK up \in {FALSE, node[h].up} : node' = [node EXCEPT ![h] = StopRaised(@, up)]
      BY <2>3
    <3>2. (\A x \in Hosts \ {h} : node'[x] = node[x]) /\ node'[h] = StopRaised(node[h], up)
      BY <2>1, <3>1
    <3> QED
      BY <2>1, <3>2, StoppedEntry
  <2> QED
    BY <2>2, <2>3 DEF NodeExits
<1>4. \A c, m : <<c, m>> \in new => m \in Idle
  OBVIOUS
<1> HIDE DEF new
<1>5. StageInv' /\ ExitsInOrder' /\ Stays
  BY <1>1, <1>2, <1>4, OneHostStage
<1>6. /\ \A x \in Hosts \ {h} : HostStarts(x)' /\ HostStops(x)' /\ HostKeeps(x)'
      /\ (Asked' => Asked) /\ (Waits(h)' => Waits(h)) /\ ActualChildren' = ActualChildren
  BY <1>1, <1>2, <1>3, <1>4, OneHost
<1>7. \A x \in Hosts : /\ (Told(x)' => Told(x)) /\ (Answers(x)' => Answers(x))
                       /\ (ToldToStop(x)' => ToldToStop(x)) /\ (AnswersStop(x)' => AnswersStop(x))
  <2>1. \A c : \A m \in HostMessages : <<c, m>> \notin new
    BY <1>4 DEF HostMessages, Idle
  <2>2. \A c : /\ <<c, "StartNodes">> \notin new /\ <<c, "NodesStarted">> \notin new
               /\ <<c, "StopNodes">> \notin new /\ <<c, "NodesStopped">> \notin new
    BY <2>1 DEF HostMessages
  <2> QED
    BY <1>2, <2>2, HostMail
<1>8. HostStarts(h) /\ HostStops(h) /\ HostKeeps(h) /\ Counts
  BY DEF Core, HostInv
<1>9. HostStarts(h)'
  BY <1>1, <1>6, <1>7, <1>8 DEF HostStarts
<1>10. HostStops(h)'
  BY <1>1, <1>3, <1>7, <1>8 DEF HostStops
<1>11. HostKeeps(h)'
  <2>1. CASE src = Dispatcher
    <3>1. Orchestrator \notin alive /\ Builder \notin alive
      BY <1>2, <2>1 DEF Core, ExitsInOrder
    <3>2. ~Kept(h)'
      BY <1>1, <3>1 DEF Kept
    <3> QED
      BY <1>1, <1>3, <1>8, <3>2 DEF HostKeeps
  <2>2. CASE src = Builder
    <3>1. builder.status = "cluster_stopped"
      BY <1>2, <2>2 DEF Core, ExitsInOrder
    <3>2. ~Answers(h)' /\ ~ToldToStop(h)'
      BY <1>7, <1>8, <3>1 DEF HostStarts, HostStops
    <3> QED
      BY <1>1, <1>3, <1>8, <3>1, <3>2 DEF HostKeeps
  <2> QED
    BY <2>1, <2>2
<1>12. StoppedHosts \subseteq StoppedHosts'
  BY <1>3, <1>7 DEF StoppedHosts
<1>13. Counts'
  BY <1>1, <1>8, <1>12, CountsStay DEF Core
<1> QED
  BY <1>5, <1>6, <1>9, <1>10, <1>11, <1>13 DEF CoreKept, HostInv

\* The dispatcher creates node builders and tells them to start.
LEMMA TellsHosts ==
    ASSUME Core, NEW gone, NEW new, Mail(gone, new), NEW S \in SUBSET Hosts,
           \A c, m : <<c, m>> \in new => \E x \in S : c = <<Dispatcher, x>> /\ m = "StartNodes",
           UNCHANGED <<setup, main, result, builder, node, coordinator>>, alive' \subseteq alive \union Hosts,
           builder.status = "starting", ~Asked',
           \A x \in Hosts : x \in alive' \ alive => ~Answers(x) /\ x \notin ActualChildren,
           \A x \in S : ~Told(x) /\ ~Waits(x)' /\ ~Answers(x) /\ x \notin ActualChildren,
           \A x \in Hosts : Waits(x)' => ~Told(x) /\ ~Answers(x) /\ x \notin ActualChildren
    PROVE  CoreKept /\ Stays
<1>1. ActualChildren' = ActualChildren
  BY SameChildren
<1>2. \A x \in Hosts : <<<<Dispatcher, x>>, "StartNodes">> \in new => x \in S
  OBVIOUS
<1>3. "StartNodes" \notin {"NodesStarted", "StopNodes", "NodesStopped", "StartEngine", "ActorExitRequest"} \union HandOvers
  BY DEF HandOvers
<1>4. ASSUME NEW x \in Hosts
      PROVE  /\ Told(x)' => Told(x) \/ x \in S
             /\ (Answers(x)' => Answers(x)) /\ (ToldToStop(x)' => ToldToStop(x)) /\ (AnswersStop(x)' => AnswersStop(x))
  <2>1. /\ <<<<x, Builder>>, "NodesStarted">> \notin new /\ <<<<Builder, x>>, "StopNodes">> \notin new
        /\ <<<<x, Builder>>, "NodesStopped">> \notin new
    BY <1>3
  <2> QED
    BY <1>2, <2>1, HostMail
<1>5. ASSUME NEW x \in Hosts PROVE HostStarts(x)' /\ HostStops(x)' /\ HostKeeps(x)'
  <2>1. HostStarts(x) /\ HostStops(x) /\ HostKeeps(x)
    BY DEF Core, HostInv
  <2>2. HostStarts(x)'
    BY <1>1, <1>4, <2>1 DEF HostStarts
  <2>3. HostStops(x)'
    BY <1>4, <2>1 DEF HostStops
  <2>4. ~ToldToStop(x)'
    BY <1>4, <2>1 DEF HostStops
  <2>5. Kept(x)' => Kept(x) \/ x \in alive' \ alive
    BY Ways DEF Kept
  <2>6. HostKeeps(x)'
    BY <1>1, <1>4, <2>1, <2>4, <2>5 DEF HostKeeps
  <2> QED
    BY <2>2, <2>3, <2>6
<1>6. Counts'
  BY CountsStay DEF Core, HostInv
<1>7. StageInv' /\ Stays
  <2>1. \A c \in Channels, m \in SentOnce : <<c, m>> \in new => ~Has(net[c], m)
    BY DEF Told
  <2>2. \A s \in HandOvers : <<Way(s), s>> \notin new
    BY <1>3
  <2>3. StageInv /\ (Begins' => Begins)
    BY DEF Core, Begins
  <2> QED
    BY <2>1, <2>2, <2>3, StageStays
<1>8. ExitsInOrder'
  <2>1. \A c : <<c, "ActorExitRequest">> \notin new
    BY <1>3
  <2>2. "starting" \in Stages \ HandOvers /\ "begin" \in Stages /\ "Setup" \in Stages
        /\ "starting" # "begin" /\ "starting" # "Setup"
    BY DEF Stages, ToPublish, HandOvers
  <2>3. Reached("starting")
    BY <2>2 DEF Reached, Works
  <2>4. ~Reached("begin") /\ ~Reached("Setup")
    BY <2>2, <2>3 DEF Core, StageInv, OneStage
  <2>5. ~Reached("begin")' /\ ~Reached("Setup")'
    BY <1>7, <2>2, <2>4 DEF Stays
  <2>6. alive' \intersect {Orchestrator, Builder} \subseteq alive
    BY Ways
  <2> QED
    BY <2>1, <2>5, <2>6, ExitsStay DEF Core
<1> QED
  BY <1>5, <1>6, <1>7, <1>8 DEF CoreKept, HostInv

\* The dispatcher asks the hosts once.
LEMMA DispatchStep ==
    ASSUME Core, Dispatch, faults' = faults
    PROVE  CoreKept /\ Stays
<1> DEFINE S == IF Local = Hosts THEN Hosts ELSE {}
           gone == {<<<<Builder, Dispatcher>>, "StartEngine">>}
           new == {<<Dispatcher, x>> : x \in S} \X {"StartNodes"}
<1>1. /\ UNCHANGED <<setup, main, result, builder, node, coordinator>> /\ alive' = alive \union Local
      /\ dispatcher' = [pending |-> IF Local = Hosts THEN {} ELSE Local, remotes |-> Hosts \ Local]
      /\ Handles(Builder, Dispatcher, "StartEngine", ToAll(S, "StartNodes"))
  BY NoFaultCounted DEF Dispatch, dispatcherOnly, mainVars, Core
<1>2. NetOK(net) /\ <<Builder, Dispatcher>> \in Channels /\ "StartNodes" \in Messages
  <2>1. NetOK(net)
    BY DEF Core, TypeOK, NetOK
  <2> QED
    BY <2>1, Ways DEF Messages
<1>3. \A a \in S : <<<<Dispatcher, a>>, "StartNodes">> \in new
  OBVIOUS
<1>4. \A c, m : <<c, m>> \in new => \E x \in S : c = <<Dispatcher, x>> /\ m = "StartNodes"
  OBVIOUS
<1>5. <<<<Builder, Dispatcher>>, "StartEngine">> \in gone
  OBVIOUS
<1>6. \A x \in Hosts : Waits(x)' => Local # Hosts
  BY <1>1 DEF Waits
<1>7. S \subseteq Hosts /\ (S # {} => Local = Hosts)
  OBVIOUS
<1> HIDE DEF new, gone, S
<1>8. Mail(gone, new)
  BY <1>1, <1>2, <1>3, HandlesAll DEF gone
<1>9. <<<<Builder, Dispatcher>>, "StartEngine">> \in gone \ new
  BY <1>4, <1>5
<1>10. NothingTwice /\ \A x \in Hosts : HostStarts(x)
  BY DEF Core, StageInv, HostInv
<1>11. Asked /\ ~Asked'
  <2>1. PICK x : x \in Hosts
    BY HostsAssumption
  <2> QED
    BY <1>8, <1>9, <1>10, <2>1, HostMail
<1>12. \A x \in Hosts : builder.status = "starting" /\ ~Told(x) /\ ~Answers(x) /\ x \notin ActualChildren
  BY <1>10, <1>11 DEF HostStarts
<1>13. builder.status = "starting"
  BY <1>12, HostsAssumption
<1>14. \A x \in S : ~Told(x) /\ ~Waits(x)' /\ ~Answers(x) /\ x \notin ActualChildren
  BY <1>6, <1>7, <1>12
<1>15. alive' \subseteq alive \union Hosts
  BY <1>1, HostsAssumption
<1> QED
  BY <1>1, <1>4, <1>7, <1>8, <1>11, <1>12, <1>13, <1>14, <1>15, TellsHosts

\* The last of the remote hosts to join lets all of them start.
LEMMA RemoteJoinsStep ==
    ASSUME Core, NEW h \in Hosts, RemoteJoins(h)
    PROVE  CoreKept /\ Stays
<1> DEFINE last == dispatcher.remotes = {h}
           S == IF last THEN dispatcher.pending \union {h} ELSE {}
           new == {<<Dispatcher, x>> : x \in S} \X {"StartNodes"}
           gone == {}
           out == ToAll(S, "StartNodes")
<1>1. /\ UNCHANGED <<setup, main, result, builder, node, coordinator>> /\ alive' = alive \union {h}
      /\ dispatcher' = [remotes |-> dispatcher.remotes \ {h},
                        pending |-> IF last THEN {} ELSE dispatcher.pending \union {h}]
      /\ net' = Posted(net, Dispatcher, out) /\ h \in dispatcher.remotes
  BY DEF RemoteJoins, dispatcherOnly, mainVars
<1>2. NetOK(net) /\ "StartNodes" \in Messages
  <2>1. NetOK(net)
    BY DEF Core, TypeOK, NetOK
  <2> QED
    BY <2>1 DEF Messages
<1>3. dispatcher.pending \subseteq Hosts /\ dispatcher.remotes \subseteq Hosts
  BY DEF Core, TypeOK
<1>4. \A c, m : <<c, m>> \in new <=> \E x \in S : c = <<Dispatcher, x>> /\ m = "StartNodes"
  OBVIOUS
<1>5. DOMAIN out = S /\ \A a \in S : out[a] = <<"StartNodes">>
  BY DEF ToAll
<1>6. S \subseteq Hosts /\ \A x \in S : Waits(x) /\ ~Waits(x)'
  BY <1>1, <1>3 DEF Waits
<1>7. \A x \in Hosts : Waits(x)' => Waits(x)
  BY <1>1 DEF Waits
<1> HIDE DEF new, gone, out, S, last
<1>8. Mail(gone, new)
  <2>1. \A a \in DOMAIN out : \E m \in Messages : out[a] = <<m>>
    BY <1>2, <1>5
  <2>2. ASSUME NEW c \in Channels, NEW m \in Messages, c[1] = Dispatcher, c[2] \in DOMAIN out, out[c[2]] = <<m>>
        PROVE  <<c, m>> \in new
    BY <1>4, <1>5, <2>2, TwoEnds
  <2> QED
    BY <1>1, <1>2, <2>1, <2>2, MailPosted DEF gone
<1>9. \A x \in Hosts : HostStarts(x)
  BY DEF Core, HostInv
<1>10. Waits(h)
  BY <1>1 DEF Waits
<1>11. ~Asked /\ builder.status = "starting" /\ ~Answers(h) /\ h \notin ActualChildren
  BY <1>9, <1>10 DEF HostStarts
<1>12. ~Asked'
  <2>1. <<<<Builder, Dispatcher>>, "StartEngine">> \notin new
    BY <1>4
  <2> QED
    BY <1>8, <1>11, <2>1, HostMail
<1>13. \A x \in Hosts : Waits(x)' => ~Told(x) /\ ~Answers(x) /\ x \notin ActualChildren
  BY <1>7, <1>9 DEF HostStarts
<1>14. \A x \in S : ~Told(x) /\ ~Waits(x)' /\ ~Answers(x) /\ x \notin ActualChildren
  BY <1>6, <1>9 DEF HostStarts
<1>15. \A x \in Hosts : x \in alive' \ alive => ~Answers(x) /\ x \notin ActualChildren
  BY <1>1, <1>11
<1> QED
  BY <1>1, <1>4, <1>6, <1>8, <1>11, <1>12, <1>13, <1>14, <1>15, TellsHosts

-----------------------------------------------------------------------------
(* Actors that exit *)

\* An actor exits, and tells its children to.
LEMMA ExitsStep ==
    ASSUME Core, NEW me \in {Orchestrator, Builder, Dispatcher}, Exits(me)
    PROVE  CoreKept /\ Stays
<1> DEFINE out == [a \in ((ChildrenOf(me) \intersect alive) \union {ParentOf(me)}) \ {Main} |->
                     IF a = ParentOf(me) THEN <<"ChildActorExited">> ELSE <<"ActorExitRequest">>]
           gone == {<<<<ParentOf(me), me>>, "ActorExitRequest">>}
           new == {<<<<me, ParentOf(me)>>, "ChildActorExited">>}
                  \union ({<<me, a>> : a \in ChildrenOf(me) \intersect alive} \X {"ActorExitRequest"})
<1>1. /\ UNCHANGED <<setup, main, result, builder, dispatcher, node, coordinator>> /\ alive' = alive \ {me}
      /\ Handles(ParentOf(me), me, "ActorExitRequest", out)
  BY DEF Exits, mainVars, actorVars
<1>2. NetOK(net) /\ <<ParentOf(me), me>> \in Channels
  <2>1. NetOK(net)
    BY DEF Core, TypeOK, NetOK
  <2>2. me \in Actors
    BY DEF Actors
  <2> QED
    BY <2>1, <2>2, Family
<1>3. Exit(ParentOf(me), me) /\ me \in alive
  BY <1>1, <1>2, TakesExit
<1>4. \A a \in DOMAIN out : \E m \in Messages : out[a] = <<m>>
  BY DEF Messages
<1>5. ASSUME NEW c \in Channels, NEW m \in Messages, c[1] = me, c[2] \in DOMAIN out, out[c[2]] = <<m>>
      PROVE  <<c, m>> \in new
  <2>1. c = <<me, c[2]>>
    BY <1>5, TwoEnds
  <2>2. CASE c[2] = ParentOf(me)
    BY <1>5, <2>1, <2>2
  <2>3. CASE c[2] # ParentOf(me)
    <3>1. m = "ActorExitRequest" /\ c[2] \in ChildrenOf(me) \intersect alive
      BY <1>5, <2>3
    <3> QED
      BY <2>1, <3>1
  <2> QED
    BY <2>2, <2>3
<1>6. \A c, m : <<c, m>> \in new =>
         \/ m = "ChildActorExited"
         \/ m = "ActorExitRequest" /\ \E a \in ChildrenOf(me) \intersect alive : c = <<me, a>>
  OBVIOUS
<1> HIDE DEF out, new
<1>7. Mail(gone, new)
  BY <1>1, <1>2, <1>4, <1>5, MailHandled DEF Handles
<1> HIDE DEF gone
<1>8. StageInv' /\ Stays
  <2>1. \A c \in Channels, m \in SentOnce : <<c, m>> \notin new
    BY <1>6 DEF SentOnce, HandOvers
  <2>2. \A s \in HandOvers : <<Way(s), s>> \notin new
    BY <1>6 DEF HandOvers
  <2>3. StageInv /\ (Begins' => Begins)
    BY <1>1 DEF Core, Begins
  <2> QED
    BY <1>1, <1>7, <2>1, <2>2, <2>3, StageStays
<1>9. HostInv'
  <2>1. \A c \in Channels, m \in Messages : <<c, m>> \in new =>
           m \notin HostMessages /\ (c = <<Builder, Dispatcher>> => m # "StartEngine")
    BY <1>6 DEF HostMessages
  <2> QED
    BY <1>1, <1>7, <2>1, HostsStay DEF Core
<1>10. (Reached("begin")' => Reached("begin")) /\ (Reached("Setup")' => Reached("Setup"))
  BY <1>8 DEF Stays, Stages, ToPublish
<1>11. ASSUME NEW a, NEW b, <<a, b>> \in Channels, Exit(a, b)'
       PROVE  Exit(a, b) \/ (a = me /\ b \in ChildrenOf(me) \intersect alive)
  <2>1. <<<<a, b>>, "ActorExitRequest">> \notin new => Exit(a, b)
    BY <1>7, <1>11, NoNewExits
  <2>2. <<<<a, b>>, "ActorExitRequest">> \in new => a = me /\ b \in ChildrenOf(me) \intersect alive
    BY <1>6
  <2> QED
    BY <2>1, <2>2
<1>12. ~Reached("begin")
  BY <1>3 DEF Core, ExitsInOrder
<1>16. /\ Orchestrator # Builder /\ Orchestrator # Dispatcher /\ Builder # Dispatcher
       /\ \A h \in Hosts : <<Dispatcher, h>> \in Channels /\ <<Builder, h>> \in Channels
  BY Ways DEF Orchestrator, Builder, Dispatcher
<1>13. CASE me = Orchestrator
  <2>1. Exit(Orchestrator, Builder)' => Exit(Orchestrator, Builder) \/ Builder \in alive
    BY <1>11, Ways
  <2>2. (Exit(Builder, Dispatcher)' => Exit(Builder, Dispatcher))
    BY <1>11, <1>13, Ways DEF Orchestrator, Builder
  <2>3. \A h \in Hosts : (Exit(Dispatcher, h)' => Exit(Dispatcher, h)) /\ (Exit(Builder, h)' => Exit(Builder, h))
    BY <1>11, <1>13, <1>16
  <2>4. Reached("Setup")' => Builder \notin alive
    BY <1>10 DEF Core, ExitsInOrder, Orchestrator, Builder
  <2> QED
    BY <1>1, <1>8, <1>9, <1>10, <1>12, <1>13, <2>1, <2>2, <2>3, <2>4 DEF CoreKept, Core, ExitsInOrder
<1>14. CASE me = Builder
  <2>1. Orchestrator \notin alive /\ ~Reached("Setup")
    BY <1>3, <1>14, Family DEF Core, ExitsInOrder
  <2>2. Exit(Orchestrator, Builder)' => Exit(Orchestrator, Builder)
    BY <1>11, <1>14, Ways DEF Orchestrator, Builder
  <2>3. ChildrenOf(me) = {Dispatcher}
    BY <1>14, <1>16 DEF ChildrenOf
  <2>4. \A h \in Hosts : (Exit(Dispatcher, h)' => Exit(Dispatcher, h)) /\ (Exit(Builder, h)' => Exit(Builder, h))
    BY <1>11, <1>14, <1>16, <2>3, Ways
  <2> QED
    BY <1>1, <1>8, <1>9, <1>10, <1>12, <1>14, <2>1, <2>2, <2>4 DEF CoreKept, Core, ExitsInOrder
<1>15. CASE me = Dispatcher
  <2>1. Orchestrator \notin alive /\ Builder \notin alive /\ ~Reached("Setup")
    BY <1>3, <1>15, Family DEF Core, ExitsInOrder
  <2>2. (Exit(Orchestrator, Builder)' => Exit(Orchestrator, Builder)) /\ (Exit(Builder, Dispatcher)' => Exit(Builder, Dispatcher))
    BY <1>11, <1>15, Ways DEF Orchestrator, Builder, Dispatcher
  <2>3. \A h \in Hosts : Exit(Builder, h)' => Exit(Builder, h)
    BY <1>11, <1>15, <1>16
  <2> QED
    BY <1>1, <1>8, <1>9, <1>10, <1>12, <2>1, <2>2, <2>3 DEF CoreKept, Core, ExitsInOrder
<1> QED
  BY <1>13, <1>14, <1>15

-----------------------------------------------------------------------------
(* The builder starts and stops the cluster. *)

\* Hosts are asked while the cluster is starting, and stopped while it is stopping.
LEMMA Unconcerned ==
    ASSUME HostInv, NEW h \in Hosts
    PROVE  /\ builder.status # "starting" => ~Asked /\ ~Waits(h) /\ ~Told(h) /\ ~Answers(h)
           /\ builder.status # "cluster_stopping" => ~ToldToStop(h) /\ ~AnswersStop(h)
<1>1. HostStarts(h) /\ HostStops(h)
  BY DEF HostInv
<1>2. builder.status # "starting" => ~Asked /\ ~Waits(h) /\ ~Told(h) /\ ~Answers(h)
  BY <1>1 DEF HostStarts
<1>3. builder.status # "cluster_stopping" => ~ToldToStop(h) /\ ~AnswersStop(h)
  BY <1>1 DEF HostStops
<1> QED
  BY <1>2, <1>3

\* The builder hands the run on, and nobody is told to exit.
LEMMA BuilderMoves ==
    ASSUME Core, NEW gone, NEW new, Mail(gone, new), NEW old \in Stages, NEW next \in Stages \ {"begin", "Setup"},
           old # next,
           IF old \in HandOvers THEN <<Way(old), old>> \in gone ELSE Works(old) /\ ~Works(old)',
           \A c, m : <<c, m>> \in new =>
              \/ next \in HandOvers /\ c = Way(next) /\ m = next
              \/ m \notin HandOvers /\ m # "ActorExitRequest" /\ ~Has(net[c], m)
              \/ c = <<Builder, Dispatcher>> /\ m = "StartEngine" /\ ~Has(net[c], m)
              \/ m = "ActorExitRequest" /\ \E h \in Hosts : c = <<Builder, h>>,
           UNCHANGED <<setup, main, result, coordinator>>, Fits(next)', StartedFirst',
           builder'.status \in {"starting", "cluster_stopping"} => next = builder'.status,
           alive' \subseteq alive \union {Dispatcher}, builder.status # "cluster_stopped",
           (\E h \in Hosts : <<<<Builder, h>>, "ActorExitRequest">> \in new) => builder'.status = "cluster_stopped"
    PROVE  StageInv' /\ ExitsInOrder' /\ Moves(old, next)
<1>1. \A s \in Stages \ HandOvers : Works(s)' => Works(s) \/ s = next
  BY DEF Works, Begins
<1>2. Way("StartEngine") # <<Builder, Dispatcher>> /\ "ActorExitRequest" \notin SentOnce /\ HandOvers \subseteq SentOnce
  BY WayOf DEF Orchestrator, Builder, Dispatcher, SentOnce, HandOvers
<1>3. \A s \in HandOvers : <<Way(s), s>> \in new => s = next
  BY <1>2
<1>4. \A c \in Channels, m \in SentOnce :
         <<c, m>> \in new => (next \in HandOvers /\ c = Way(next) /\ m = next) \/ ~Has(net[c], m)
  BY <1>2
<1>5. IF old \in HandOvers THEN <<Way(old), old>> \in gone \ new ELSE Works(old) /\ ~Works(old)'
  BY <1>3
<1>6. StageInv' /\ Moves(old, next)
  <2>1. StageInv
    BY DEF Core
  <2> QED
    BY <1>1, <1>3, <1>4, <1>5, <2>1, HandsOn
<1>7. ~Reached("begin")' /\ ~Reached("Setup")'
  BY <1>6 DEF Moves, Stages, ToPublish
<1>8. /\ Builder # Orchestrator /\ Builder # Dispatcher /\ Dispatcher # Orchestrator
      /\ \A h \in Hosts : h # Dispatcher /\ <<Dispatcher, h>> \in Channels /\ <<Builder, h>> \in Channels
      /\ <<Orchestrator, Builder>> \in Channels /\ <<Builder, Dispatcher>> \in Channels
      /\ "ActorExitRequest" \notin HandOvers /\ "ActorExitRequest" # "StartEngine"
  BY Ways DEF Builder, Orchestrator, Dispatcher, HandOvers
<1>9. \A c : <<c, "ActorExitRequest">> \in new => \E h \in Hosts : c = <<Builder, h>>
  BY <1>8
<1>10. /\ (Exit(Orchestrator, Builder)' => Exit(Orchestrator, Builder))
       /\ (Exit(Builder, Dispatcher)' => Exit(Builder, Dispatcher))
       /\ \A h \in Hosts : Exit(Dispatcher, h)' => Exit(Dispatcher, h)
  BY <1>8, <1>9, NoNewExits
<1>11. \A h \in Hosts : Exit(Builder, h)' => builder'.status = "cluster_stopped"
  <2>1. ASSUME NEW h \in Hosts, <<<<Builder, h>>, "ActorExitRequest">> \notin new PROVE ~Exit(Builder, h)'
    <3>1. ~Exit(Builder, h)
      BY DEF Core, ExitsInOrder
    <3> QED
      BY <1>8, <2>1, <3>1, NoNewExits
  <2> QED
    BY <2>1
<1>12. ExitsInOrder'
  BY <1>7, <1>8, <1>10, <1>11 DEF Core, ExitsInOrder
<1> QED
  BY <1>6, <1>12

\* The builder has nothing to start.
LEMMA StartExternalStep ==
    ASSUME Core, StartEngine, setup.external, faults' = faults
    PROVE  CoreKept /\ Moves("StartEngine", "EngineStarted")
<1> DEFINE gone == {<<<<Orchestrator, Builder>>, "StartEngine">>}
           new == {<<<<Builder, Orchestrator>>, "EngineStarted">>}
<1>1. /\ UNCHANGED <<setup, main, result, dispatcher, node, coordinator, alive>>
      /\ Handles(Orchestrator, Builder, "StartEngine", To(Orchestrator, "EngineStarted"))
      /\ builder' = [builder EXCEPT !.status = "cluster_started"]
  BY NoFaultCounted DEF StartEngine, builderOnly, mainVars, Core
<1>2. NetOK(net) /\ <<Orchestrator, Builder>> \in Channels
  <2>1. NetOK(net)
    BY DEF Core, TypeOK, NetOK
  <2> QED
    BY <2>1, Ways
<1>3. Mail(gone, new)
  BY <1>1, <1>2, HandlesTo DEF Messages
<1>4. builder'.status = "cluster_started" /\ builder'.children = builder.children /\ builder'.responses = builder.responses
  BY <1>1 DEF Core, TypeOK
<1>5. \A c, m : <<c, m>> \in new <=> c = <<Builder, Orchestrator>> /\ m = "EngineStarted"
  OBVIOUS
<1>6. <<Way("StartEngine"), "StartEngine">> \in gone
  BY WayOf
<1>7. /\ "StartEngine" \in HandOvers /\ "StartEngine" \in Stages /\ "EngineStarted" \in Stages \ {"begin", "Setup"}
      /\ "StartEngine" # "EngineStarted" /\ "EngineStarted" \in HandOvers
  BY DEF HandOvers, Stages, ToPublish
<1> HIDE DEF gone, new
<1>8. Fits("StartEngine")
  BY <1>3, <1>6, <1>7, TakesStage DEF Core
<1>9. builder.status = "none" /\ coordinator.phase = "none"
  BY <1>8 DEF Fits
<1>10. Fits("EngineStarted")' /\ StartedFirst'
  BY <1>1, <1>4, <1>9 DEF Fits, ToEnd, StartedFirst
<1>11. StageInv' /\ ExitsInOrder' /\ Moves("StartEngine", "EngineStarted")
  <2>1. \A c, m : <<c, m>> \in new => "EngineStarted" \in HandOvers /\ c = Way("EngineStarted") /\ m = "EngineStarted"
    BY <1>5, <1>7, WayOf
  <2>2. \A h \in Hosts : <<<<Builder, h>>, "ActorExitRequest">> \notin new
    BY <1>5
  <2> QED
    BY <1>1, <1>3, <1>4, <1>6, <1>7, <1>9, <1>10, <2>1, <2>2, BuilderMoves
<1>12. Counts
  BY DEF Core, HostInv
<1>13. builder.children = <<>> /\ builder.responses = 0
  BY <1>9, <1>12 DEF Counts
<1>14. ActualChildren' = {}
  BY <1>4, <1>13 DEF ActualChildren
<1>15. Counts'
  BY <1>1, <1>4, <1>13 DEF Counts
<1>16. ASSUME NEW h \in Hosts PROVE HostStarts(h)' /\ HostStops(h)' /\ HostKeeps(h)'
  <2>1. ~Asked /\ ~Waits(h) /\ ~Told(h) /\ ~Answers(h) /\ ~ToldToStop(h) /\ ~AnswersStop(h)
    BY <1>9, Unconcerned DEF Core
  <2>2. ~Asked' /\ ~Told(h)' /\ ~Answers(h)' /\ ~ToldToStop(h)' /\ ~AnswersStop(h)'
    <3>1. /\ <<<<Builder, Dispatcher>>, "StartEngine">> \notin new
          /\ <<<<Dispatcher, h>>, "StartNodes">> \notin new /\ <<<<h, Builder>>, "NodesStarted">> \notin new
          /\ <<<<Builder, h>>, "StopNodes">> \notin new /\ <<<<h, Builder>>, "NodesStopped">> \notin new
      BY <1>5
    <3> QED
      BY <1>3, <2>1, <3>1, HostMail
  <2>3. ~Waits(h)'
    BY <1>1, <2>1 DEF Waits
  <2>4. HostKeeps(h)
    BY DEF Core, HostInv
  <2> QED
    BY <1>1, <1>4, <1>14, <2>2, <2>3, <2>4 DEF HostStarts, HostStops, HostKeeps
<1> QED
  BY <1>11, <1>15, <1>16 DEF CoreKept, HostInv

\* The builder starts its own cluster: nobody has been counted yet.
LEMMA StartOwnStep ==
    ASSUME Core, StartEngine, ~setup.external, faults' = faults
    PROVE  CoreKept /\ Moves("StartEngine", "starting")
<1> DEFINE gone == {<<<<Orchestrator, Builder>>, "StartEngine">>}
           new == {<<<<Builder, Dispatcher>>, "StartEngine">>}
           n == Cardinality(Hosts)
<1>1. /\ UNCHANGED <<setup, main, result, dispatcher, node, coordinator>> /\ alive' = alive \union {Dispatcher}
      /\ Handles(Orchestrator, Builder, "StartEngine", To(Dispatcher, "StartEngine"))
      /\ builder' = [status |-> "starting", responses |-> 0, children |-> [i \in 1 .. n |-> NoChild]]
  BY NoFaultCounted DEF StartEngine, builderOnly, mainVars, Core
<1>2. NetOK(net) /\ <<Orchestrator, Builder>> \in Channels
  <2>1. NetOK(net)
    BY DEF Core, TypeOK, NetOK
  <2> QED
    BY <2>1, Ways
<1>3. Mail(gone, new)
  BY <1>1, <1>2, HandlesTo DEF Messages
<1>5. \A c, m : <<c, m>> \in new <=> c = <<Builder, Dispatcher>> /\ m = "StartEngine"
  OBVIOUS
<1>6. <<Way("StartEngine"), "StartEngine">> \in gone
  BY WayOf
<1>7. /\ "StartEngine" \in HandOvers /\ "StartEngine" \in Stages /\ "starting" \in Stages \ {"begin", "Setup"}
      /\ "StartEngine" # "starting"
  BY DEF HandOvers, Stages, ToPublish
<1> HIDE DEF gone, new
<1>8. Fits("StartEngine")
  BY <1>3, <1>6, <1>7, TakesStage DEF Core
<1>9. builder.status = "none" /\ coordinator.phase = "none"
  BY <1>8 DEF Fits
<1>10. Fits("starting")' /\ StartedFirst'
  BY <1>1, <1>9 DEF Fits, ToEnd, StartedFirst
<1>17. \A h \in Hosts : ~Asked /\ ~Waits(h) /\ ~Told(h) /\ ~Answers(h) /\ ~ToldToStop(h) /\ ~AnswersStop(h)
  BY <1>9, Unconcerned DEF Core
<1>18. ~Asked
  BY <1>17, HostsAssumption
<1>11. StageInv' /\ ExitsInOrder' /\ Moves("StartEngine", "starting")
  <2>1. \A c, m : <<c, m>> \in new => c = <<Builder, Dispatcher>> /\ m = "StartEngine" /\ ~Has(net[c], m)
    BY <1>5, <1>18 DEF Asked
  <2>2. \A h \in Hosts : <<<<Builder, h>>, "ActorExitRequest">> \notin new
    BY <1>5
  <2>3. builder'.status = "starting"
    BY <1>1
  <2> QED
    BY <1>1, <1>3, <1>6, <1>7, <1>9, <1>10, <2>1, <2>2, <2>3, BuilderMoves
<1>12. n \in Nat
  BY HostsAssumption, FS_CardinalityType
<1>13. /\ builder'.status = "starting" /\ builder'.responses = 0
       /\ builder'.children \in Seq({NoChild}) /\ Len(builder'.children) = n
       /\ \A i \in 1 .. n : builder'.children[i] = NoChild
  <2> HIDE DEF n
  <2>1. builder'.children = [i \in 1 .. n |-> NoChild] /\ builder'.status = "starting" /\ builder'.responses = 0
    BY <1>1
  <2> QED
    BY <1>12, <2>1
<1>14. ActualChildren' = {}
  BY <1>13, Ways DEF ActualChildren
<1>15. Counts'
  <2>1. Cardinality(ActualChildren') = 0
    BY <1>14, FS_EmptySet
  <2>2. \A i \in 1 .. Len(builder'.children) : builder'.children[i] = NoChild <=> i > builder'.responses
    BY <1>12, <1>13
  <2>3. setup' = setup
    BY <1>1
  <2> QED
    BY <1>13, <2>1, <2>2, <2>3 DEF Counts
<1>16. ASSUME NEW h \in Hosts PROVE HostStarts(h)' /\ HostStops(h)' /\ HostKeeps(h)'
  <2>2. ~Told(h)' /\ ~Answers(h)' /\ ~ToldToStop(h)' /\ ~AnswersStop(h)'
    <3>1. /\ <<<<Dispatcher, h>>, "StartNodes">> \notin new /\ <<<<h, Builder>>, "NodesStarted">> \notin new
          /\ <<<<Builder, h>>, "StopNodes">> \notin new /\ <<<<h, Builder>>, "NodesStopped">> \notin new
      BY <1>5
    <3> QED
      BY <1>3, <1>17, <3>1, HostMail
  <2>3. ~Waits(h)'
    BY <1>1, <1>17 DEF Waits
  <2>5. setup' = setup
    BY <1>1
  <2> QED
    BY <1>13, <1>14, <2>2, <2>3, <2>5 DEF HostStarts, HostStops, HostKeeps
<1> QED
  BY <1>11, <1>15, <1>16 DEF CoreKept, HostInv

\* The next child is the first of the list.
LEMMA NextChild ==
    ASSUME TypeOK, Counts, builder.status = "starting", NEW h \in Hosts, h \notin ActualChildren
    PROVE  /\ WithChild(h) \in Seq(Hosts \union {NoChild}) /\ Len(WithChild(h)) = Cardinality(Hosts)
           /\ {x \in Hosts : \E i \in 1 .. Len(WithChild(h)) : WithChild(h)[i] = x} = ActualChildren \union {h}
           /\ \A i \in 1 .. Len(WithChild(h)) : WithChild(h)[i] = NoChild <=> i > builder.responses + 1
           /\ IsFiniteSet(ActualChildren \union {h}) /\ Cardinality(ActualChildren \union {h}) = builder.responses + 1
           /\ builder.responses + 1 <= Cardinality(Hosts) /\ builder.responses \in Nat /\ Cardinality(Hosts) \in Nat
<1> DEFINE old == builder.children
           n == Cardinality(Hosts)
           r == builder.responses
           ch == WithChild(h)
<1>1. /\ old \in Seq(Hosts \union {NoChild}) /\ Len(old) = n /\ r \in Nat /\ n \in Nat
      /\ r = Cardinality(ActualChildren) /\ \A i \in 1 .. n : old[i] = NoChild <=> i > r
  <2>1. old \in Seq(Hosts \union {NoChild}) /\ r \in Nat
    BY DEF TypeOK
  <2>2. Len(old) = n /\ r = Cardinality(ActualChildren) /\ \A i \in 1 .. n : old[i] = NoChild <=> i > r
    BY DEF Counts
  <2>3. n \in Nat
    BY HostsAssumption, FS_CardinalityType
  <2> QED
    BY <2>1, <2>2, <2>3
<1>2. /\ IsFiniteSet(ActualChildren) /\ IsFiniteSet(ActualChildren \union {h})
      /\ Cardinality(ActualChildren \union {h}) = r + 1
  <2>1. IsFiniteSet(ActualChildren)
    BY HostsAssumption, FS_Subset DEF ActualChildren
  <2> QED
    BY <1>1, <2>1, FS_AddElement
<1>3. r + 1 <= n
  <2>1. ActualChildren \union {h} \subseteq Hosts
    BY DEF ActualChildren
  <2>2. Cardinality(ActualChildren \union {h}) <= n
    BY <2>1, HostsAssumption, FS_Subset
  <2> QED
    BY <1>2, <2>2
<1>4. ActualChildren = {x \in Hosts : \E i \in 1 .. n : old[i] = x}
  BY <1>1 DEF ActualChildren
<1> HIDE DEF n, r
<1>5. /\ ch \in Seq(Hosts \union {NoChild}) /\ Len(ch) = n /\ ch[1] = h
      /\ \A i \in 2 .. n : ch[i] = old[i - 1]
  <2>1. ch = <<h>> \o SubSeq(old, 1, n - 1)
    BY <1>1 DEF WithChild
  <2> DEFINE rest == SubSeq(old, 1, n - 1)
  <2>2. rest \in Seq(Hosts \union {NoChild}) /\ Len(rest) = n - 1 /\ \A i \in 1 .. n - 1 : rest[i] = old[i]
    <3> HIDE DEF old
    <3> QED
      BY <1>1, <1>3
  <2>3. ch = <<h>> \o rest
    BY <2>1
  <2> HIDE DEF rest, ch
  <2>4. ch \in Seq(Hosts \union {NoChild}) /\ Len(ch) = n
    BY <1>1, <1>3, <2>2, <2>3
  <2>5. ch[1] = h
    BY <1>1, <1>3, <2>2, <2>3
  <2>6. ASSUME NEW i \in 2 .. n PROVE ch[i] = old[i - 1]
    <3>1. i - 1 \in 1 .. n - 1 /\ i \in Nat /\ i > 1 /\ i <= n
      BY <1>1
    <3>2. ch[i] = rest[i - 1]
      BY <1>1, <2>2, <2>3, <3>1
    <3> QED
      BY <2>2, <3>1, <3>2
  <2> QED
    BY <2>4, <2>5, <2>6
<1> HIDE DEF ch, old
<1>6. \A i \in 1 .. n : ch[i] = NoChild <=> i > r + 1
  <2>1. ASSUME NEW i \in 1 .. n PROVE ch[i] = NoChild <=> i > r + 1
    <3>1. CASE i = 1
      BY <1>1, <1>5, <3>1, Ways
    <3>2. CASE i > 1
      <4>1. i \in 2 .. n /\ i - 1 \in 1 .. n
        BY <1>1, <3>2
      <4>2. ch[i] = old[i - 1] /\ (old[i - 1] = NoChild <=> i - 1 > r)
        BY <1>1, <1>5, <4>1
      <4> QED
        BY <1>1, <4>1, <4>2
    <3> QED
      BY <1>1, <3>1, <3>2
  <2> QED
    BY <2>1
<1>7. {x \in Hosts : \E i \in 1 .. n : ch[i] = x} = ActualChildren \union {h}
  <2>1. ASSUME NEW x \in Hosts, NEW i \in 1 .. n, ch[i] = x PROVE x \in ActualChildren \union {h}
    <3>1. CASE i = 1
      BY <1>5, <2>1, <3>1
    <3>2. CASE i > 1
      <4>1. i \in 2 .. n /\ i - 1 \in 1 .. n
        BY <1>1, <3>2
      <4> QED
        BY <1>4, <1>5, <2>1, <4>1
    <3> QED
      BY <1>1, <3>1, <3>2
  <2>2. ASSUME NEW x \in ActualChildren PROVE x \in Hosts /\ \E i \in 1 .. n : ch[i] = x
    <3>1. x \in Hosts
      BY <1>4
    <3>2. PICK j \in 1 .. n : old[j] = x
      BY <1>4
    <3>3. j <= r
      BY <1>1, <3>1, <3>2, Ways
    <3>4. j + 1 \in 2 .. n /\ j + 1 \in 1 .. n /\ (j + 1) - 1 = j
      BY <1>1, <1>3, <3>3
    <3>5. ch[j + 1] = x
      BY <1>5, <3>2, <3>4
    <3> QED
      BY <3>1, <3>4, <3>5
  <2>3. 1 \in 1 .. n
    BY <1>1, <1>3
  <2>4. h \in Hosts /\ \E i \in 1 .. n : ch[i] = h
    BY <1>5, <2>3
  <2> QED
    BY <2>1, <2>2, <2>4
<1> QED
  BY <1>1, <1>2, <1>3, <1>5, <1>6, <1>7 DEF n, r, ch

\* What the builder knows when it handles NodesStarted
LEMMA TakesNodesStarted ==
    ASSUME Core, NEW h \in Hosts, NEW gone, NEW new, Mail(gone, new),
           <<<<h, Builder>>, "NodesStarted">> \in gone \ new,
           \A c, m : <<c, m>> \in new => m = "EngineStarted",
           UNCHANGED <<dispatcher>>
    PROVE  /\ builder.status = "starting" /\ h \notin ActualChildren /\ ~setup.external
           /\ Answers(h) /\ ~Answers(h)' /\ ~Waits(h)' /\ ~Told(h)' /\ ~Asked'
           /\ \A x \in Hosts :
                 /\ (Waits(x)' => Waits(x)) /\ (Told(x)' => Told(x)) /\ (Answers(x)' => Answers(x))
                 /\ ~ToldToStop(x)' /\ ~AnswersStop(x)'
<1>1. NothingTwice /\ HostStarts(h) /\ Counts
  BY DEF Core, StageInv, HostInv
<1>2. Answers(h) /\ ~Answers(h)'
  BY <1>1, HostMail
<1>3. builder.status = "starting" /\ h \notin ActualChildren /\ ~setup.external /\ ~Waits(h) /\ ~Told(h) /\ ~Asked
  BY <1>1, <1>2 DEF HostStarts, Counts
<1>4. ASSUME NEW x \in Hosts
      PROVE  /\ (Waits(x)' => Waits(x)) /\ (Told(x)' => Told(x)) /\ (Answers(x)' => Answers(x))
             /\ ~ToldToStop(x)' /\ ~AnswersStop(x)' /\ (Asked' => Asked)
  <2>1. /\ <<<<Builder, Dispatcher>>, "StartEngine">> \notin new
        /\ <<<<Dispatcher, x>>, "StartNodes">> \notin new /\ <<<<x, Builder>>, "NodesStarted">> \notin new
        /\ <<<<Builder, x>>, "StopNodes">> \notin new /\ <<<<x, Builder>>, "NodesStopped">> \notin new
    OBVIOUS
  <2>2. ~ToldToStop(x) /\ ~AnswersStop(x)
    BY <1>3, Unconcerned DEF Core
  <2>3. Waits(x)' => Waits(x)
    BY DEF Waits
  <2> QED
    BY <2>1, <2>2, <2>3, HostMail
<1> QED
  BY <1>2, <1>3, <1>4

\* The last host has started: all hosts are children of the builder.
LEMMA AllStartedStep ==
    ASSUME Core, NEW h \in Hosts, AllResponded(WithChild(h), "starting"),
           Handles(h, Builder, "NodesStarted", To(Orchestrator, "EngineStarted")),
           builder' = [status |-> "cluster_started", children |-> WithChild(h), responses |-> 0],
           UNCHANGED <<builderOnly, alive>>
    PROVE  CoreKept /\ Moves("starting", "EngineStarted")
<1> DEFINE gone == {<<<<h, Builder>>, "NodesStarted">>}
           new == {<<<<Builder, Orchestrator>>, "EngineStarted">>}
           ch == WithChild(h)
<1>1. UNCHANGED <<setup, main, result, dispatcher, node, coordinator, alive>>
  BY DEF builderOnly, mainVars
<1>2. NetOK(net) /\ <<h, Builder>> \in Channels
  <2>1. NetOK(net)
    BY DEF Core, TypeOK, NetOK
  <2> QED
    BY <2>1, Ways
<1>3. Mail(gone, new)
  BY <1>2, HandlesTo DEF Messages
<1>4. (\A c, m : <<c, m>> \in new <=> c = <<Builder, Orchestrator>> /\ m = "EngineStarted")
      /\ <<<<h, Builder>>, "NodesStarted">> \in gone \ new
  OBVIOUS
<1> HIDE DEF gone, new
<1>5. /\ builder.status = "starting" /\ h \notin ActualChildren /\ ~setup.external
      /\ Answers(h) /\ ~Answers(h)' /\ ~Waits(h)' /\ ~Told(h)' /\ ~Asked'
      /\ \A x \in Hosts :
            /\ (Waits(x)' => Waits(x)) /\ (Told(x)' => Told(x)) /\ (Answers(x)' => Answers(x))
            /\ ~ToldToStop(x)' /\ ~AnswersStop(x)'
  BY <1>1, <1>3, <1>4, TakesNodesStarted
<1>6. Counts /\ TypeOK
  BY DEF Core, HostInv
<1>7. /\ Len(ch) = Cardinality(Hosts)
      /\ {x \in Hosts : \E i \in 1 .. Len(ch) : ch[i] = x} = ActualChildren \union {h}
      /\ \A i \in 1 .. Len(ch) : ch[i] = NoChild <=> i > builder.responses + 1
      /\ Cardinality(ActualChildren \union {h}) = builder.responses + 1
      /\ builder.responses \in Nat /\ Cardinality(Hosts) \in Nat
  BY <1>5, <1>6, NextChild
<1> HIDE DEF ch
<1>8. /\ builder'.status = "cluster_started" /\ builder'.children = ch /\ builder'.responses = 0
      /\ builder.responses + 1 = Cardinality(Hosts)
  BY <1>7 DEF ch, AllResponded
<1>9. ActualChildren \union {h} = Hosts /\ ActualChildren' = Hosts
  <2>1. ActualChildren \union {h} \subseteq Hosts
    BY DEF ActualChildren
  <2>2. ActualChildren \union {h} = Hosts
    BY <1>7, <1>8, <2>1, HostsAssumption, FS_Subset
  <2>3. ActualChildren' = {x \in Hosts : \E i \in 1 .. Len(ch) : ch[i] = x}
    BY <1>8 DEF ActualChildren
  <2> QED
    BY <1>7, <2>2, <2>3
<1>10. Counts'
  <2>1. \A i \in 1 .. Len(builder'.children) : builder'.children[i] # NoChild
    BY <1>7, <1>8
  <2>2. setup' = setup
    BY <1>1
  <2> QED
    BY <1>5, <1>7, <1>8, <1>9, <2>1, <2>2 DEF Counts
<1>11. ASSUME NEW x \in Hosts PROVE HostStarts(x)' /\ HostStops(x)' /\ HostKeeps(x)'
  <2>1. HostStarts(x) /\ HostKeeps(x)
    BY DEF Core, HostInv
  <2>2. ~Waits(x)' /\ ~Told(x)' /\ ~Answers(x)'
    BY <1>5, <1>9, <2>1 DEF HostStarts
  <2>3. Kept(x)' <=> Kept(x)
    BY <1>1 DEF Kept
  <2>4. Kept(x) => node[x].builder /\ node[x].nodes /\ node[x].up
    <3>1. CASE x = h
      BY <1>5, <2>1, <3>1 DEF HostKeeps
    <3>2. CASE x \in ActualChildren
      BY <1>5, <2>1, <3>2 DEF HostKeeps
    <3> QED
      BY <1>9, <3>1, <3>2
  <2>5. node' = node /\ setup' = setup
    BY <1>1
  <2> QED
    BY <1>5, <1>8, <2>2, <2>3, <2>4, <2>5 DEF HostStarts, HostStops, HostKeeps
<1>12. /\ "starting" \in Stages \ HandOvers /\ "EngineStarted" \in Stages \ {"begin", "Setup"}
       /\ "starting" # "EngineStarted" /\ "EngineStarted" \in HandOvers
  BY DEF HandOvers, Stages, ToPublish
<1>13. Works("starting") /\ ~Works("starting")'
  BY <1>5, <1>8 DEF Works
<1>14. coordinator.phase = "none"
  BY <1>12, <1>13 DEF Core, StageInv, StageFits, Fits, Reached
<1>15. Fits("EngineStarted")' /\ StartedFirst'
  BY <1>1, <1>8, <1>14 DEF Fits, ToEnd, StartedFirst
<1>16. StageInv' /\ ExitsInOrder' /\ Moves("starting", "EngineStarted")
  <2>1. \A c, m : <<c, m>> \in new => "EngineStarted" \in HandOvers /\ c = Way("EngineStarted") /\ m = "EngineStarted"
    BY <1>4, <1>12, WayOf
  <2>2. \A x \in Hosts : <<<<Builder, x>>, "ActorExitRequest">> \notin new
    BY <1>4
  <2>3. UNCHANGED <<setup, main, result, coordinator>> /\ alive' \subseteq alive \union {Dispatcher}
    BY <1>1
  <2> QED
    BY <1>3, <1>5, <1>8, <1>12, <1>13, <1>15, <2>1, <2>2, <2>3, BuilderMoves
<1> QED
  BY <1>10, <1>11, <1>16 DEF CoreKept, HostInv

\* Another host has started.
LEMMA SomeStartedStep ==
    ASSUME Core, NEW h \in Hosts, SomeResponded(WithChild(h), "starting"),
           Handles(h, Builder, "NodesStarted", Nothing),
           builder' = [builder EXCEPT !.children = WithChild(h), !.responses = @ + 1],
           UNCHANGED <<builderOnly, alive>>
    PROVE  CoreKept /\ Stays
<1> DEFINE gone == {<<<<h, Builder>>, "NodesStarted">>}
           new == {}
           ch == WithChild(h)
<1>1. UNCHANGED <<setup, main, result, dispatcher, node, coordinator, alive>>
  BY DEF builderOnly, mainVars
<1>2. NetOK(net) /\ <<h, Builder>> \in Channels
  <2>1. NetOK(net)
    BY DEF Core, TypeOK, NetOK
  <2> QED
    BY <2>1, Ways
<1>3. Mail(gone, new)
  BY <1>2, HandlesNothing
<1>4. (\A c, m : <<c, m>> \notin new) /\ <<<<h, Builder>>, "NodesStarted">> \in gone \ new
  OBVIOUS
<1> HIDE DEF gone, new
<1>5. /\ builder.status = "starting" /\ h \notin ActualChildren /\ ~setup.external
      /\ Answers(h) /\ ~Answers(h)' /\ ~Waits(h)' /\ ~Told(h)' /\ ~Asked'
      /\ \A x \in Hosts :
            /\ (Waits(x)' => Waits(x)) /\ (Told(x)' => Told(x)) /\ (Answers(x)' => Answers(x))
            /\ ~ToldToStop(x)' /\ ~AnswersStop(x)'
  BY <1>1, <1>3, <1>4, TakesNodesStarted
<1>6. Counts /\ TypeOK
  BY DEF Core, HostInv
<1>7. /\ Len(ch) = Cardinality(Hosts)
      /\ {x \in Hosts : \E i \in 1 .. Len(ch) : ch[i] = x} = ActualChildren \union {h}
      /\ \A i \in 1 .. Len(ch) : ch[i] = NoChild <=> i > builder.responses + 1
      /\ Cardinality(ActualChildren \union {h}) = builder.responses + 1
      /\ builder.responses \in Nat /\ Cardinality(Hosts) \in Nat
  BY <1>5, <1>6, NextChild
<1>8. builder'.status = "starting" /\ builder'.children = ch /\ builder'.responses = builder.responses + 1
  BY <1>5, <1>6 DEF TypeOK
<1> HIDE DEF ch
<1>9. ActualChildren' = ActualChildren \union {h}
  <2>1. ActualChildren' = {x \in Hosts : \E i \in 1 .. Len(ch) : ch[i] = x}
    BY <1>8 DEF ActualChildren
  <2> QED
    BY <1>7, <2>1
<1>10. Counts'
  <2>1. \A i \in 1 .. Len(builder'.children) : builder'.children[i] = NoChild <=> i > builder'.responses
    BY <1>7, <1>8
  <2>2. setup' = setup
    BY <1>1
  <2>3. Cardinality(ActualChildren') = builder'.responses /\ Len(builder'.children) = Cardinality(Hosts)
    BY <1>7, <1>8, <1>9
  <2> QED
    BY <1>5, <1>8, <2>1, <2>2, <2>3 DEF Counts
<1>11. ASSUME NEW x \in Hosts PROVE HostStarts(x)' /\ HostStops(x)' /\ HostKeeps(x)'
  <2>1. HostStarts(x) /\ HostKeeps(x)
    BY DEF Core, HostInv
  <2>2. (Waits(x)' \/ Told(x)' \/ Answers(x)') => x \notin ActualChildren'
    BY <1>5, <1>9, <2>1 DEF HostStarts
  <2>6. HostStarts(x)'
    BY <1>5, <1>8, <2>1, <2>2 DEF HostStarts
  <2>3. Kept(x)' <=> Kept(x)
    BY <1>1 DEF Kept
  <2>4. Kept(x) /\ x \in ActualChildren' => node[x].builder /\ node[x].nodes /\ node[x].up
    <3>1. CASE x = h
      BY <1>5, <2>1, <3>1 DEF HostKeeps
    <3>2. CASE x \in ActualChildren
      BY <1>5, <2>1, <3>2 DEF HostKeeps
    <3> QED
      BY <1>9, <3>1, <3>2
  <2>5. node' = node /\ setup' = setup
    BY <1>1
  <2>7. HostStops(x)'
    BY <1>5, <1>8 DEF HostStops
  <2>8. HostKeeps(x)'
    BY <1>5, <2>1, <2>3, <2>4, <2>5 DEF HostKeeps
  <2> QED
    BY <2>6, <2>7, <2>8
<1>12. StageInv' /\ Stays
  <2>1. StageInv /\ (Begins' => Begins)
    BY <1>1 DEF Core, Begins
  <2> QED
    BY <1>1, <1>3, <1>4, <1>5, <1>8, <2>1, StageStays
<1>13. ExitsInOrder'
  <2>1. (Reached("begin")' => Reached("begin")) /\ (Reached("Setup")' => Reached("Setup"))
    BY <1>12 DEF Stays, Stages, ToPublish
  <2> QED
    BY <1>1, <1>3, <1>4, <1>5, <2>1, ExitsStay DEF Core
<1> QED
  BY <1>10, <1>11, <1>12, <1>13 DEF CoreKept, HostInv

\* The builder tells all hosts to stop.
LEMMA StopOwnStep ==
    ASSUME Core, StopEngine, ~setup.external
    PROVE  CoreKept /\ Moves("StopEngine", "cluster_stopping")
<1> DEFINE gone == {<<<<Orchestrator, Builder>>, "StopEngine">>}
           new == {<<Builder, x>> : x \in ActualChildren} \X {"StopNodes"}
<1>1. /\ UNCHANGED <<setup, main, result, dispatcher, node, coordinator, alive>>
      /\ Handles(Orchestrator, Builder, "StopEngine", ToAll(ActualChildren, "StopNodes"))
      /\ builder' = [builder EXCEPT !.status = "cluster_stopping"]
  BY DEF StopEngine, builderOnly, mainVars
<1>2. NetOK(net) /\ <<Orchestrator, Builder>> \in Channels
  <2>1. NetOK(net)
    BY DEF Core, TypeOK, NetOK
  <2> QED
    BY <2>1, Ways
<1>3. Mail(gone, new)
  <2>1. \A a \in ActualChildren : <<<<Builder, a>>, "StopNodes">> \in new
    OBVIOUS
  <2>2. "StopNodes" \in Messages
    BY DEF Messages
  <2> HIDE DEF new
  <2> QED
    BY <1>1, <1>2, <2>1, <2>2, HandlesAll
<1>4. \A c, m : <<c, m>> \in new <=> m = "StopNodes" /\ \E x \in ActualChildren : c = <<Builder, x>>
  OBVIOUS
<1>5. <<Way("StopEngine"), "StopEngine">> \in gone
  BY WayOf
<1> HIDE DEF gone, new
<1>6. builder'.status = "cluster_stopping" /\ builder'.children = builder.children /\ builder'.responses = builder.responses
  BY <1>1 DEF Core, TypeOK
<1>7. /\ "StopEngine" \in HandOvers /\ "StopEngine" \in Stages /\ "cluster_stopping" \in Stages \ {"begin", "Setup"}
      /\ "StopEngine" # "cluster_stopping" /\ "StopNodes" \notin HandOvers
  BY DEF HandOvers, Stages, ToEnd
<1>8. Fits("StopEngine")
  BY <1>3, <1>5, <1>7, TakesStage DEF Core
<1>9. builder.status = "cluster_started" /\ coordinator.phase = "complete"
  BY <1>8 DEF Fits, ToEnd
<1>10. Fits("cluster_stopping")' /\ StartedFirst'
  BY <1>1, <1>9 DEF Fits, ToEnd, StartedFirst
<1>11. \A x \in Hosts : ~Asked /\ ~Waits(x) /\ ~Told(x) /\ ~Answers(x) /\ ~ToldToStop(x) /\ ~AnswersStop(x)
  BY <1>9, Unconcerned DEF Core
<1>12. StageInv' /\ ExitsInOrder' /\ Moves("StopEngine", "cluster_stopping")
  <2>1. ASSUME NEW c, NEW m, <<c, m>> \in new
        PROVE  m \notin HandOvers /\ m # "ActorExitRequest" /\ ~Has(net[c], m)
    <3>1. PICK x \in ActualChildren : c = <<Builder, x>> /\ m = "StopNodes"
      BY <1>4, <2>1
    <3>2. ~ToldToStop(x)
      BY <1>11, <3>1 DEF ActualChildren
    <3> QED
      BY <1>7, <3>1, <3>2 DEF ToldToStop
  <2>2. \A x \in Hosts : <<<<Builder, x>>, "ActorExitRequest">> \notin new
    BY <1>4
  <2> QED
    BY <1>1, <1>3, <1>5, <1>6, <1>7, <1>9, <1>10, <2>1, <2>2, BuilderMoves
<1>13. Counts /\ ActualChildren' = ActualChildren /\ setup' = setup
  BY <1>1, <1>6, SameChildren DEF Core, HostInv
<1>14. Counts'
  <2>1. builder.responses = 0 /\ Cardinality(StoppedHosts') \in Nat
    BY <1>9, <1>13, StoppedNumber DEF Counts
  <2>2. builder'.responses <= Cardinality(StoppedHosts)'
    BY <1>6, <2>1
  <2> QED
    BY <1>6, <1>9, <1>13, <2>2 DEF Counts
<1>15. ASSUME NEW x \in Hosts PROVE HostStarts(x)' /\ HostStops(x)' /\ HostKeeps(x)'
  <2>1. HostKeeps(x) /\ x \in ActualChildren
    BY <1>9, <1>13 DEF Core, HostInv, Counts
  <2>2. /\ <<<<Builder, Dispatcher>>, "StartEngine">> \notin new
        /\ <<<<Dispatcher, x>>, "StartNodes">> \notin new /\ <<<<x, Builder>>, "NodesStarted">> \notin new
        /\ <<<<x, Builder>>, "NodesStopped">> \notin new
    BY <1>4
  <2>3. ~Asked' /\ ~Told(x)' /\ ~Answers(x)' /\ ~AnswersStop(x)'
    BY <1>3, <1>11, <2>2, HostMail
  <2>4. ~Waits(x)'
    BY <1>1, <1>11 DEF Waits
  <2>5. HostStarts(x)'
    BY <2>3, <2>4 DEF HostStarts
  <2>6. HostStops(x)'
    BY <1>6, <2>3 DEF HostStops
  <2>7. Kept(x)' <=> Kept(x)
    BY <1>1 DEF Kept
  <2>8. node' = node
    BY <1>1
  <2>9. HostKeeps(x)'
    BY <1>6, <1>9, <1>13, <2>1, <2>3, <2>7, <2>8 DEF HostKeeps
  <2> QED
    BY <2>5, <2>6, <2>9
<1> QED
  BY <1>12, <1>14, <1>15 DEF CoreKept, HostInv

\* What the builder knows when it handles NodesStopped
LEMMA TakesNodesStopped ==
    ASSUME Core, NEW h \in Hosts, NEW gone, NEW new, Mail(gone, new),
           <<<<h, Builder>>, "NodesStopped">> \in gone \ new,
           \A c, m : <<c, m>> \in new => m \in {"EngineStopped", "ActorExitRequest"},
           UNCHANGED <<dispatcher, node>>
    PROVE  /\ builder.status = "cluster_stopping" /\ ~setup.external
           /\ AnswersStop(h) /\ ~AnswersStop(h)' /\ ~ToldToStop(h)' /\ ~node[h].up
           /\ \A x \in Hosts :
                 /\ (ToldToStop(x)' => ToldToStop(x)) /\ (AnswersStop(x)' => AnswersStop(x))
                 /\ ~Asked' /\ ~Waits(x)' /\ ~Told(x)' /\ ~Answers(x)'
           /\ h \notin StoppedHosts /\ StoppedHosts \union {h} \subseteq StoppedHosts'
<1>1. NothingTwice /\ HostStops(h) /\ Counts
  BY DEF Core, StageInv, HostInv
<1>2. AnswersStop(h) /\ ~AnswersStop(h)'
  BY <1>1, HostMail
<1>3. builder.status = "cluster_stopping" /\ ~setup.external /\ ~ToldToStop(h) /\ ~node[h].up
  BY <1>1, <1>2 DEF HostStops, Counts
<1>4. ASSUME NEW x \in Hosts
      PROVE  /\ (ToldToStop(x)' => ToldToStop(x)) /\ (AnswersStop(x)' => AnswersStop(x))
             /\ ~Asked' /\ ~Waits(x)' /\ ~Told(x)' /\ ~Answers(x)'
  <2>1. /\ <<<<Builder, Dispatcher>>, "StartEngine">> \notin new
        /\ <<<<Dispatcher, x>>, "StartNodes">> \notin new /\ <<<<x, Builder>>, "NodesStarted">> \notin new
        /\ <<<<Builder, x>>, "StopNodes">> \notin new /\ <<<<x, Builder>>, "NodesStopped">> \notin new
    OBVIOUS
  <2>2. ~Asked /\ ~Waits(x) /\ ~Told(x) /\ ~Answers(x)
    BY <1>3, Unconcerned DEF Core
  <2>3. ~Waits(x)'
    BY <2>2 DEF Waits
  <2> QED
    BY <2>1, <2>2, <2>3, HostMail
<1>5. h \notin StoppedHosts
  BY <1>2 DEF StoppedHosts
<1>6. StoppedHosts \union {h} \subseteq StoppedHosts'
  BY <1>2, <1>3, <1>4 DEF StoppedHosts
<1> QED
  BY <1>2, <1>3, <1>4, <1>5, <1>6

\* Another host has stopped.
LEMMA SomeStoppedStep ==
    ASSUME Core, NEW h \in Hosts,
           Handles(h, Builder, "NodesStopped", Nothing),
           builder' = [builder EXCEPT !.responses = @ + 1],
           UNCHANGED <<builderOnly, alive>>
    PROVE  CoreKept /\ Stays
<1> DEFINE gone == {<<<<h, Builder>>, "NodesStopped">>}
           new == {}
<1>1. UNCHANGED <<setup, main, result, dispatcher, node, coordinator, alive>>
  BY DEF builderOnly, mainVars
<1>2. NetOK(net) /\ <<h, Builder>> \in Channels
  <2>1. NetOK(net)
    BY DEF Core, TypeOK, NetOK
  <2> QED
    BY <2>1, Ways
<1>3. Mail(gone, new)
  BY <1>2, HandlesNothing
<1>4. (\A c, m : <<c, m>> \notin new) /\ <<<<h, Builder>>, "NodesStopped">> \in gone \ new
  OBVIOUS
<1> HIDE DEF gone, new
<1>5. /\ builder.status = "cluster_stopping" /\ ~setup.external
      /\ AnswersStop(h) /\ ~AnswersStop(h)' /\ ~ToldToStop(h)' /\ ~node[h].up
      /\ \A x \in Hosts :
            /\ (ToldToStop(x)' => ToldToStop(x)) /\ (AnswersStop(x)' => AnswersStop(x))
            /\ ~Asked' /\ ~Waits(x)' /\ ~Told(x)' /\ ~Answers(x)'
      /\ h \notin StoppedHosts /\ StoppedHosts \union {h} \subseteq StoppedHosts'
  BY <1>1, <1>3, <1>4, TakesNodesStopped
<1>6. builder'.status = "cluster_stopping" /\ builder'.children = builder.children
      /\ builder'.responses = builder.responses + 1 /\ builder.responses \in Nat
  BY <1>5 DEF Core, TypeOK
<1>7. Counts /\ ActualChildren' = ActualChildren /\ setup' = setup
  BY <1>1, <1>6, SameChildren DEF Core, HostInv
<1>8. Counts'
  <2>1. builder.responses <= Cardinality(StoppedHosts)
    BY <1>5, <1>7 DEF Counts
  <2>2. Cardinality(StoppedHosts \union {h}) = Cardinality(StoppedHosts) + 1
    BY <1>5, StoppedNumber, FS_AddElement
  <2>3. Cardinality(StoppedHosts \union {h}) <= Cardinality(StoppedHosts')
    BY <1>5, StoppedNumber
  <2>4. builder'.responses <= Cardinality(StoppedHosts)'
    BY <1>6, <2>1, <2>2, <2>3, StoppedNumber
  <2> QED
    BY <1>5, <1>6, <1>7, <2>4 DEF Counts
<1>9. ASSUME NEW x \in Hosts PROVE HostStarts(x)' /\ HostStops(x)' /\ HostKeeps(x)'
  <2>1. HostStops(x) /\ HostKeeps(x)
    BY DEF Core, HostInv
  <2>2. HostStarts(x)'
    BY <1>5 DEF HostStarts
  <2>3. HostStops(x)'
    BY <1>1, <1>5, <1>6, <2>1 DEF HostStops
  <2>4. Kept(x)' <=> Kept(x)
    BY <1>1 DEF Kept
  <2>5. HostKeeps(x)'
    BY <1>1, <1>5, <1>6, <2>1, <2>4 DEF HostKeeps
  <2> QED
    BY <2>2, <2>3, <2>5
<1>10. StageInv' /\ Stays
  <2>1. StageInv /\ (Begins' => Begins)
    BY <1>1 DEF Core, Begins
  <2> QED
    BY <1>1, <1>3, <1>4, <1>5, <1>6, <2>1, StageStays
<1>11. ExitsInOrder'
  <2>1. (Reached("begin")' => Reached("begin")) /\ (Reached("Setup")' => Reached("Setup"))
    BY <1>10 DEF Stays, Stages, ToPublish
  <2> QED
    BY <1>1, <1>3, <1>4, <1>5, <2>1, ExitsStay DEF Core
<1> QED
  BY <1>8, <1>9, <1>10, <1>11 DEF CoreKept, HostInv

\* The last host has stopped: no node is up.
LEMMA AllStoppedStep ==
    ASSUME Core, NEW h \in Hosts, AllResponded(builder.children, "cluster_stopping"),
           Handles(h, Builder, "NodesStopped",
                   [a \in ActualChildren \union {Orchestrator} |->
                       IF a = Orchestrator THEN <<"EngineStopped">> ELSE <<"ActorExitRequest">>]),
           builder' = [status |-> "cluster_stopped", children |-> <<>>, responses |-> 0],
           UNCHANGED <<builderOnly, alive>>
    PROVE  CoreKept /\ Moves("cluster_stopping", "EngineStopped")
<1> DEFINE out == [a \in ActualChildren \union {Orchestrator} |->
                     IF a = Orchestrator THEN <<"EngineStopped">> ELSE <<"ActorExitRequest">>]
           gone == {<<<<h, Builder>>, "NodesStopped">>}
           new == {<<<<Builder, Orchestrator>>, "EngineStopped">>}
                  \union ({<<Builder, x>> : x \in ActualChildren} \X {"ActorExitRequest"})
<1>1. UNCHANGED <<setup, main, result, dispatcher, node, coordinator, alive>>
  BY DEF builderOnly, mainVars
<1>2. NetOK(net) /\ <<h, Builder>> \in Channels
  <2>1. NetOK(net)
    BY DEF Core, TypeOK, NetOK
  <2> QED
    BY <2>1, Ways
<1>3. \A a \in DOMAIN out : \E m \in Messages : out[a] = <<m>>
  BY DEF Messages
<1>4. ASSUME NEW c \in Channels, NEW m \in Messages, c[1] = Builder, c[2] \in DOMAIN out, out[c[2]] = <<m>>
      PROVE  <<c, m>> \in new
  <2>1. c = <<Builder, c[2]>>
    BY <1>4, TwoEnds
  <2>2. CASE c[2] = Orchestrator
    BY <1>4, <2>1, <2>2
  <2>3. CASE c[2] # Orchestrator
    <3>1. m = "ActorExitRequest" /\ c[2] \in ActualChildren
      BY <1>4, <2>3
    <3> QED
      BY <2>1, <3>1
  <2> QED
    BY <2>2, <2>3
<1>5. \A c, m : <<c, m>> \in new =>
         \/ c = <<Builder, Orchestrator>> /\ m = "EngineStopped"
         \/ m = "ActorExitRequest" /\ \E x \in ActualChildren : c = <<Builder, x>>
  OBVIOUS
<1>6. Handles(h, Builder, "NodesStopped", out)
  OBVIOUS
<1> HIDE DEF out, new
<1>7. Mail(gone, new)
  BY <1>2, <1>3, <1>4, <1>6, MailHandled DEF Handles
<1>8. <<<<h, Builder>>, "NodesStopped">> \in gone \ new
  BY <1>5
<1> HIDE DEF gone
<1>9. \A c, m : <<c, m>> \in new => m \in {"EngineStopped", "ActorExitRequest"}
  BY <1>5
<1>10. /\ builder.status = "cluster_stopping" /\ ~setup.external
       /\ AnswersStop(h) /\ ~AnswersStop(h)' /\ ~ToldToStop(h)' /\ ~node[h].up
       /\ \A x \in Hosts :
             /\ (ToldToStop(x)' => ToldToStop(x)) /\ (AnswersStop(x)' => AnswersStop(x))
             /\ ~Asked' /\ ~Waits(x)' /\ ~Told(x)' /\ ~Answers(x)'
       /\ h \notin StoppedHosts /\ StoppedHosts \union {h} \subseteq StoppedHosts'
  BY <1>1, <1>7, <1>8, <1>9, TakesNodesStopped
<1>11. StoppedHosts \union {h} = Hosts
  <2>1. Counts
    BY DEF Core, HostInv
  <2>2. /\ builder.responses <= Cardinality(StoppedHosts) /\ Len(builder.children) = Cardinality(Hosts)
        /\ builder.responses + 1 = Len(builder.children)
    BY <1>10, <2>1 DEF Counts, AllResponded
  <2>3. Cardinality(StoppedHosts \union {h}) = Cardinality(StoppedHosts) + 1
    BY <1>10, StoppedNumber, FS_AddElement
  <2>4. StoppedHosts \union {h} \subseteq Hosts
    BY DEF StoppedHosts
  <2>5. Cardinality(StoppedHosts \union {h}) <= Cardinality(Hosts) /\ Cardinality(Hosts) \in Nat
    BY <2>4, HostsAssumption, FS_Subset, FS_CardinalityType
  <2>6. builder.responses \in Nat
    BY DEF Core, TypeOK
  <2>7. Cardinality(StoppedHosts \union {h}) = Cardinality(Hosts)
    BY <2>2, <2>3, <2>5, <2>6, StoppedNumber
  <2> QED
    BY <2>4, <2>7, HostsAssumption, FS_Subset
<1>12. builder'.status = "cluster_stopped" /\ builder'.children = <<>> /\ builder'.responses = 0
  OBVIOUS
<1>13. Counts'
  BY <1>12 DEF Counts
<1>14. ASSUME NEW x \in Hosts PROVE HostStarts(x)' /\ HostStops(x)' /\ HostKeeps(x)'
  <2>1. ~ToldToStop(x)' /\ ~AnswersStop(x)' /\ ~node[x].up
    BY <1>10, <1>11 DEF StoppedHosts
  <2>2. HostStarts(x)'
    BY <1>10 DEF HostStarts
  <2>3. HostStops(x)'
    BY <1>1, <2>1 DEF HostStops
  <2>4. HostKeeps(x)'
    BY <1>1, <1>10, <1>12, <2>1 DEF HostKeeps
  <2> QED
    BY <2>2, <2>3, <2>4
<1>15. /\ "cluster_stopping" \in Stages \ HandOvers /\ "EngineStopped" \in Stages \ {"begin", "Setup"}
       /\ "cluster_stopping" # "EngineStopped" /\ "EngineStopped" \in HandOvers
  BY DEF HandOvers, Stages, ToEnd
<1>16. Works("cluster_stopping") /\ ~Works("cluster_stopping")'
  BY <1>10, <1>12 DEF Works
<1>17. Fits("cluster_stopping")
  BY <1>15, <1>16 DEF Core, StageInv, StageFits, Reached
<1>18. coordinator.phase = "complete"
  BY <1>17 DEF Fits, ToEnd
<1>19. Fits("EngineStopped")' /\ StartedFirst'
  BY <1>1, <1>12, <1>18 DEF Fits, ToEnd, StartedFirst
<1>20. StageInv' /\ ExitsInOrder' /\ Moves("cluster_stopping", "EngineStopped")
  <2>1. ASSUME NEW c, NEW m, <<c, m>> \in new
        PROVE  \/ "EngineStopped" \in HandOvers /\ c = Way("EngineStopped") /\ m = "EngineStopped"
               \/ m = "ActorExitRequest" /\ \E x \in Hosts : c = <<Builder, x>>
    BY <1>5, <1>15, <2>1, WayOf DEF ActualChildren
  <2>3. UNCHANGED <<setup, main, result, coordinator>> /\ alive' \subseteq alive \union {Dispatcher}
    BY <1>1
  <2> QED
    BY <1>7, <1>10, <1>12, <1>15, <1>16, <1>19, <2>1, <2>3, BuilderMoves
<1> QED
  BY <1>13, <1>14, <1>20 DEF CoreKept, HostInv

-----------------------------------------------------------------------------
(* The results: steps that do not concern the main process and the metrics *)

\* The run goes on, on the same side of the publication of the results.
Onward ==
    \/ Stays
    \/ \E old, new \in ToPublish : Moves(old, new)
    \/ \E old, new \in ToEnd : Moves(old, new)

Distant ==
    /\ UNCHANGED <<main, result, orchestrator, published, stored, coordinator>>
    /\ ToMain' = ToMain /\ ToOrchestrator' = ToOrchestrator

\* A run goes on only where it was.
LEMMA OnwardOnly ==
    ASSUME Onward
    PROVE  /\ (\E s \in ToPublish : Reached(s)') => \E s \in ToPublish : Reached(s)
           /\ (\E s \in ToEnd : Reached(s)') => \E s \in ToEnd : Reached(s)
<1>1. /\ ToPublish \subseteq Stages /\ ToEnd \subseteq Stages /\ ToPublish \intersect ToEnd = {}
  BY DEF ToPublish, ToEnd, Stages
<1>2. CASE Stays
  BY <1>1, <1>2 DEF Stays
<1>3. CASE \E old, new \in ToPublish : Moves(old, new)
  BY <1>1, <1>3 DEF Moves
<1>4. CASE \E old, new \in ToEnd : Moves(old, new)
  BY <1>1, <1>4 DEF Moves
<1> QED
  BY <1>2, <1>3, <1>4 DEF Onward

\* The main process does not notice.
LEMMA AnswersStay ==
    ASSUME AnswerInv, Onward, UNCHANGED <<main, result, orchestrator, published>>, ToMain' = ToMain
    PROVE  AnswerInv'
<1>1. /\ (\E s \in ToPublish : Reached(s)') => \E s \in ToPublish : Reached(s)
      /\ (\E s \in ToEnd : Reached(s)') => \E s \in ToEnd : Reached(s)
  BY OnwardOnly
<1>2. (Publishes' <=> Publishes) /\ (Begins' <=> Begins)
  BY DEF Publishes, Begins
<1>3. Settled => Settled'
  BY <1>1, <1>2 DEF Settled
<1>4. (\E s \in ToPublish : Reached(s)') => ~published'
  BY <1>1 DEF AnswerInv
<1>5. ToMain' # <<>> \/ result' \in {"success", "cancelled", "failure"} => Settled'
  BY <1>3 DEF AnswerInv
<1>6. main' = "asking" => IF ToMain' = <<>>
                          THEN Publishes' /\ ((\E s \in ToEnd : Reached(s)') => published')
                          ELSE Head(ToMain') = "Success" => published'
  BY <1>1, <1>2 DEF AnswerInv
<1>7. /\ Begins' => ToMain' = <<>> /\ Publishes' /\ result' = "none"
      /\ result' = "success" => published'
      /\ main' \in {"asking", "cancelling"} => result' = "none"
  BY <1>2 DEF AnswerInv
<1> QED
  BY <1>4, <1>5, <1>6, <1>7 DEF AnswerInv

\* The number of finished elements on their way is a number.
LEMMA FinishedNumber ==
    ASSUME NEW q \in Seq(Messages)
    PROVE  /\ IsFiniteSet({i \in 1 .. Len(q) : q[i] = "TaskFinished"}) /\ FinishedOnWay(q) \in Nat
<1>1. Len(q) \in Nat
  OBVIOUS
<1>2. IsFiniteSet(1 .. Len(q))
  BY <1>1, FS_Interval
<1> QED
  BY <1>2, FS_Subset, FS_CardinalityType DEF FinishedOnWay

\* A change of the channel that no account notices
SameBooks(q, r) ==
    /\ FinishedOnWay(r) = FinishedOnWay(q)
    /\ Has(r, "BenchmarkComplete") <=> Has(q, "BenchmarkComplete")
    /\ Has(r, "TaskFinished") => Has(q, "TaskFinished")
    /\ InOrder(q) => InOrder(r)

\* The orchestrator's account does not change.
LEMMA BooksStay ==
    ASSUME StoredInv, SameBooks(ToOrchestrator, ToOrchestrator'), stored' = stored,
           coordinator'.left = coordinator.left,
           coordinator'.phase = "complete" => coordinator.phase = "complete", faults' = 0 => faults = 0
    PROVE  StoredInv'
<1>1. Accounted' = Accounted
  BY DEF Accounted, SameBooks
<1>2. coordinator'.phase = "complete" =>
        /\ coordinator'.left = 0
        /\ Has(ToOrchestrator', "TaskFinished") => Has(ToOrchestrator', "BenchmarkComplete")
  BY DEF StoredInv, SameBooks
<1>3. InOrder(ToOrchestrator')
  BY DEF StoredInv, SameBooks
<1> QED
  BY <1>1, <1>2, <1>3 DEF StoredInv

\* Steps of others keep the answer and the metrics.
LEMMA DistantStep ==
    ASSUME AnswerInv, StoredInv, Onward, Distant, faults' = 0 => faults = 0
    PROVE  AnswerInv' /\ StoredInv'
<1>1. AnswerInv'
  BY AnswersStay DEF Distant
<1>2. SameBooks(ToOrchestrator, ToOrchestrator')
  BY DEF SameBooks, Distant
<1>3. StoredInv'
  BY <1>2, BooksStay DEF Distant
<1> QED
  BY <1>1, <1>3

\* Faults are counted.
LEMMA FaultsGrow ==
    ASSUME TypeOK, (\E kind : Fault(kind)) \/ NoFault
    PROVE  (faults' = 0 => faults = 0) /\ faults' \in 0 .. MaxFaults
<1>1. faults \in 0 .. MaxFaults /\ MaxFaults \in Nat
  BY BoundsAssumption DEF TypeOK
<1> QED
  BY <1>1 DEF Fault, NoFault

\* Which messages the two channels do not see
LEMMA Aside ==
    ASSUME NetOK(net), NEW me, NEW out, me # Main
    PROVE  /\ \A src, msg :
                 Handles(src, me, msg, out) /\ <<src, me>> \in Channels /\ (me = Orchestrator => Main \notin DOMAIN out)
                 => ToMain' = ToMain
           /\ \A src, msg :
                 Handles(src, me, msg, out) /\ <<src, me>> \in Channels /\ <<src, me>> # <<Coordinator, Orchestrator>>
                 /\ (me = Coordinator => Orchestrator \notin DOMAIN out) => ToOrchestrator' = ToOrchestrator
           /\ net' = Posted(net, me, out) /\ (me = Orchestrator => Main \notin DOMAIN out) => ToMain' = ToMain
           /\ net' = Posted(net, me, out) /\ (me = Coordinator => Orchestrator \notin DOMAIN out) =>
                 ToOrchestrator' = ToOrchestrator
<1>1. <<Orchestrator, Main>> \in Channels /\ <<Coordinator, Orchestrator>> \in Channels
  BY Ways
<1>2. <<Orchestrator, Main>>[1] = Orchestrator /\ <<Orchestrator, Main>>[2] = Main
      /\ <<Coordinator, Orchestrator>>[1] = Coordinator /\ <<Coordinator, Orchestrator>>[2] = Orchestrator
  OBVIOUS
<1>3. ASSUME NEW src, NEW msg, Handles(src, me, msg, out), <<src, me>> \in Channels,
             me = Orchestrator => Main \notin DOMAIN out
      PROVE  ToMain' = ToMain
  BY <1>1, <1>2, <1>3, Elsewhere DEF ToMain
<1>4. ASSUME NEW src, NEW msg, Handles(src, me, msg, out), <<src, me>> \in Channels,
             <<src, me>> # <<Coordinator, Orchestrator>>, me = Coordinator => Orchestrator \notin DOMAIN out
      PROVE  ToOrchestrator' = ToOrchestrator
  BY <1>1, <1>2, <1>4, Elsewhere DEF ToOrchestrator
<1>5. ASSUME net' = Posted(net, me, out), me = Orchestrator => Main \notin DOMAIN out PROVE ToMain' = ToMain
  BY <1>1, <1>2, <1>5 DEF ToMain, Posted
<1>6. ASSUME net' = Posted(net, me, out), me = Coordinator => Orchestrator \notin DOMAIN out
      PROVE  ToOrchestrator' = ToOrchestrator
  BY <1>1, <1>2, <1>6 DEF ToOrchestrator, Posted
<1> QED
  BY <1>3, <1>4, <1>5, <1>6

\* The builder, the dispatcher and the node builders talk to neither of the two.
LEMMA OthersAside ==
    ASSUME NetOK(net), NEW me \in {Builder, Dispatcher} \union Hosts, NEW out
    PROVE  /\ \A src, msg : Handles(src, me, msg, out) /\ <<src, me>> \in Channels =>
                               ToMain' = ToMain /\ ToOrchestrator' = ToOrchestrator
           /\ net' = Posted(net, me, out) => ToMain' = ToMain /\ ToOrchestrator' = ToOrchestrator
<1>1. me # Main /\ me # Orchestrator /\ me # Coordinator
  BY Ways DEF Main, Orchestrator, Coordinator, Builder, Dispatcher
<1>2. ASSUME NEW src PROVE <<src, me>> # <<Coordinator, Orchestrator>>
  BY <1>1
<1> QED
  BY <1>1, <1>2, Aside

\* The builder does not touch the answer and the metrics, ...
LEMMA BuilderIsDistant == ASSUME TypeOK, BuilderStep PROVE Distant
<1>0. NetOK(net)
  BY DEF TypeOK, NetOK
<1>1. ASSUME NEW src, <<src, Builder>> \in Channels, NEW msg, NEW out, Handles(src, Builder, msg, out)
      PROVE  ToMain' = ToMain /\ ToOrchestrator' = ToOrchestrator
  BY <1>0, <1>1, OthersAside
<1>2. <<Orchestrator, Builder>> \in Channels /\ \A src \in {Orchestrator, Dispatcher} \union Hosts : <<src, Builder>> \in Channels
  BY Ways
<1>3. CASE StartEngine
  BY <1>1, <1>2, <1>3 DEF Distant, StartEngine, builderOnly, mainVars
<1>4. CASE StopEngine
  BY <1>1, <1>2, <1>4 DEF Distant, StopEngine, builderOnly, mainVars
<1>5. CASE ResetRelativeTime
  BY <1>1, <1>2, <1>5 DEF Distant, ResetRelativeTime, builderOnly, mainVars
<1>6. ASSUME NEW h \in Hosts, NodesStarted(h) PROVE Distant
  BY <1>1, <1>2, <1>6 DEF Distant, NodesStarted, builderOnly, mainVars
<1>7. ASSUME NEW h \in Hosts, NodesStopped(h) PROVE Distant
  BY <1>1, <1>2, <1>7 DEF Distant, NodesStopped, builderOnly, mainVars
<1>8. ASSUME NEW src \in {Orchestrator, Dispatcher} \union Hosts, BuilderFails(src) PROVE Distant
  <2>1. \E msg, out : Handles(src, Builder, msg, out)
    BY <1>8 DEF BuilderFails
  <2> QED
    BY <1>1, <1>2, <1>8, <2>1 DEF Distant, BuilderFails, builderOnly, mainVars
<1> QED
  BY <1>3, <1>4, <1>5, <1>6, <1>7, <1>8 DEF BuilderStep

\* ... nor does the dispatcher, ...
LEMMA DispatcherIsDistant == ASSUME TypeOK, DispatcherStep \/ \E h \in Hosts : RemoteLeaves(h) PROVE Distant
<1>0. NetOK(net)
  BY DEF TypeOK, NetOK
<1>1. ASSUME NEW src, <<src, Dispatcher>> \in Channels, NEW msg, NEW out, Handles(src, Dispatcher, msg, out)
      PROVE  ToMain' = ToMain /\ ToOrchestrator' = ToOrchestrator
  BY <1>0, <1>1, OthersAside
<1>2. <<Builder, Dispatcher>> \in Channels /\ \A h \in Hosts : <<h, Dispatcher>> \in Channels
  BY Ways
<1>3. CASE Dispatch
  BY <1>1, <1>2, <1>3 DEF Distant, Dispatch, dispatcherOnly, mainVars
<1>4. ASSUME NEW h \in Hosts, RemoteJoins(h) PROVE Distant
  <2>1. ToMain' = ToMain /\ ToOrchestrator' = ToOrchestrator
    BY <1>0, <1>4, OthersAside DEF RemoteJoins
  <2> QED
    BY <1>4, <2>1 DEF Distant, RemoteJoins, dispatcherOnly, mainVars
<1>5. ASSUME NEW h \in Hosts, DispatcherFails(h) PROVE Distant
  BY <1>1, <1>2, <1>5 DEF Distant, DispatcherFails, dispatcherOnly, mainVars
<1>6. ASSUME NEW h \in Hosts, IgnoreChildExit(h, Dispatcher) PROVE Distant
  BY <1>1, <1>2, <1>6 DEF Distant, IgnoreChildExit, actorVars, mainVars
<1>7. ASSUME NEW h \in Hosts, RemoteLeaves(h) PROVE Distant
  BY <1>7 DEF Distant, RemoteLeaves, dispatcherOnly, mainVars, ToMain, ToOrchestrator
<1> QED
  BY <1>3, <1>4, <1>5, <1>6, <1>7 DEF DispatcherStep

\* ... nor does a node builder.
LEMMA NodeIsDistant == ASSUME TypeOK, NEW h \in Hosts, NodeStep(h) PROVE Distant
<1>0. NetOK(net)
  BY DEF TypeOK, NetOK
<1>1. ASSUME NEW src, <<src, h>> \in Channels, NEW msg, NEW out, Handles(src, h, msg, out)
      PROVE  ToMain' = ToMain /\ ToOrchestrator' = ToOrchestrator
  BY <1>0, <1>1, OthersAside
<1>2. <<Builder, h>> \in Channels /\ <<Dispatcher, h>> \in Channels /\ <<h, h>> \in Channels
  BY Ways
<1>3. CASE StartNodes(h)
  BY <1>1, <1>2, <1>3 DEF Distant, StartNodes, nodeOnly, mainVars
<1>4. CASE StopNodes(h)
  BY <1>1, <1>2, <1>4 DEF Distant, StopNodes, nodeOnly, mainVars
<1>5. CASE FlushRaises(h)
  <2>1. ToMain' = ToMain /\ ToOrchestrator' = ToOrchestrator
    BY <1>0, <1>5, OthersAside DEF FlushRaises
  <2> QED
    BY <1>5, <2>1 DEF Distant, FlushRaises, nodeOnly, mainVars
<1>6. CASE NodeReturnsFailure(h)
  BY <1>1, <1>2, <1>6 DEF Distant, NodeReturnsFailure, nodeOnly, mainVars
<1>7. ASSUME NEW src \in {Builder, Dispatcher}, NodeExits(src, h) PROVE Distant
  BY <1>1, <1>2, <1>7 DEF Distant, NodeExits, nodeOnly, mainVars
<1> QED
  BY <1>3, <1>4, <1>5, <1>6, <1>7 DEF NodeStep

\* Exits, deaths and poisoned messages of everybody but the worker coordinator
LEMMA EndsAreDistant ==
    ASSUME TypeOK
    PROVE  /\ \A a \in {Orchestrator, Builder, Dispatcher} : Exits(a) => Distant
           /\ \A a \in Actors \ {Coordinator} : Dies(a) => Distant
           /\ \A a \in Actors \ {Coordinator, Orchestrator} : Poisoned(a) => Distant
<1>0. NetOK(net)
  BY DEF TypeOK, NetOK
<1>1. ASSUME NEW a \in {Orchestrator, Builder, Dispatcher}, Exits(a) PROVE Distant
  <2> DEFINE out == [x \in ((ChildrenOf(a) \intersect alive) \union {ParentOf(a)}) \ {Main} |->
                       IF x = ParentOf(a) THEN <<"ChildActorExited">> ELSE <<"ActorExitRequest">>]
  <2>1. Handles(ParentOf(a), a, "ActorExitRequest", out) /\ Main \notin DOMAIN out
    BY <1>1 DEF Exits
  <2>2. <<ParentOf(a), a>> \in Channels /\ a # Main /\ a # Coordinator /\ ParentOf(a) # Coordinator
    BY Family DEF Actors, Main, Orchestrator, Builder, Dispatcher, Coordinator
  <2> HIDE DEF out
  <2>3. <<ParentOf(a), a>> # <<Coordinator, Orchestrator>>
    BY <2>2
  <2>4. ToMain' = ToMain /\ ToOrchestrator' = ToOrchestrator
    BY <1>0, <2>1, <2>2, <2>3, Aside
  <2> QED
    BY <1>1, <2>4 DEF Distant, Exits, mainVars, actorVars
<1>2. ASSUME NEW a \in Actors \ {Coordinator}, Dies(a) PROVE Distant
  <2>1. CASE a = Orchestrator
    BY <1>2, <2>1 DEF Distant, Dies, mainVars, actorVars, ToMain, ToOrchestrator
  <2>2. CASE a # Orchestrator
    <3>1. a \in {Builder, Dispatcher} \union Hosts
      BY <2>2 DEF Actors
    <3>2. net' = Posted(net, a, To(ParentOf(a), "ChildActorExited"))
      BY <1>2, <2>2 DEF Dies
    <3>3. ToMain' = ToMain /\ ToOrchestrator' = ToOrchestrator
      BY <1>0, <3>1, <3>2, OthersAside
    <3> QED
      BY <1>2, <3>3 DEF Distant, Dies, mainVars, actorVars
  <2> QED
    BY <2>1, <2>2
<1>3. ASSUME NEW a \in Actors \ {Coordinator, Orchestrator}, Poisoned(a) PROVE Distant
  <2>1. a \in {Builder, Dispatcher} \union Hosts
    BY DEF Actors
  <2>2. PICK msg : Pending(ParentOf(a), a, msg)
    BY <1>3 DEF Poisoned
  <2>3. Handles(ParentOf(a), a, msg, To(ParentOf(a), "PoisonMessage"))
    BY <1>3, <2>2 DEF Poisoned, Handles
  <2>4. <<ParentOf(a), a>> \in Channels
    BY Family
  <2>5. ToMain' = ToMain /\ ToOrchestrator' = ToOrchestrator
    BY <1>0, <2>1, <2>3, <2>4, OthersAside
  <2> QED
    BY <1>3, <2>5 DEF Distant, Poisoned, mainVars, actorVars
<1> QED
  BY <1>1, <1>2, <1>3

-----------------------------------------------------------------------------
(* The metrics: what the worker coordinator reports *)

\* Sending a report changes the number of finished elements on their way by that report.
LEMMA SendBooks ==
    ASSUME NEW q \in Seq(Messages), NEW m \in Messages
    PROVE  /\ FinishedOnWay(q \o <<m>>) = FinishedOnWay(q) + (IF m = "TaskFinished" THEN 1 ELSE 0)
           /\ InOrder(q) /\ (m = "TaskFinished" => ~Has(q, "BenchmarkComplete")) => InOrder(q \o <<m>>)
           /\ m \notin {"TaskFinished", "BenchmarkComplete"} => SameBooks(q, q \o <<m>>)
<1> DEFINE a == q \o <<m>>
           A == {i \in 1 .. Len(q) : q[i] = "TaskFinished"}
           B == {i \in 1 .. Len(a) : a[i] = "TaskFinished"}
<1>1. /\ a \in Seq(Messages) /\ Len(a) = Len(q) + 1 /\ Len(q) \in Nat /\ a[Len(q) + 1] = m
      /\ \A i \in 1 .. Len(q) : a[i] = q[i]
  BY Positions
<1>2. IsFiniteSet(A) /\ FinishedOnWay(q) = Cardinality(A) /\ Cardinality(A) \in Nat
  BY FinishedNumber DEF FinishedOnWay
<1>3. FinishedOnWay(a) = Cardinality(B)
  BY DEF FinishedOnWay
<1>4. \A x : Has(a, x) <=> Has(q, x) \/ x = m
  BY Sending
<1> HIDE DEF a
<1>5. FinishedOnWay(a) = FinishedOnWay(q) + (IF m = "TaskFinished" THEN 1 ELSE 0)
  <2>1. CASE m = "TaskFinished"
    <3>1. B = A \union {Len(q) + 1} /\ Len(q) + 1 \notin A
      BY <1>1, <2>1
    <3>2. Cardinality(B) = Cardinality(A) + 1
      BY <1>2, <3>1, FS_AddElement
    <3> QED
      BY <1>2, <1>3, <2>1, <3>2
  <2>2. CASE m # "TaskFinished"
    <3>1. B = A
      BY <1>1, <2>2
    <3>2. Cardinality(B) = Cardinality(A)
      BY <3>1
    <3> HIDE DEF A, B
    <3> QED
      BY <1>2, <1>3, <2>2, <3>2
  <2> QED
    BY <2>1, <2>2
<1>6. ASSUME InOrder(q), m = "TaskFinished" => ~Has(q, "BenchmarkComplete") PROVE InOrder(a)
  <2>1. ASSUME NEW i \in 1 .. Len(a), NEW j \in 1 .. Len(a), a[i] = "BenchmarkComplete", a[j] = "TaskFinished"
        PROVE  j < i
    <3>1. CASE i = Len(q) + 1
      <4>1. j # i
        BY <2>1
      <4> QED
        BY <1>1, <3>1, <4>1
    <3>2. CASE i \in 1 .. Len(q) /\ j = Len(q) + 1
      BY <1>1, <1>6, <2>1, <3>2 DEF Has
    <3>3. CASE i \in 1 .. Len(q) /\ j \in 1 .. Len(q)
      BY <1>1, <1>6, <2>1, <3>3 DEF InOrder
    <3> QED
      BY <1>1, <3>1, <3>2, <3>3
  <2> QED
    BY <2>1 DEF InOrder
<1>7. ASSUME m \notin {"TaskFinished", "BenchmarkComplete"} PROVE SameBooks(q, a)
  BY <1>2, <1>4, <1>5, <1>6, <1>7 DEF SameBooks
<1> QED
  BY <1>5, <1>6, <1>7 DEF a

\* ... and so does handling one.
LEMMA HandleBooks ==
    ASSUME NEW q \in Seq(Messages), q # <<>>
    PROVE  /\ FinishedOnWay(q) = FinishedOnWay(Tail(q)) + (IF Head(q) = "TaskFinished" THEN 1 ELSE 0)
           /\ InOrder(q) => InOrder(Tail(q))
           /\ Head(q) # "BenchmarkComplete" => (Has(Tail(q), "BenchmarkComplete") <=> Has(q, "BenchmarkComplete"))
           /\ InOrder(q) /\ Head(q) = "BenchmarkComplete" => ~Has(q, "TaskFinished")
           /\ Head(q) \notin {"TaskFinished", "BenchmarkComplete"} => SameBooks(q, Tail(q))
           /\ FinishedOnWay(Tail(q)) \in Nat
<1> DEFINE r == Tail(q)
           A == {i \in 1 .. Len(r) : r[i] = "TaskFinished"}
           B == {i \in 1 .. Len(q) : q[i] = "TaskFinished"}
           C == B \ {1}
<1>1. /\ r \in Seq(Messages) /\ Len(q) \in Nat /\ Len(q) > 0 /\ Len(r) = Len(q) - 1 /\ Head(q) = q[1]
      /\ \A i \in 1 .. Len(q) - 1 : r[i] = q[i + 1]
  BY Positions
<1> HIDE DEF r
<1>2. IsFiniteSet(A) /\ FinishedOnWay(r) = Cardinality(A) /\ Cardinality(A) \in Nat
  BY <1>1, FinishedNumber DEF FinishedOnWay
<1>3. FinishedOnWay(q) = Cardinality(B) /\ IsFiniteSet(B) /\ Cardinality(B) \in Nat
  BY FinishedNumber DEF FinishedOnWay
<1>4. Cardinality(C) = Cardinality(A)
  <2> DEFINE f == [i \in A |-> i + 1]
  <2>1. f \in [A -> C]
    <3>1. ASSUME NEW i \in A PROVE i + 1 \in C
      BY <1>1
    <3> QED
      BY <3>1
  <2>2. ASSUME NEW i \in A, NEW j \in A, f[i] = f[j] PROVE i = j
    BY <2>2
  <2>3. ASSUME NEW k \in C PROVE \E i \in A : f[i] = k
    <3>1. k - 1 \in A /\ (k - 1) + 1 = k
      BY <1>1
    <3> QED
      BY <3>1
  <2>4. f \in Bijection(A, C)
    <3> HIDE DEF f, A, C
    <3> QED
      BY <2>1, <2>2, <2>3, Fun_IsBij
  <2>5. ExistsBijection(A, C)
    BY <2>4 DEF ExistsBijection
  <2> HIDE DEF A, C
  <2> QED
    BY <1>2, <2>5, FS_Bijection
<1>5. FinishedOnWay(q) = FinishedOnWay(r) + (IF Head(q) = "TaskFinished" THEN 1 ELSE 0)
  <2>1. 1 \in B <=> Head(q) = "TaskFinished"
    BY <1>1
  <2>2. Cardinality(C) = IF 1 \in B THEN Cardinality(B) - 1 ELSE Cardinality(B)
    <3> HIDE DEF B
    <3> QED
      BY <1>3, FS_RemoveElement
  <2> HIDE DEF A, B, C
  <2> QED
    BY <1>2, <1>3, <1>4, <2>1, <2>2
<1>6. ASSUME InOrder(q) PROVE InOrder(r)
  <2>1. ASSUME NEW i \in 1 .. Len(r), NEW j \in 1 .. Len(r), r[i] = "BenchmarkComplete", r[j] = "TaskFinished"
        PROVE  j < i
    <3>1. i + 1 \in 1 .. Len(q) /\ j + 1 \in 1 .. Len(q) /\ q[i + 1] = r[i] /\ q[j + 1] = r[j]
      BY <1>1
    <3>2. j + 1 < i + 1
      BY <1>6, <2>1, <3>1 DEF InOrder
    <3> QED
      BY <1>1, <3>2
  <2> QED
    BY <2>1 DEF InOrder
<1>7. ASSUME NEW x PROVE Has(q, x) => Has(r, x) \/ x = Head(q)
  <2>1. ASSUME NEW i \in 1 .. Len(q), q[i] = x, x # Head(q) PROVE Has(r, x)
    <3>1. i - 1 \in 1 .. Len(r) /\ r[i - 1] = q[(i - 1) + 1] /\ (i - 1) + 1 = i
      BY <1>1, <2>1
    <3> QED
      BY <2>1, <3>1 DEF Has
  <2> QED
    BY <2>1 DEF Has
<1>8. \A x : Has(r, x) => Has(q, x)
  BY Handling DEF r
<1>9. ASSUME InOrder(q), Head(q) = "BenchmarkComplete", Has(q, "TaskFinished") PROVE FALSE
  <2>1. PICK j \in 1 .. Len(q) : q[j] = "TaskFinished"
    BY <1>9 DEF Has
  <2>2. 1 \in 1 .. Len(q) /\ q[1] = "BenchmarkComplete"
    BY <1>1, <1>9
  <2>3. j < 1
    BY <1>9, <2>1, <2>2 DEF InOrder
  <2> QED
    BY <1>1, <2>3
<1>10. ASSUME Head(q) \notin {"TaskFinished", "BenchmarkComplete"} PROVE SameBooks(q, r)
  BY <1>2, <1>5, <1>6, <1>7, <1>8, <1>10 DEF SameBooks
<1> QED
  BY <1>2, <1>5, <1>6, <1>7, <1>8, <1>9, <1>10 DEF r

-----------------------------------------------------------------------------
(* The steps of the actors around the cluster *)

\* A step counts a fault or it does not.
LEMMA FaultOrNot == ASSUME Next PROVE (\E kind : Fault(kind)) \/ NoFault
<1>1. CASE MainStep
  BY <1>1 DEF MainStep, Provision, AskSetup, CreateTimesOut, Answered, Interrupt, Teardown
<1>2. CASE OrchestratorStep
  BY <1>2 DEF OrchestratorStep, Setup, SetupRaises, EngineStarted, PreparationComplete, TaskFinished,
              BenchmarkComplete, EngineStopped, Cancelled, ForwardFailure, IgnoreChildExit, OrchestratorRaises
<1>3. CASE BuilderStep
  <2>1. CASE StartEngine \/ StopEngine \/ ResetRelativeTime
    BY <2>1 DEF StartEngine, StopEngine, ResetRelativeTime
  <2>2. CASE \E h \in Hosts : NodesStarted(h) \/ NodesStopped(h)
    BY <2>2 DEF NodesStarted, NodesStopped
  <2>3. CASE \E src \in {Orchestrator, Dispatcher} \union Hosts : BuilderFails(src)
    BY <2>3 DEF BuilderFails
  <2> QED
    BY <1>3, <2>1, <2>2, <2>3 DEF BuilderStep
<1>4. CASE DispatcherStep \/ \E h \in Hosts : RemoteLeaves(h)
  BY <1>4 DEF DispatcherStep, Dispatch, RemoteJoins, DispatcherFails, IgnoreChildExit, RemoteLeaves
<1>5. CASE CoordinatorStep
  BY <1>5 DEF CoordinatorStep, CoordinatorStarts, WorkloadPrepared, FinishTask, FinishBenchmark, Reports,
              CoordinatorReturnsFailure, WorkerFails
<1>6. CASE \E h \in Hosts : NodeStep(h)
  BY <1>6 DEF NodeStep, StartNodes, StopNodes, FlushRaises, NodeReturnsFailure, NodeExits
<1>7. CASE (\E a \in Actors \ Hosts : Exits(a)) \/ (\E a \in Actors : Dies(a))
           \/ (\E a \in Actors \ {Orchestrator} : Poisoned(a))
  BY <1>7 DEF Exits, Dies, Poisoned
<1> QED
  BY <1>1, <1>2, <1>3, <1>4, <1>5, <1>6, <1>7 DEF Next, ActorStep

\* A step that hands nothing on
LEMMA CalmCore == ASSUME Core, Calm PROVE CoreKept /\ Stays /\ Onward
  BY CalmStep DEF Core, CoreKept, Onward

\* The builder keeps the run in one place and the hosts counted, ...
LEMMA BuilderOnward == ASSUME Core, BuilderStep PROVE CoreKept /\ Onward
<1>0. TypeOK
  BY DEF Core
<1>1. CASE StartEngine /\ faults' # faults
  BY <1>0, <1>1, BuilderIsCalm, CalmCore
<1>2. CASE StartEngine /\ faults' = faults
  <2>1. CoreKept /\ (Moves("StartEngine", "EngineStarted") \/ Moves("StartEngine", "starting"))
    BY <1>2, StartExternalStep, StartOwnStep
  <2> QED
    BY <2>1 DEF Onward, ToPublish
<1>3. CASE StopEngine
  <2>1. CoreKept /\ (Moves("StopEngine", "EngineStopped") \/ Moves("StopEngine", "cluster_stopping"))
    BY <1>3, StopExternalStep, StopOwnStep
  <2> QED
    BY <2>1 DEF Onward, ToEnd
<1>4. CASE ResetRelativeTime
  BY <1>0, <1>4, BuilderIsCalm, CalmCore
<1>5. ASSUME NEW h \in Hosts, NodesStarted(h) PROVE CoreKept /\ Onward
  <2>1. \/ /\ AllResponded(WithChild(h), "starting")
           /\ Handles(h, Builder, "NodesStarted", To(Orchestrator, "EngineStarted"))
           /\ builder' = [status |-> "cluster_started", children |-> WithChild(h), responses |-> 0]
        \/ /\ SomeResponded(WithChild(h), "starting")
           /\ Handles(h, Builder, "NodesStarted", Nothing)
           /\ builder' = [builder EXCEPT !.children = WithChild(h), !.responses = @ + 1]
    BY <1>5 DEF NodesStarted
  <2>2. UNCHANGED <<builderOnly, alive>>
    BY <1>5 DEF NodesStarted
  <2>3. CoreKept /\ (Moves("starting", "EngineStarted") \/ Stays)
    BY <2>1, <2>2, AllStartedStep, SomeStartedStep
  <2> QED
    BY <2>3 DEF Onward, ToPublish
<1>6. ASSUME NEW h \in Hosts, NodesStopped(h) PROVE CoreKept /\ Onward
  <2>1. \/ /\ AllResponded(builder.children, "cluster_stopping")
           /\ Handles(h, Builder, "NodesStopped",
                      [a \in ActualChildren \union {Orchestrator} |->
                          IF a = Orchestrator THEN <<"EngineStopped">> ELSE <<"ActorExitRequest">>])
           /\ builder' = [status |-> "cluster_stopped", children |-> <<>>, responses |-> 0]
        \/ /\ Handles(h, Builder, "NodesStopped", Nothing)
           /\ builder' = [builder EXCEPT !.responses = @ + 1]
    BY <1>6 DEF NodesStopped
  <2>2. UNCHANGED <<builderOnly, alive>>
    BY <1>6 DEF NodesStopped
  <2>3. CoreKept /\ (Moves("cluster_stopping", "EngineStopped") \/ Stays)
    BY <2>1, <2>2, AllStoppedStep, SomeStoppedStep
  <2> QED
    BY <2>3 DEF Onward, ToEnd
<1>7. ASSUME NEW src \in {Orchestrator, Dispatcher} \union Hosts, BuilderFails(src) PROVE CoreKept /\ Onward
  BY <1>0, <1>7, BuilderIsCalm, CalmCore
<1> QED
  BY <1>1, <1>2, <1>3, <1>4, <1>5, <1>6, <1>7 DEF BuilderStep

\* ... the dispatcher does, ...
LEMMA DispatcherOnward ==
    ASSUME Core, DispatcherStep \/ \E h \in Hosts : RemoteLeaves(h)
    PROVE  CoreKept /\ Onward
<1>0. TypeOK
  BY DEF Core
<1>1. CASE Dispatch /\ faults' # faults
  BY <1>0, <1>1, BuilderIsCalm, CalmCore
<1>2. CASE Dispatch /\ faults' = faults
  BY <1>2, DispatchStep DEF Onward
<1>3. ASSUME NEW h \in Hosts, RemoteJoins(h) PROVE CoreKept /\ Onward
  BY <1>3, RemoteJoinsStep DEF Onward
<1>4. ASSUME NEW h \in Hosts, DispatcherFails(h) \/ RemoteLeaves(h) PROVE CoreKept /\ Onward
  BY <1>0, <1>4, BuilderIsCalm, CalmCore
<1>5. ASSUME NEW h \in Hosts, IgnoreChildExit(h, Dispatcher) PROVE CoreKept /\ Onward
  BY <1>0, <1>5, OrchestratorIsCalm, CalmCore
<1> QED
  BY <1>1, <1>2, <1>3, <1>4, <1>5 DEF DispatcherStep

\* ... the node builders do, ...
LEMMA NodeOnward == ASSUME Core, NEW h \in Hosts, NodeStep(h) PROVE CoreKept /\ Onward
<1>0. TypeOK
  BY DEF Core
<1>1. CASE StartNodes(h)
  BY <1>1, StartNodesStep DEF Onward
<1>2. CASE StopNodes(h)
  BY <1>2, StopNodesStep DEF Onward
<1>3. CASE FlushRaises(h) \/ NodeReturnsFailure(h)
  BY <1>0, <1>3, OthersAreCalm, CalmCore
<1>4. ASSUME NEW src \in {Builder, Dispatcher}, NodeExits(src, h) PROVE CoreKept /\ Onward
  BY <1>4, NodeExitsStep DEF Onward
<1> QED
  BY <1>1, <1>2, <1>3, <1>4 DEF NodeStep

\* ... and exits, deaths and poisoned messages do.
LEMMA EndsOnward ==
    ASSUME Core
    PROVE  /\ \A a \in Actors \ Hosts : Exits(a) => CoreKept /\ Onward
           /\ \A a \in Actors : Dies(a) => CoreKept /\ Onward
           /\ \A a \in Actors \ {Orchestrator} : Poisoned(a) => CoreKept /\ Onward
<1>0. TypeOK
  BY DEF Core
<1>1. ASSUME NEW a \in Actors \ Hosts, Exits(a) PROVE CoreKept /\ Onward
  <2>1. CASE a = Coordinator
    BY <1>0, <1>1, <2>1, EndsAreCalm, CalmCore
  <2>2. CASE a # Coordinator
    <3>1. a \in {Orchestrator, Builder, Dispatcher}
      BY <2>2 DEF Actors
    <3> QED
      BY <1>1, <3>1, ExitsStep DEF Onward
  <2> QED
    BY <2>1, <2>2
<1>2. ASSUME NEW a \in Actors, Dies(a) PROVE CoreKept /\ Onward
  BY <1>0, <1>2, EndsAreCalm, CalmCore
<1>3. ASSUME NEW a \in Actors \ {Orchestrator}, Poisoned(a) PROVE CoreKept /\ Onward
  BY <1>0, <1>3, EndsAreCalm, CalmCore
<1> QED
  BY <1>1, <1>2, <1>3

\* The main process and the metrics are kept.
ResultsKept == AnswerInv' /\ StoredInv'
Tame == faults' = 0 => faults = 0

\* Whatever the builder, the dispatcher and the node builders do, and whoever ends but the
\* worker coordinator, the answer and the metrics are left alone.
LEMMA OuterStep ==
    ASSUME Core, AnswerInv, StoredInv, Tame,
           \/ BuilderStep \/ DispatcherStep
           \/ \E h \in Hosts : RemoteLeaves(h) \/ NodeStep(h)
           \/ \E a \in {Orchestrator, Builder, Dispatcher} : Exits(a)
           \/ \E a \in Actors \ {Coordinator} : Dies(a)
           \/ \E a \in Actors \ {Coordinator, Orchestrator} : Poisoned(a)
    PROVE  CoreKept /\ ResultsKept
<1>0. TypeOK
  BY DEF Core
<1>1. ASSUME CoreKept /\ Onward, Distant PROVE CoreKept /\ ResultsKept
  BY <1>1, DistantStep DEF ResultsKept, Tame
<1>2. CASE BuilderStep
  BY <1>0, <1>1, <1>2, BuilderOnward, BuilderIsDistant
<1>3. CASE DispatcherStep \/ \E h \in Hosts : RemoteLeaves(h)
  BY <1>0, <1>1, <1>3, DispatcherOnward, DispatcherIsDistant
<1>4. ASSUME NEW h \in Hosts, NodeStep(h) PROVE CoreKept /\ ResultsKept
  BY <1>0, <1>1, <1>4, NodeOnward, NodeIsDistant
<1>5. ASSUME NEW a \in {Orchestrator, Builder, Dispatcher}, Exits(a) PROVE CoreKept /\ ResultsKept
  <2>1. a \in Actors \ Hosts
    BY Ways DEF Actors
  <2> QED
    BY <1>0, <1>1, <1>5, <2>1, EndsOnward, EndsAreDistant
<1>6. ASSUME NEW a \in Actors \ {Coordinator}, Dies(a) PROVE CoreKept /\ ResultsKept
  BY <1>0, <1>1, <1>6, EndsOnward, EndsAreDistant
<1>7. ASSUME NEW a \in Actors \ {Coordinator, Orchestrator}, Poisoned(a) PROVE CoreKept /\ ResultsKept
  BY <1>0, <1>1, <1>7, EndsOnward, EndsAreDistant
<1> QED
  BY <1>2, <1>3, <1>4, <1>5, <1>6, <1>7

-----------------------------------------------------------------------------
(* The steps of the worker coordinator *)

\* The terms of the account are numbers.
LEMMA BookTypes ==
    ASSUME TypeOK
    PROVE  /\ ToOrchestrator \in Seq(Messages) /\ FinishedOnWay(ToOrchestrator) \in Nat
           /\ stored \in Nat /\ coordinator.left \in Nat /\ Tasks \in Nat
<1>1. ToOrchestrator \in Seq(Messages)
  BY Ways DEF TypeOK, ToOrchestrator
<1>2. Tasks \in Nat /\ stored \in Nat /\ coordinator.left \in Nat
  <2>1. Tasks \in Nat
    BY BoundsAssumption
  <2>2. stored \in 0 .. Tasks /\ coordinator.left \in 0 .. Tasks
    BY DEF TypeOK
  <2> QED
    BY <2>1, <2>2
<1> QED
  BY <1>1, <1>2, FinishedNumber

\* The worker coordinator reports a failure, or nothing.
LEMMA PlainReport ==
    ASSUME TypeOK, AnswerInv, StoredInv, Tame, Onward, NEW m \in Messages \ {"TaskFinished", "BenchmarkComplete"},
           ToMain' = ToMain, ToOrchestrator' \in {ToOrchestrator, ToOrchestrator \o <<m>>},
           UNCHANGED <<main, result, orchestrator, published, stored>>,
           coordinator'.left = coordinator.left,
           coordinator'.phase = "complete" => coordinator.phase = "complete"
    PROVE  ResultsKept
<1>1. AnswerInv'
  BY AnswersStay
<1>2. ToOrchestrator \in Seq(Messages)
  BY BookTypes
<1>3. SameBooks(ToOrchestrator, ToOrchestrator \o <<m>>)
  BY <1>2, SendBooks
<1>4. SameBooks(ToOrchestrator, ToOrchestrator)
  BY DEF SameBooks
<1>5. SameBooks(ToOrchestrator, ToOrchestrator')
  BY <1>3, <1>4
<1> QED
  BY <1>1, <1>5, BooksStay DEF ResultsKept, Tame

\* What the worker coordinator does to the two channels
LEMMA CoordinatorSends ==
    ASSUME NetOK(net)
    PROVE  /\ \A msg : Handles(Orchestrator, Coordinator, msg, Nothing) =>
                          ToMain' = ToMain /\ ToOrchestrator' = ToOrchestrator
           /\ \A msg : \A m \in Messages : Handles(Orchestrator, Coordinator, msg, To(Orchestrator, m)) =>
                          ToMain' = ToMain /\ ToOrchestrator' = ToOrchestrator \o <<m>>
           /\ \A m \in Messages : net' = Posted(net, Coordinator, To(Orchestrator, m)) =>
                          ToMain' = ToMain /\ ToOrchestrator' = ToOrchestrator \o <<m>>
<1>1. /\ <<Orchestrator, Coordinator>> \in Channels /\ <<Coordinator, Orchestrator>> \in Channels
      /\ <<Orchestrator, Main>> \in Channels
  BY Ways
<1>2. /\ <<Orchestrator, Main>> \notin {<<Orchestrator, Coordinator>>, <<Coordinator, Orchestrator>>}
      /\ <<Orchestrator, Coordinator>> # <<Coordinator, Orchestrator>>
  BY DEF Main, Orchestrator, Coordinator
<1>3. ASSUME NEW msg, Handles(Orchestrator, Coordinator, msg, Nothing)
      PROVE  ToMain' = ToMain /\ ToOrchestrator' = ToOrchestrator
  BY <1>1, <1>2, <1>3, HandlesNothing DEF ToMain, ToOrchestrator
<1>4. ASSUME NEW msg, NEW m \in Messages, Handles(Orchestrator, Coordinator, msg, To(Orchestrator, m))
      PROVE  ToMain' = ToMain /\ ToOrchestrator' = ToOrchestrator \o <<m>>
  <2>1. net'[<<Orchestrator, Main>>] = net[<<Orchestrator, Main>>]
    BY <1>1, <1>2, <1>4, HandlesTo
  <2>2. net'[<<Coordinator, Orchestrator>>] = With(net[<<Coordinator, Orchestrator>>], m)
    <3>1. \A c \in Channels : c = <<Coordinator, Orchestrator>> /\ c # <<Orchestrator, Coordinator>>
                              => net'[c] = With(net[c], m)
      BY <1>1, <1>4, TakesAndSends
    <3> QED
      BY <1>1, <1>2, <3>1
  <2> QED
    BY <1>1, <1>2, <2>1, <2>2 DEF ToMain, ToOrchestrator, With
<1>5. ASSUME NEW m \in Messages, net' = Posted(net, Coordinator, To(Orchestrator, m))
      PROVE  ToMain' = ToMain /\ ToOrchestrator' = ToOrchestrator \o <<m>>
  BY <1>1, <1>2, <1>5, SendsTo DEF ToMain, ToOrchestrator
<1> QED
  BY <1>3, <1>4, <1>5

\* An element is finished: its metrics are on their way.
LEMMA FinishTaskStep ==
    ASSUME Core, AnswerInv, StoredInv, Tame, FinishTask
    PROVE  CoreKept /\ ResultsKept
<1>0. TypeOK /\ NetOK(net)
  BY DEF Core, TypeOK, NetOK
<1>1. CoreKept /\ Onward
  BY <1>0, OthersAreCalm, CalmCore
<1>2. /\ coordinator.left > 1 /\ coordinator.phase = "running"
      /\ coordinator' = [coordinator EXCEPT !.left = @ - 1]
      /\ net' = Posted(net, Coordinator, To(Orchestrator, "TaskFinished"))
      /\ UNCHANGED <<main, result, orchestrator, published, stored>>
  BY DEF FinishTask, Reports, coordinatorOnly, mainVars
<1>3. ToMain' = ToMain /\ ToOrchestrator' = ToOrchestrator \o <<"TaskFinished">>
  BY <1>0, <1>2, CoordinatorSends DEF Messages
<1>4. AnswerInv'
  BY <1>1, <1>2, <1>3, AnswersStay
<1>5. coordinator'.phase = "running" /\ coordinator'.left = coordinator.left - 1
  BY <1>0, <1>2 DEF TypeOK
<1>6. ~Has(ToOrchestrator, "BenchmarkComplete")
  <2>1. Reached("running")
    BY <1>2 DEF Reached, Works, HandOvers
  <2>2. Reached("BenchmarkComplete") <=> Has(ToOrchestrator, "BenchmarkComplete")
    BY WayOf DEF Reached, HandOvers, ToOrchestrator
  <2>3. "running" \in Stages /\ "BenchmarkComplete" \in Stages
    BY DEF Stages, ToPublish
  <2> QED
    BY <2>1, <2>2, <2>3 DEF Core, StageInv, OneStage
<1>7. /\ ToOrchestrator \in Seq(Messages) /\ FinishedOnWay(ToOrchestrator) \in Nat
      /\ stored \in Nat /\ coordinator.left \in Nat /\ Tasks \in Nat
  BY <1>0, BookTypes
<1> DEFINE q == ToOrchestrator
           r == ToOrchestrator \o <<"TaskFinished">>
<1>8. "TaskFinished" \in Messages
  BY DEF Messages
<1>9. FinishedOnWay(r) = FinishedOnWay(q) + 1 /\ InOrder(r)
  BY <1>6, <1>7, <1>8, SendBooks DEF StoredInv
<1>10. ~Has(r, "BenchmarkComplete")
  BY <1>6, <1>7, <1>8, Sending
<1>11. Accounted' = Accounted
  <2> HIDE DEF q, r
  <2>1. Accounted' = stored + FinishedOnWay(r) + (coordinator.left - 1) + 0
    BY <1>2, <1>3, <1>5, <1>10 DEF Accounted, r
  <2>2. Accounted = stored + FinishedOnWay(q) + coordinator.left + 0
    BY <1>6 DEF Accounted, q
  <2>3. FinishedOnWay(q) \in Nat
    BY <1>7 DEF q
  <2> QED
    BY <1>7, <1>9, <2>1, <2>2, <2>3
<1>12. StoredInv'
  BY <1>3, <1>5, <1>9, <1>11 DEF StoredInv, Tame
<1> QED
  BY <1>1, <1>4, <1>12 DEF ResultsKept

\* The last element is finished.
LEMMA FinishBenchmarkBooks ==
    ASSUME Core, AnswerInv, StoredInv, Tame, FinishBenchmark
    PROVE  CoreKept /\ ResultsKept
<1>0. TypeOK /\ NetOK(net)
  BY DEF Core, TypeOK, NetOK
<1>1. CoreKept /\ Moves("running", "BenchmarkComplete")
  BY FinishBenchmarkStep
<1>2. /\ coordinator.left = 1 /\ coordinator.phase = "running"
      /\ coordinator'.left = 0
      /\ net' = Posted(net, Coordinator, To(Orchestrator, "BenchmarkComplete"))
      /\ UNCHANGED <<main, result, orchestrator, published, stored>>
  BY DEF FinishBenchmark, Reports, coordinatorOnly, mainVars
<1>3. ToMain' = ToMain /\ ToOrchestrator' = ToOrchestrator \o <<"BenchmarkComplete">>
  BY <1>0, <1>2, CoordinatorSends DEF Messages
<1>4. AnswerInv'
  <2>1. Onward
    BY <1>1 DEF Onward, ToPublish
  <2> QED
    BY <1>2, <1>3, <2>1, AnswersStay
<1>6. ~Has(ToOrchestrator, "BenchmarkComplete")
  <2>1. Reached("running")
    BY <1>2 DEF Reached, Works, HandOvers
  <2>2. Reached("BenchmarkComplete") <=> Has(ToOrchestrator, "BenchmarkComplete")
    BY WayOf DEF Reached, HandOvers, ToOrchestrator
  <2>3. "running" \in Stages /\ "BenchmarkComplete" \in Stages
    BY DEF Stages, ToPublish
  <2> QED
    BY <2>1, <2>2, <2>3 DEF Core, StageInv, OneStage
<1>7. /\ ToOrchestrator \in Seq(Messages) /\ FinishedOnWay(ToOrchestrator) \in Nat
      /\ stored \in Nat /\ coordinator.left \in Nat /\ Tasks \in Nat
  BY <1>0, BookTypes
<1> DEFINE q == ToOrchestrator
           r == ToOrchestrator \o <<"BenchmarkComplete">>
<1>8. "BenchmarkComplete" \in Messages
  BY DEF Messages
<1>9. FinishedOnWay(r) = FinishedOnWay(q) /\ InOrder(r)
  BY <1>7, <1>8, SendBooks DEF StoredInv
<1>10. Has(r, "BenchmarkComplete")
  BY <1>7, <1>8, Sending
<1>11. Accounted' = Accounted
  <2> HIDE DEF q, r
  <2>1. Accounted' = stored + FinishedOnWay(r) + 0 + 1
    BY <1>2, <1>3, <1>10 DEF Accounted, r
  <2>2. Accounted = stored + FinishedOnWay(q) + 1 + 0
    BY <1>2, <1>6 DEF Accounted, q
  <2>3. FinishedOnWay(q) \in Nat
    BY <1>7 DEF q
  <2> QED
    BY <1>7, <1>9, <2>1, <2>2, <2>3
<1>12. StoredInv'
  BY <1>2, <1>3, <1>9, <1>10, <1>11 DEF StoredInv, Tame
<1> QED
  BY <1>1, <1>4, <1>12 DEF ResultsKept

\* The other steps of the worker coordinator, and its end
LEMMA CoordinatorKeeps ==
    ASSUME Core, AnswerInv, StoredInv, Tame,
           CoordinatorStep \/ Exits(Coordinator) \/ Dies(Coordinator) \/ Poisoned(Coordinator)
    PROVE  CoreKept /\ ResultsKept
<1>0. TypeOK /\ NetOK(net)
  BY DEF Core, TypeOK, NetOK
<1>1. {"BenchmarkFailure", "BenchmarkCancelled", "PreparationComplete", "ChildActorExited", "PoisonMessage"}
          \subseteq Messages \ {"TaskFinished", "BenchmarkComplete"}
  BY DEF Messages
<1>2. ASSUME CoreKept, Onward, NEW m \in Messages \ {"TaskFinished", "BenchmarkComplete"},
             ToMain' = ToMain, ToOrchestrator' \in {ToOrchestrator, ToOrchestrator \o <<m>>},
             UNCHANGED <<main, result, orchestrator, published, stored>>,
             coordinator'.left = coordinator.left,
             coordinator'.phase = "complete" => coordinator.phase = "complete"
      PROVE  CoreKept /\ ResultsKept
  BY <1>0, <1>2, PlainReport
<1>3. ASSUME NEW msg, NEW phase,
             <<msg, phase>> \in {<<"PrepareBenchmark", "preparing">>, <<"StartBenchmark", "running">>},
             CoordinatorStarts(msg, phase)
      PROVE  CoreKept /\ ResultsKept
  <2>1. UNCHANGED <<main, result, orchestrator, published, stored>>
    BY <1>3 DEF CoordinatorStarts, coordinatorOnly, mainVars
  <2>2. CASE faults' = faults
    <3>1. CoreKept /\ Moves(msg, phase)
      BY <1>3, <2>2, CoordinatorStartsStep
    <3>2. Onward
      BY <1>3, <3>1 DEF Onward, ToPublish
    <3>3. Handles(Orchestrator, Coordinator, msg, Nothing) /\ coordinator' = [coordinator EXCEPT !.phase = phase]
      BY <1>0, <1>3, <2>2, NoFaultCounted DEF CoordinatorStarts
    <3>4. coordinator'.left = coordinator.left /\ coordinator'.phase # "complete"
      BY <1>0, <1>3, <3>3 DEF TypeOK
    <3>5. ToMain' = ToMain /\ ToOrchestrator' = ToOrchestrator
      BY <1>0, <3>3, CoordinatorSends
    <3> QED
      BY <1>1, <1>2, <2>1, <3>1, <3>2, <3>4, <3>5
  <2>3. CASE faults' # faults
    <3>1. CoreKept /\ Onward
      BY <1>0, <1>3, <2>3, OthersAreCalm, CalmCore
    <3>2. Handles(Orchestrator, Coordinator, msg, To(Orchestrator, "BenchmarkFailure")) /\ UNCHANGED coordinator
      BY <1>3, <2>3 DEF CoordinatorStarts, NoFault
    <3>3. ToMain' = ToMain /\ ToOrchestrator' = ToOrchestrator \o <<"BenchmarkFailure">>
      BY <1>0, <1>1, <3>2, CoordinatorSends
    <3> QED
      BY <1>1, <1>2, <2>1, <3>1, <3>2, <3>3
  <2> QED
    BY <2>2, <2>3
<1>4. CASE WorkloadPrepared
  <2>1. CoreKept /\ Moves("preparing", "PreparationComplete")
    BY <1>4, WorkloadPreparedStep
  <2>2. Onward
    BY <2>1 DEF Onward, ToPublish
  <2>3. /\ net' = Posted(net, Coordinator, To(Orchestrator, "PreparationComplete"))
        /\ coordinator' = [coordinator EXCEPT !.phase = "prepared"]
        /\ UNCHANGED <<main, result, orchestrator, published, stored>>
    BY <1>4 DEF WorkloadPrepared, Reports, coordinatorOnly, mainVars
  <2>4. coordinator'.left = coordinator.left /\ coordinator'.phase # "complete"
    BY <1>0, <2>3 DEF TypeOK
  <2>5. ToMain' = ToMain /\ ToOrchestrator' = ToOrchestrator \o <<"PreparationComplete">>
    BY <1>0, <1>1, <2>3, CoordinatorSends
  <2> QED
    BY <1>1, <1>2, <2>1, <2>2, <2>3, <2>4, <2>5
<1>5. CASE CoordinatorReturnsFailure
  <2>1. CoreKept /\ Onward
    BY <1>0, <1>5, OthersAreCalm, CalmCore
  <2>2. /\ Handles(Orchestrator, Coordinator, "BenchmarkFailure", To(Orchestrator, "BenchmarkFailure"))
        /\ UNCHANGED <<main, result, orchestrator, published, stored, coordinator>>
    BY <1>5 DEF CoordinatorReturnsFailure, coordinatorOnly, mainVars
  <2>3. ToMain' = ToMain /\ ToOrchestrator' = ToOrchestrator \o <<"BenchmarkFailure">>
    BY <1>0, <1>1, <2>2, CoordinatorSends
  <2> QED
    BY <1>1, <1>2, <2>1, <2>2, <2>3
<1>6. CASE WorkerFails
  <2>1. CoreKept /\ Onward
    BY <1>0, <1>6, OthersAreCalm, CalmCore
  <2>2. /\ \E m \in {"BenchmarkFailure", "BenchmarkCancelled"} : net' = Posted(net, Coordinator, To(Orchestrator, m))
        /\ UNCHANGED <<main, result, orchestrator, published, stored, coordinator>>
    BY <1>6 DEF WorkerFails, coordinatorOnly, mainVars
  <2>3. PICK m \in {"BenchmarkFailure", "BenchmarkCancelled"} : net' = Posted(net, Coordinator, To(Orchestrator, m))
    BY <2>2
  <2>4. m \in Messages \ {"TaskFinished", "BenchmarkComplete"}
    BY <1>1
  <2>5. ToMain' = ToMain /\ ToOrchestrator' = ToOrchestrator \o <<m>>
    BY <1>0, <2>3, <2>4, CoordinatorSends
  <2> QED
    BY <1>2, <2>1, <2>2, <2>4, <2>5
<1>7. CASE Exits(Coordinator)
  <2>1. CoreKept /\ Onward
    BY <1>0, <1>7, EndsAreCalm, CalmCore
  <2> DEFINE out == [a \in ((ChildrenOf(Coordinator) \intersect alive) \union {ParentOf(Coordinator)}) \ {Main} |->
                       IF a = ParentOf(Coordinator) THEN <<"ChildActorExited">> ELSE <<"ActorExitRequest">>]
  <2>2. ChildrenOf(Coordinator) = {}
    BY DEF ChildrenOf, Orchestrator, Builder, Dispatcher, Coordinator
  <2>3. ((ChildrenOf(Coordinator) \intersect alive) \union {ParentOf(Coordinator)}) \ {Main} = {Orchestrator}
    BY <2>2, Family DEF Main, Orchestrator
  <2>4. out = To(Orchestrator, "ChildActorExited")
    BY <2>3, Family DEF To
  <2>5. Handles(Orchestrator, Coordinator, "ActorExitRequest", out)
    BY <1>7, Family DEF Exits
  <2> HIDE DEF out
  <2>6. ToMain' = ToMain /\ ToOrchestrator' = ToOrchestrator \o <<"ChildActorExited">>
    BY <1>0, <1>1, <2>4, <2>5, CoordinatorSends
  <2>7. UNCHANGED <<main, result, orchestrator, published, stored, coordinator>>
    BY <1>7 DEF Exits, mainVars, actorVars
  <2> QED
    BY <1>1, <1>2, <2>1, <2>6, <2>7
<1>8. CASE Dies(Coordinator)
  <2>1. Coordinator \in Actors /\ Coordinator # Orchestrator /\ ParentOf(Coordinator) = Orchestrator
    BY Family DEF Actors, Coordinator, Orchestrator
  <2>2. CoreKept /\ Onward
    BY <1>0, <1>8, <2>1, EndsAreCalm, CalmCore
  <2>3. /\ net' = Posted(net, Coordinator, To(Orchestrator, "ChildActorExited"))
        /\ UNCHANGED <<main, result, orchestrator, published, stored, coordinator>>
    BY <1>8, <2>1 DEF Dies, mainVars, actorVars
  <2>4. ToMain' = ToMain /\ ToOrchestrator' = ToOrchestrator \o <<"ChildActorExited">>
    BY <1>0, <1>1, <2>3, CoordinatorSends
  <2> QED
    BY <1>1, <1>2, <2>2, <2>3, <2>4
<1>9. CASE Poisoned(Coordinator)
  <2>1. Coordinator \in Actors \ {Orchestrator} /\ ParentOf(Coordinator) = Orchestrator
    BY Family DEF Actors, Coordinator, Orchestrator
  <2>2. CoreKept /\ Onward
    BY <1>0, <1>9, <2>1, EndsAreCalm, CalmCore
  <2>3. PICK msg : Pending(Orchestrator, Coordinator, msg)
    BY <1>9, <2>1 DEF Poisoned
  <2>4. Handles(Orchestrator, Coordinator, msg, To(Orchestrator, "PoisonMessage"))
    BY <1>9, <2>1, <2>3 DEF Poisoned, Handles
  <2>5. ToMain' = ToMain /\ ToOrchestrator' = ToOrchestrator \o <<"PoisonMessage">>
    BY <1>0, <1>1, <2>4, CoordinatorSends
  <2>6. UNCHANGED <<main, result, orchestrator, published, stored, coordinator>>
    BY <1>9 DEF Poisoned, mainVars, actorVars
  <2> QED
    BY <1>1, <1>2, <2>2, <2>5, <2>6
<1>10. CASE FinishTask
  BY <1>10, FinishTaskStep
<1>11. CASE FinishBenchmark
  BY <1>11, FinishBenchmarkBooks
<1> QED
  BY <1>3, <1>4, <1>5, <1>6, <1>7, <1>8, <1>9, <1>10, <1>11 DEF CoordinatorStep

-----------------------------------------------------------------------------
(* The steps of the orchestrator *)

\* The orchestrator takes a report of the worker coordinator, and stores the metrics or fails.
LEMMA TakeReport ==
    ASSUME TypeOK, StoredInv, Tame, ToOrchestrator # <<>>, ToOrchestrator' = Tail(ToOrchestrator),
           UNCHANGED coordinator,
           Head(ToOrchestrator) = "BenchmarkComplete" => Once(ToOrchestrator, "BenchmarkComplete"),
           \/ stored' = stored + (IF Head(ToOrchestrator) \in {"TaskFinished", "BenchmarkComplete"} THEN 1 ELSE 0)
           \/ stored' = stored /\ faults' # 0
    PROVE  StoredInv'
<1> DEFINE q == ToOrchestrator
           r == Tail(ToOrchestrator)
           b(x) == IF Has(x, "BenchmarkComplete") THEN 1 ELSE 0
           n == IF Head(q) \in {"TaskFinished", "BenchmarkComplete"} THEN 1 ELSE 0
<1>1. /\ q \in Seq(Messages) /\ FinishedOnWay(q) \in Nat
      /\ stored \in Nat /\ coordinator.left \in Nat /\ Tasks \in Nat
  BY BookTypes
<1>2. /\ FinishedOnWay(q) = FinishedOnWay(r) + (IF Head(q) = "TaskFinished" THEN 1 ELSE 0)
      /\ InOrder(q) => InOrder(r)
      /\ Head(q) # "BenchmarkComplete" => (Has(r, "BenchmarkComplete") <=> Has(q, "BenchmarkComplete"))
      /\ InOrder(q) /\ Head(q) = "BenchmarkComplete" => ~Has(q, "TaskFinished")
      /\ FinishedOnWay(r) \in Nat
  BY <1>1, HandleBooks
<1>3. /\ Has(r, "TaskFinished") => Has(q, "TaskFinished")
      /\ Has(q, Head(q))
      /\ Once(q, Head(q)) => ~Has(r, Head(q))
  BY <1>1, Handling
<1>4. InOrder(q)
  BY DEF StoredInv
<1>5. /\ Accounted = stored + FinishedOnWay(q) + coordinator.left + b(q)
      /\ Accounted' = stored' + FinishedOnWay(r) + coordinator.left + b(r)
  BY DEF Accounted
<1> HIDE DEF q, r
<1>6. FinishedOnWay(q) + b(q) = FinishedOnWay(r) + b(r) + n
  <2>1. CASE Head(q) = "BenchmarkComplete"
    <3>1. b(q) = 1 /\ b(r) = 0 /\ n = 1
      BY <1>3, <2>1 DEF q
    <3> QED
      BY <1>1, <1>2, <2>1, <3>1
  <2>2. CASE Head(q) # "BenchmarkComplete"
    <3>1. b(q) = b(r) /\ b(q) \in {0, 1}
      BY <1>2, <2>2
    <3>2. n = IF Head(q) = "TaskFinished" THEN 1 ELSE 0
      BY <2>2
    <3> HIDE DEF b, n
    <3> QED
      BY <1>1, <1>2, <3>1, <3>2
  <2> QED
    BY <2>1, <2>2
<1>7. stored' = stored + n \/ (stored' = stored /\ faults' # 0)
  BY DEF q
<1>8. b(q) \in Nat /\ b(r) \in Nat /\ n \in {0, 1}
  OBVIOUS
<1>9. Accounted' <= Accounted /\ (faults' = 0 => Accounted' = Accounted) /\ Accounted \in Nat /\ Accounted' \in Nat
  <2> DEFINE fq == FinishedOnWay(q)
             fr == FinishedOnWay(r)
             k == coordinator.left
  <2>1. fq \in Nat /\ fr \in Nat /\ k \in Nat
    BY <1>1, <1>2
  <2>2. Accounted = stored + fq + k + b(q) /\ Accounted' = stored' + fr + k + b(r) /\ fq + b(q) = fr + b(r) + n
    BY <1>5, <1>6
  <2> DEFINE bq == b(q)
             br == b(r)
  <2>3. Accounted = stored + fq + k + bq /\ Accounted' = stored' + fr + k + br /\ fq + bq = fr + br + n
    BY <2>2
  <2>4. bq \in Nat /\ br \in Nat /\ n \in {0, 1}
    BY <1>8
  <2> HIDE DEF bq, br, b, n, fq, fr, k
  <2>5. CASE stored' = stored + n
    BY <1>1, <2>1, <2>3, <2>4, <2>5
  <2>6. CASE stored' = stored /\ faults' # 0
    BY <1>1, <2>1, <2>3, <2>4, <2>6
  <2> QED
    BY <1>7, <2>5, <2>6
<1>10. Accounted' <= Tasks /\ (faults' = 0 => Accounted' = Tasks)
  BY <1>1, <1>9 DEF StoredInv, Tame
<1>11. coordinator'.phase = "complete" =>
        /\ coordinator'.left = 0
        /\ Has(r, "TaskFinished") => Has(r, "BenchmarkComplete")
  <2>1. coordinator.phase = "complete" =>
           coordinator.left = 0 /\ (Has(q, "TaskFinished") => Has(q, "BenchmarkComplete"))
    BY DEF StoredInv, q
  <2> QED
    BY <1>2, <1>3, <1>4, <2>1
<1> QED
  BY <1>2, <1>4, <1>10, <1>11 DEF StoredInv, r

\* What the orchestrator does to the two channels
LEMMA OrchestratorTakes ==
    ASSUME NetOK(net), NEW src \in {Main, Builder, Coordinator}, NEW msg
    PROVE  /\ Handles(src, Orchestrator, msg, Nothing) =>
                 /\ ToMain' = ToMain
                 /\ IF src = Coordinator
                    THEN /\ ToOrchestrator # <<>> /\ Head(ToOrchestrator) = msg
                         /\ ToOrchestrator' = Tail(ToOrchestrator)
                    ELSE ToOrchestrator' = ToOrchestrator
           /\ \A a \in {Main, Builder, Coordinator}, m \in Messages :
                 Handles(src, Orchestrator, msg, To(a, m)) =>
                 /\ ToMain' = IF a = Main THEN ToMain \o <<m>> ELSE ToMain
                 /\ IF src = Coordinator
                    THEN /\ ToOrchestrator # <<>> /\ Head(ToOrchestrator) = msg
                         /\ ToOrchestrator' = Tail(ToOrchestrator)
                    ELSE ToOrchestrator' = ToOrchestrator
<1>1. /\ <<Coordinator, Orchestrator>> \in Channels /\ <<Orchestrator, Main>> \in Channels
      /\ <<src, Orchestrator>> \in Channels
  BY Ways
<1>2. /\ src # Coordinator => <<Coordinator, Orchestrator>> # <<src, Orchestrator>>
      /\ <<Orchestrator, Main>> # <<src, Orchestrator>>
  BY DEF Main, Orchestrator, Builder, Coordinator
<1>3. ASSUME Handles(src, Orchestrator, msg, Nothing)
      PROVE  /\ ToMain' = ToMain
             /\ IF src = Coordinator
                THEN /\ ToOrchestrator # <<>> /\ Head(ToOrchestrator) = msg
                     /\ ToOrchestrator' = Tail(ToOrchestrator)
                ELSE ToOrchestrator' = ToOrchestrator
  <2>1. /\ net[<<src, Orchestrator>>] # <<>> /\ Head(net[<<src, Orchestrator>>]) = msg
        /\ \A c \in Channels : c # <<src, Orchestrator>> => net'[c] = net[c]
        /\ net'[<<src, Orchestrator>>] = Tail(net[<<src, Orchestrator>>])
    BY <1>1, <1>3, HandlesNothing
  <2> QED
    BY <1>1, <1>2, <2>1 DEF ToMain, ToOrchestrator
<1>4. ASSUME NEW a \in {Main, Builder, Coordinator}, NEW m \in Messages, Handles(src, Orchestrator, msg, To(a, m))
      PROVE  /\ ToMain' = IF a = Main THEN ToMain \o <<m>> ELSE ToMain
             /\ IF src = Coordinator
                THEN /\ ToOrchestrator # <<>> /\ Head(ToOrchestrator) = msg
                     /\ ToOrchestrator' = Tail(ToOrchestrator)
                ELSE ToOrchestrator' = ToOrchestrator
  <2>1. /\ net[<<src, Orchestrator>>] # <<>> /\ Head(net[<<src, Orchestrator>>]) = msg
        /\ \A c \in Channels :
              /\ c \notin {<<src, Orchestrator>>, <<Orchestrator, a>>} => net'[c] = net[c]
              /\ c = <<src, Orchestrator>> /\ c # <<Orchestrator, a>> => net'[c] = Tail(net[c])
              /\ c = <<Orchestrator, a>> /\ c # <<src, Orchestrator>> => net'[c] = With(net[c], m)
    BY <1>1, <1>4, TakesAndSends
  <2>2. /\ <<src, Orchestrator>> # <<Orchestrator, a>> /\ <<Coordinator, Orchestrator>> # <<Orchestrator, a>>
        /\ a # Main => <<Orchestrator, Main>> # <<Orchestrator, a>>
    BY DEF Main, Orchestrator, Builder, Coordinator
  <2>3. ToMain' = IF a = Main THEN ToMain \o <<m>> ELSE ToMain
    BY <1>1, <1>2, <2>1, <2>2 DEF ToMain, With
  <2>4. IF src = Coordinator
        THEN /\ ToOrchestrator # <<>> /\ Head(ToOrchestrator) = msg
             /\ ToOrchestrator' = Tail(ToOrchestrator)
        ELSE ToOrchestrator' = ToOrchestrator
    BY <1>1, <1>2, <2>1, <2>2 DEF ToOrchestrator
  <2> QED
    BY <2>3, <2>4
<1> QED
  BY <1>3, <1>4

\* An answer is sent to the main process.
LEMMA AnswerSent ==
    ASSUME TypeOK, AnswerInv, Onward, UNCHANGED <<main, result, published>>, ~Begins, Settled',
           NEW m \in Messages, ToMain' = ToMain \o <<m>>,
           main = "asking" /\ ToMain = <<>> /\ m = "Success" => published
    PROVE  AnswerInv'
<1>1. ToMain \in Seq(Messages)
  BY Ways DEF TypeOK, ToMain
<1>2. ToMain' # <<>> /\ Head(ToMain') = IF ToMain = <<>> THEN m ELSE Head(ToMain)
  BY <1>1, Sending
<1>3. (\E s \in ToPublish : Reached(s)') => ~published'
  BY OnwardOnly DEF AnswerInv
<1>4. ~Begins'
  BY DEF Begins
<1>5. main' = "asking" => (Head(ToMain') = "Success" => published')
  BY <1>2 DEF AnswerInv
<1>6. /\ result' = "success" => published'
      /\ main' \in {"asking", "cancelling"} => result' = "none"
  BY DEF AnswerInv
<1> QED
  BY <1>2, <1>3, <1>4, <1>5, <1>6 DEF AnswerInv

\* The results are published, or not.
LEMMA PublishStep ==
    ASSUME AnswerInv, Reached("BenchmarkComplete"), \A s \in ToPublish : ~Reached(s)', ~Begins,
           UNCHANGED <<main, result, orchestrator>>, ToMain' = ToMain,
           published' = Publishes \/ (\A s \in Stages : ~Reached(s)')
    PROVE  AnswerInv'
<1>1. ~published
  BY DEF AnswerInv, ToPublish
<1>2. (Publishes' <=> Publishes) /\ ~Begins' /\ Settled'
  BY DEF Publishes, Begins, Settled
<1>3. main' = "asking" => IF ToMain' = <<>>
                          THEN Publishes' /\ ((\E s \in ToEnd : Reached(s)') => published')
                          ELSE Head(ToMain') = "Success" => published'
  BY <1>1, <1>2 DEF AnswerInv, Stages
<1>4. /\ result' = "success" => published'
      /\ main' \in {"asking", "cancelling"} => result' = "none"
  BY <1>1 DEF AnswerInv
<1> QED
  BY <1>2, <1>3, <1>4 DEF AnswerInv

\* The orchestrator is there: the main process has asked.
LEMMA HasAsked == ASSUME ExitsInOrder, Orchestrator \in alive PROVE ~Begins
<1>1. Reached("begin") <=> Begins
  BY DEF Reached, Works, HandOvers
<1> QED
  BY <1>1 DEF ExitsInOrder

\* Who takes the message that has the run, and hands nothing on, ends it.
LEMMA RunEnds ==
    ASSUME Core, Calm, NEW gone, NEW new, Mail(gone, new), NEW s \in HandOvers, <<Way(s), s>> \in gone \ new
    PROVE  Reached(s) /\ \A t \in Stages : ~Reached(t)'
<1>1. Reached(s) /\ ~Reached(s)'
  BY ReachedByMail DEF Core, StageInv
<1>2. s \in Stages
  BY DEF HandOvers, Stages, ToPublish, ToEnd
<1>3. Stays
  BY CalmCore
<1> QED
  BY <1>1, <1>2, <1>3 DEF Stays, Core, StageInv, OneStage

\* The orchestrator raises an exception instead of handing the run on.
LEMMA RaisedStep ==
    ASSUME Core, NEW src \in {Main, Builder, Coordinator}, NEW s \in HandOvers, Way(s) = <<src, Orchestrator>>,
           OrchestratorRaises(src, s)
    PROVE  /\ CoreKept /\ Onward /\ Reached(s) /\ \A t \in Stages : ~Reached(t)'
           /\ ToMain' = IF src = Main THEN ToMain \o <<"BenchmarkFailure">> ELSE ToMain
           /\ IF src = Coordinator
              THEN /\ ToOrchestrator # <<>> /\ Head(ToOrchestrator) = s
                   /\ ToOrchestrator' = Tail(ToOrchestrator)
              ELSE ToOrchestrator' = ToOrchestrator
           /\ UNCHANGED <<main, result, orchestrator, coordinator>> /\ faults' # 0
<1>0. TypeOK /\ NetOK(net)
  BY DEF Core, TypeOK, NetOK
<1>1. Calm
  BY <1>0, OrchestratorIsCalm
<1>2. Handles(src, Orchestrator, s, To(src, "BenchmarkFailure")) /\ "BenchmarkFailure" \in Messages
  BY DEF OrchestratorRaises, Messages
<1>3. <<src, Orchestrator>> \in Channels
  BY Ways
<1>4. Mail({<<<<src, Orchestrator>>, s>>}, {<<<<Orchestrator, src>>, "BenchmarkFailure">>})
  BY <1>0, <1>2, <1>3, HandlesTo
<1>5. <<Way(s), s>> \in {<<<<src, Orchestrator>>, s>>} \ {<<<<Orchestrator, src>>, "BenchmarkFailure">>}
  BY DEF Main, Orchestrator, Builder, Coordinator
<1>6. Reached(s) /\ \A t \in Stages : ~Reached(t)'
  BY <1>1, <1>4, <1>5, RunEnds
<1>7. CoreKept /\ Onward
  BY <1>1, CalmCore
<1>8. /\ ToMain' = IF src = Main THEN ToMain \o <<"BenchmarkFailure">> ELSE ToMain
      /\ IF src = Coordinator
         THEN /\ ToOrchestrator # <<>> /\ Head(ToOrchestrator) = s
              /\ ToOrchestrator' = Tail(ToOrchestrator)
         ELSE ToOrchestrator' = ToOrchestrator
  BY <1>0, <1>2, OrchestratorTakes
<1>9. UNCHANGED <<main, result, orchestrator, coordinator>>
  BY DEF OrchestratorRaises, mainVars
<1>10. faults' # 0
  <2>1. faults \in 0 .. MaxFaults /\ MaxFaults \in Nat
    BY <1>0, BoundsAssumption DEF TypeOK
  <2>2. faults' = faults + 1
    BY DEF OrchestratorRaises, Fault
  <2> QED
    BY <2>1, <2>2
<1> QED
  BY <1>6, <1>7, <1>8, <1>9, <1>10

\* The setup, the start and the preparation are handed on or have failed.
LEMMA FirstSteps ==
    ASSUME Core, AnswerInv, StoredInv, Tame, Setup \/ SetupRaises \/ EngineStarted \/ PreparationComplete
    PROVE  CoreKept /\ ResultsKept
<1>0. TypeOK /\ NetOK(net)
  BY DEF Core, TypeOK, NetOK
<1>1. /\ Way("Setup") = <<Main, Orchestrator>> /\ Way("EngineStarted") = <<Builder, Orchestrator>>
      /\ Way("PreparationComplete") = <<Coordinator, Orchestrator>>
      /\ {"Setup", "EngineStarted", "PreparationComplete"} \subseteq HandOvers
  BY WayOf DEF HandOvers
<1>2. {"StartEngine", "PrepareBenchmark", "StartBenchmark", "BenchmarkFailure"} \subseteq Messages
  BY DEF Messages
<1>3. Main # Coordinator /\ Builder # Coordinator /\ Main # Builder
  BY DEF Main, Builder, Coordinator
<1>4. CASE Setup
  <2>1. CoreKept /\ Moves("Setup", "StartEngine")
    BY <1>4, SetupStep
  <2>2. Onward
    BY <2>1 DEF Onward, ToPublish
  <2>3. /\ Handles(Main, Orchestrator, "Setup", To(Builder, "StartEngine"))
        /\ UNCHANGED <<main, result, orchestrator, published, stored, coordinator>>
    BY <1>4 DEF Setup, mainVars, actorVars
  <2>4. ToMain' = ToMain /\ ToOrchestrator' = ToOrchestrator
    BY <1>0, <1>2, <1>3, <2>3, OrchestratorTakes
  <2> QED
    BY <2>1, <2>2, <2>3, <2>4, DistantStep DEF Distant, ResultsKept, Tame
<1>5. CASE SetupRaises
  <2>1. OrchestratorRaises(Main, "Setup") /\ UNCHANGED <<stored, published>>
    BY <1>5 DEF SetupRaises
  <2>2. /\ CoreKept /\ Onward /\ \A t \in Stages : ~Reached(t)'
        /\ ToMain' = ToMain \o <<"BenchmarkFailure">>
        /\ ToOrchestrator' = ToOrchestrator
        /\ UNCHANGED <<main, result, orchestrator, coordinator>>
    BY <1>1, <1>3, <2>1, RaisedStep
  <2>3. Settled'
    BY <2>2 DEF Settled, Stages
  <2>4. ~Begins
    BY <2>1, HasAsked DEF OrchestratorRaises, Handles, Core
  <2>5. AnswerInv'
    BY <1>0, <1>2, <2>1, <2>2, <2>3, <2>4, AnswerSent
  <2>6. SameBooks(ToOrchestrator, ToOrchestrator')
    BY <2>2 DEF SameBooks
  <2> QED
    BY <2>1, <2>2, <2>5, <2>6, BooksStay DEF ResultsKept, Tame
<1>6. CASE EngineStarted
  <2>1. CASE faults' = faults
    <3>1. CoreKept /\ Moves("EngineStarted", "PrepareBenchmark")
      BY <1>6, <2>1, EngineStartedStep
    <3>2. Onward
      BY <3>1 DEF Onward, ToPublish
    <3>3. /\ Handles(Builder, Orchestrator, "EngineStarted", To(Coordinator, "PrepareBenchmark"))
          /\ UNCHANGED <<main, result, orchestrator, published, stored, coordinator>>
      BY <1>0, <1>6, <2>1, NoFaultCounted DEF EngineStarted, OrchestratorRaises, mainVars, actorVars
    <3>4. ToMain' = ToMain /\ ToOrchestrator' = ToOrchestrator
      BY <1>0, <1>2, <1>3, <3>3, OrchestratorTakes
    <3> QED
      BY <3>1, <3>2, <3>3, <3>4, DistantStep DEF Distant, ResultsKept, Tame
  <2>2. CASE faults' # faults
    <3>1. OrchestratorRaises(Builder, "EngineStarted") /\ UNCHANGED <<stored, published>>
      BY <1>6, <2>2 DEF EngineStarted, NoFault
    <3>2. /\ CoreKept /\ Onward /\ ToMain' = ToMain /\ ToOrchestrator' = ToOrchestrator
          /\ UNCHANGED <<main, result, orchestrator, coordinator>>
      BY <1>1, <1>3, <3>1, RaisedStep
    <3> QED
      BY <3>1, <3>2, DistantStep DEF Distant, ResultsKept, Tame
  <2> QED
    BY <2>1, <2>2
<1>7. CASE PreparationComplete
  <2>1. /\ CoreKept /\ Onward /\ ToMain' = ToMain
        /\ ToOrchestrator # <<>> /\ Head(ToOrchestrator) = "PreparationComplete"
        /\ ToOrchestrator' = Tail(ToOrchestrator)
        /\ UNCHANGED <<main, result, orchestrator, published, stored, coordinator>>
    <3>1. CASE faults' = faults
      <4>1. CoreKept /\ Moves("PreparationComplete", "StartBenchmark")
        BY <1>7, <3>1, PreparationCompleteStep
      <4>2. Onward
        BY <4>1 DEF Onward, ToPublish
      <4>3. /\ Handles(Coordinator, Orchestrator, "PreparationComplete", To(Coordinator, "StartBenchmark"))
            /\ UNCHANGED <<main, result, orchestrator, published, stored, coordinator>>
        BY <1>0, <1>7, <3>1, NoFaultCounted DEF PreparationComplete, OrchestratorRaises, mainVars, actorVars
      <4> QED
        BY <1>0, <1>2, <1>3, <4>1, <4>2, <4>3, OrchestratorTakes
    <3>2. CASE faults' # faults
      <4>1. OrchestratorRaises(Coordinator, "PreparationComplete") /\ UNCHANGED <<stored, published>>
        BY <1>7, <3>2 DEF PreparationComplete, NoFault
      <4> QED
        BY <1>1, <1>3, <4>1, RaisedStep
    <3> QED
      BY <3>1, <3>2
  <2>2. AnswerInv'
    BY <2>1, AnswersStay
  <2>3. StoredInv'
    <3>1. Head(ToOrchestrator) \notin {"TaskFinished", "BenchmarkComplete"}
      BY <2>1
    <3>2. ToOrchestrator \in Seq(Messages)
      BY <1>0, BookTypes
    <3>3. SameBooks(ToOrchestrator, ToOrchestrator')
      BY <2>1, <3>1, <3>2, HandleBooks
    <3> QED
      BY <2>1, <3>3, BooksStay DEF Tame
  <2> QED
    BY <2>1, <2>2, <2>3 DEF ResultsKept
<1> QED
  BY <1>4, <1>5, <1>6, <1>7

\* An element's metrics are stored, unless that fails.
LEMMA TaskFinishedStep ==
    ASSUME Core, AnswerInv, StoredInv, Tame, TaskFinished
    PROVE  CoreKept /\ ResultsKept
<1>0. TypeOK /\ NetOK(net)
  BY DEF Core, TypeOK, NetOK
<1>1. CoreKept /\ Onward
  BY <1>0, OrchestratorIsCalm, CalmCore
<1>2. Builder # Main /\ Coordinator # Main /\ "ResetRelativeTime" \in Messages /\ "BenchmarkFailure" \in Messages
  BY DEF Builder, Main, Coordinator, Messages
<1>3. /\ \/ Handles(Coordinator, Orchestrator, "TaskFinished", To(Builder, "ResetRelativeTime"))
         \/ Handles(Coordinator, Orchestrator, "TaskFinished", To(Coordinator, "BenchmarkFailure"))
      /\ UNCHANGED <<main, result, orchestrator, published, coordinator>>
  BY DEF TaskFinished, OrchestratorRaises, mainVars
<1>4. /\ ToMain' = ToMain
      /\ ToOrchestrator # <<>> /\ Head(ToOrchestrator) = "TaskFinished"
      /\ ToOrchestrator' = Tail(ToOrchestrator)
  BY <1>0, <1>2, <1>3, OrchestratorTakes
<1>5. stored' = stored + 1 \/ (stored' = stored /\ faults' # 0)
  <2>1. CASE stored' = stored + 1
    BY <2>1
  <2>2. CASE stored' # stored + 1
    <3>1. OrchestratorRaises(Coordinator, "TaskFinished") /\ stored' = stored
      BY <2>2 DEF TaskFinished
    <3>2. faults \in 0 .. MaxFaults /\ MaxFaults \in Nat
      BY <1>0, BoundsAssumption DEF TypeOK
    <3>3. faults' = faults + 1
      BY <3>1 DEF OrchestratorRaises, Fault
    <3> QED
      BY <3>1, <3>2, <3>3
  <2> QED
    BY <2>1, <2>2
<1>6. AnswerInv'
  BY <1>1, <1>3, <1>4, AnswersStay
<1>7. stored' = stored + (IF Head(ToOrchestrator) \in {"TaskFinished", "BenchmarkComplete"} THEN 1 ELSE 0)
        \/ (stored' = stored /\ faults' # 0)
  BY <1>4, <1>5
<1>8. StoredInv'
  BY <1>0, <1>3, <1>4, <1>7, TakeReport
<1> QED
  BY <1>1, <1>6, <1>8 DEF ResultsKept

\* The last element's metrics are stored and the results published, unless that fails.
LEMMA CompletedStep ==
    ASSUME Core, AnswerInv, StoredInv, Tame, BenchmarkComplete
    PROVE  CoreKept /\ ResultsKept
<1>0. TypeOK /\ NetOK(net)
  BY DEF Core, TypeOK, NetOK
<1>1. /\ Way("BenchmarkComplete") = <<Coordinator, Orchestrator>> /\ "BenchmarkComplete" \in HandOvers
      /\ Coordinator # Main /\ "BenchmarkComplete" \in SentOnce
  BY WayOf DEF HandOvers, Coordinator, Main, SentOnce
<1>2. <<Coordinator, Orchestrator>> \in Channels /\ <<Orchestrator, Main>> \in Channels
  BY Ways
<1>3. Once(ToOrchestrator, "BenchmarkComplete")
  BY <1>1, <1>2 DEF Core, StageInv, NothingTwice, ToOrchestrator
<1>4. ~Begins
  BY HasAsked DEF BenchmarkComplete, OrchestratorRaises, Handles, Core
<1>5. CASE faults' = faults
  <2> DEFINE out == [a \in {Coordinator, Builder} |->
                       IF a = Builder THEN <<"StopEngine">> ELSE <<"ActorExitRequest">>]
  <2>1. CoreKept /\ Moves("BenchmarkComplete", "StopEngine")
    BY <1>5, BenchmarkCompleteStep
  <2>2. /\ Handles(Coordinator, Orchestrator, "BenchmarkComplete", out)
        /\ stored' = stored + 1 /\ published' = Publishes
        /\ UNCHANGED <<main, result, orchestrator, coordinator>>
    BY <1>0, <1>5, NoFaultCounted DEF BenchmarkComplete, OrchestratorRaises, mainVars
  <2>3. DOMAIN out = {Coordinator, Builder}
    OBVIOUS
  <2> HIDE DEF out
  <2>4. ToMain' = ToMain
    <3>1. Main \notin DOMAIN out /\ Orchestrator # Main
      BY <2>3 DEF Main, Coordinator, Builder, Orchestrator
    <3> QED
      BY <1>0, <1>2, <2>2, <3>1, Aside
  <2>5. /\ ToOrchestrator # <<>> /\ Head(ToOrchestrator) = "BenchmarkComplete"
        /\ ToOrchestrator' = Tail(ToOrchestrator)
    <3>1. /\ net[<<Coordinator, Orchestrator>>] # <<>>
          /\ Head(net[<<Coordinator, Orchestrator>>]) = "BenchmarkComplete"
          /\ net' = Posted(Popped(Coordinator, Orchestrator), Orchestrator, out)
      BY <2>2 DEF Handles, Pending
    <3>2. Popped(Coordinator, Orchestrator)[<<Coordinator, Orchestrator>>] = Tail(net[<<Coordinator, Orchestrator>>])
      BY <1>0, <1>2, <3>1, PoppedFrom
    <3>3. net'[<<Coordinator, Orchestrator>>] = Popped(Coordinator, Orchestrator)[<<Coordinator, Orchestrator>>]
      BY <1>2, <3>1 DEF Posted, Coordinator, Orchestrator
    <3> QED
      BY <3>1, <3>2, <3>3 DEF ToOrchestrator
  <2>6. stored' = stored + (IF Head(ToOrchestrator) \in {"TaskFinished", "BenchmarkComplete"} THEN 1 ELSE 0)
    BY <2>2, <2>5
  <2>7. StoredInv'
    BY <1>0, <1>3, <2>2, <2>5, <2>6, TakeReport
  <2>8. Reached("BenchmarkComplete") /\ \A s \in ToPublish : ~Reached(s)'
    BY <2>1 DEF Moves, Stages, ToPublish
  <2>9. AnswerInv'
    BY <1>4, <2>2, <2>4, <2>8, PublishStep
  <2> QED
    BY <2>1, <2>7, <2>9 DEF ResultsKept
<1>6. CASE faults' # faults
  <2>1. /\ OrchestratorRaises(Coordinator, "BenchmarkComplete")
        /\ stored' \in {stored, stored + 1}
    BY <1>6 DEF BenchmarkComplete, NoFault
  <2>2. /\ CoreKept /\ Reached("BenchmarkComplete") /\ \A t \in Stages : ~Reached(t)'
        /\ ToMain' = ToMain
        /\ ToOrchestrator # <<>> /\ Head(ToOrchestrator) = "BenchmarkComplete"
        /\ ToOrchestrator' = Tail(ToOrchestrator)
        /\ UNCHANGED <<main, result, orchestrator, coordinator>> /\ faults' # 0
    BY <1>1, <2>1, RaisedStep
  <2>3. stored' = stored + (IF Head(ToOrchestrator) \in {"TaskFinished", "BenchmarkComplete"} THEN 1 ELSE 0)
          \/ (stored' = stored /\ faults' # 0)
    BY <2>1, <2>2
  <2>4. StoredInv'
    BY <1>0, <1>3, <2>2, <2>3, TakeReport
  <2>5. \A s \in ToPublish : ~Reached(s)'
    BY <2>2 DEF Stages
  <2>6. AnswerInv'
    BY <1>4, <2>2, <2>5, PublishStep
  <2> QED
    BY <2>2, <2>4, <2>6 DEF ResultsKept
<1> QED
  BY <1>5, <1>6

\* Success, cancellations and failures are passed on to the main process.
LEMMA AnsweringSteps ==
    ASSUME Core, AnswerInv, StoredInv, Tame,
           \/ EngineStopped
           \/ \E src \in {Main, Coordinator} : Cancelled(src)
           \/ \E src \in {Builder, Coordinator}, msg \in {"BenchmarkFailure", "PoisonMessage"} : ForwardFailure(src, msg)
    PROVE  CoreKept /\ ResultsKept
<1>0. TypeOK /\ NetOK(net)
  BY DEF Core, TypeOK, NetOK
<1>1. {"Success", "BenchmarkCancelled", "BenchmarkFailure", "PoisonMessage"} \subseteq Messages
  BY DEF Messages
<1>2. ASSUME CoreKept, Onward, NEW src \in {Main, Builder, Coordinator},
             NEW msg \in {"EngineStopped", "BenchmarkCancelled", "BenchmarkFailure", "PoisonMessage"},
             NEW m \in Messages, Handles(src, Orchestrator, msg, To(Main, m)),
             UNCHANGED <<main, result, published, stored, coordinator>>, Settled',
             main = "asking" /\ ToMain = <<>> /\ m = "Success" => published
      PROVE  CoreKept /\ ResultsKept
  <2>1. /\ ToMain' = ToMain \o <<m>>
        /\ IF src = Coordinator
           THEN /\ ToOrchestrator # <<>> /\ Head(ToOrchestrator) = msg
                /\ ToOrchestrator' = Tail(ToOrchestrator)
           ELSE ToOrchestrator' = ToOrchestrator
    BY <1>0, <1>2, OrchestratorTakes
  <2>2. ~Begins
    BY <1>2, HasAsked DEF Handles, Core
  <2>3. AnswerInv'
    BY <1>0, <1>2, <2>1, <2>2, AnswerSent
  <2>4. SameBooks(ToOrchestrator, ToOrchestrator')
    <3>1. CASE src = Coordinator
      <4>1. ToOrchestrator \in Seq(Messages)
        BY <1>0, BookTypes
      <4>2. Head(ToOrchestrator) \notin {"TaskFinished", "BenchmarkComplete"}
        BY <2>1, <3>1
      <4> QED
        BY <2>1, <3>1, <4>1, <4>2, HandleBooks
    <3>2. CASE src # Coordinator
      BY <2>1, <3>2 DEF SameBooks
    <3> QED
      BY <3>1, <3>2
  <2>5. StoredInv'
    BY <1>2, <2>4, BooksStay DEF Tame
  <2> QED
    BY <1>2, <2>3, <2>5 DEF ResultsKept
<1>3. CASE EngineStopped
  <2>1. CoreKept /\ Moves("EngineStopped", "Success")
    BY <1>3, EngineStoppedStep
  <2>2. /\ Handles(Builder, Orchestrator, "EngineStopped", To(Main, "Success"))
        /\ UNCHANGED <<main, result, published, stored, coordinator>>
    BY <1>3 DEF EngineStopped, mainVars, actorVars
  <2>3. Onward
    BY <2>1 DEF Onward, ToEnd
  <2>4. Settled'
    BY <2>1 DEF Settled, Moves, Stages, ToPublish
  <2>5. main = "asking" /\ ToMain = <<>> => published
    BY <2>1 DEF AnswerInv, Moves, ToEnd
  <2> QED
    BY <1>1, <1>2, <2>1, <2>2, <2>3, <2>4, <2>5
<1>4. ASSUME NEW src \in {Main, Coordinator}, Cancelled(src) PROVE CoreKept /\ ResultsKept
  <2>1. CoreKept /\ Onward
    BY <1>0, <1>4, OrchestratorIsCalm, CalmCore
  <2>2. /\ Handles(src, Orchestrator, "BenchmarkCancelled", To(Main, "BenchmarkCancelled"))
        /\ orchestrator' = [orchestrator EXCEPT !.cancelled = TRUE]
        /\ UNCHANGED <<main, result, published, stored, coordinator>>
    BY <1>4 DEF Cancelled, mainVars
  <2>3. Settled'
    <3>1. orchestrator'.cancelled
      BY <1>0, <2>2 DEF TypeOK
    <3> QED
      BY <3>1 DEF Settled, Publishes
  <2> QED
    BY <1>1, <1>2, <2>1, <2>2, <2>3
<1>5. ASSUME NEW src \in {Builder, Coordinator}, NEW msg \in {"BenchmarkFailure", "PoisonMessage"},
             ForwardFailure(src, msg)
      PROVE  CoreKept /\ ResultsKept
  <2>1. CoreKept /\ Onward
    BY <1>0, <1>5, OrchestratorIsCalm, CalmCore
  <2>2. /\ Handles(src, Orchestrator, msg, To(Main, msg))
        /\ orchestrator' = [orchestrator EXCEPT !.error = TRUE]
        /\ UNCHANGED <<main, result, published, stored, coordinator>>
    BY <1>5 DEF ForwardFailure, mainVars
  <2>3. Settled'
    <3>1. orchestrator'.error
      BY <1>0, <2>2 DEF TypeOK
    <3> QED
      BY <3>1 DEF Settled, Publishes
  <2>4. msg \in Messages /\ msg # "Success"
    BY <1>1
  <2> QED
    BY <1>2, <2>1, <2>2, <2>3, <2>4
<1> QED
  BY <1>3, <1>4, <1>5

\* All steps of the orchestrator
LEMMA OrchestratorKeeps ==
    ASSUME Core, AnswerInv, StoredInv, Tame, OrchestratorStep
    PROVE  CoreKept /\ ResultsKept
<1>0. TypeOK /\ NetOK(net)
  BY DEF Core, TypeOK, NetOK
<1>1. ASSUME NEW src \in {Builder, Coordinator}, IgnoreChildExit(src, Orchestrator) PROVE CoreKept /\ ResultsKept
  <2>1. CoreKept /\ Onward
    BY <1>0, <1>1, OrchestratorIsCalm, CalmCore
  <2>2. /\ Handles(src, Orchestrator, "ChildActorExited", Nothing)
        /\ UNCHANGED <<main, result, orchestrator, published, stored, coordinator>>
    BY <1>1 DEF IgnoreChildExit, mainVars, actorVars
  <2>3. /\ ToMain' = ToMain
        /\ IF src = Coordinator
           THEN /\ ToOrchestrator # <<>> /\ Head(ToOrchestrator) = "ChildActorExited"
                /\ ToOrchestrator' = Tail(ToOrchestrator)
           ELSE ToOrchestrator' = ToOrchestrator
    BY <1>0, <2>2, OrchestratorTakes
  <2>4. SameBooks(ToOrchestrator, ToOrchestrator')
    <3>1. CASE src = Coordinator
      <4>1. ToOrchestrator \in Seq(Messages)
        BY <1>0, BookTypes
      <4>2. Head(ToOrchestrator) \notin {"TaskFinished", "BenchmarkComplete"}
        BY <2>3, <3>1
      <4> QED
        BY <2>3, <3>1, <4>1, <4>2, HandleBooks
    <3>2. CASE src # Coordinator
      BY <2>3, <3>2 DEF SameBooks
    <3> QED
      BY <3>1, <3>2
  <2>5. AnswerInv' /\ StoredInv'
    BY <2>1, <2>2, <2>3, <2>4, AnswersStay, BooksStay DEF Tame
  <2> QED
    BY <2>1, <2>5 DEF ResultsKept
<1> QED
  BY <1>1, FirstSteps, TaskFinishedStep, CompletedStep, AnsweringSteps DEF OrchestratorStep

-----------------------------------------------------------------------------
(* The steps of the main process *)

\* The main process goes on without an answer, or has not got as far as asking.
LEMMA WithoutAnswer ==
    ASSUME AnswerInv, Onward, UNCHANGED <<orchestrator, published>>, ToMain' = ToMain,
           Begins' => Begins, main' \notin {"asking"},
           main' = "cancelling" => main = "asking",
           \/ result' = result
           \/ result' = "interrupted"
           \/ result' = "failure" /\ Settled' /\ main' = "teardown",
           main' \in {"cancelling"} \/ Begins' => result' = result
    PROVE  AnswerInv'
<1>1. /\ (\E s \in ToPublish : Reached(s)') => \E s \in ToPublish : Reached(s)
      /\ (\E s \in ToEnd : Reached(s)') => \E s \in ToEnd : Reached(s)
  BY OnwardOnly
<1>2. Publishes' <=> Publishes
  BY DEF Publishes
<1>3. Settled => Settled'
  BY <1>1, <1>2 DEF Settled
<1>4. (\E s \in ToPublish : Reached(s)') => ~published'
  BY <1>1 DEF AnswerInv
<1>5. ToMain' # <<>> \/ result' \in {"success", "cancelled", "failure"} => Settled'
  BY <1>3 DEF AnswerInv
<1>6. /\ Begins' => ToMain' = <<>> /\ Publishes' /\ result' = "none"
      /\ result' = "success" => published'
      /\ main' \in {"asking", "cancelling"} => result' = "none"
  BY <1>2 DEF AnswerInv
<1> QED
  BY <1>4, <1>5, <1>6 DEF AnswerInv

\* The main process does not touch the worker coordinator's reports.
LEMMA MainBooks ==
    ASSUME TypeOK, StoredInv, Tame, MainStep
    PROVE  StoredInv'
<1>0. NetOK(net)
  BY DEF TypeOK, NetOK
<1>1. UNCHANGED <<stored, coordinator>>
  BY DEF MainStep, Provision, AskSetup, CreateTimesOut, Answered, Interrupt, Teardown, actorVars
<1>2. /\ <<Coordinator, Orchestrator>> \in Channels /\ <<Orchestrator, Main>> \in Channels
      /\ <<Coordinator, Orchestrator>> # <<Main, Orchestrator>> /\ <<Coordinator, Orchestrator>> # <<Orchestrator, Main>>
  BY Ways DEF Main, Coordinator, Orchestrator
<1>3. ASSUME NEW m \in Messages, net' = Posted(net, Main, To(Orchestrator, m)) PROVE ToOrchestrator' = ToOrchestrator
  BY <1>0, <1>2, <1>3, SendsTo DEF ToOrchestrator
<1>4. ASSUME NEW out, net' = Posted(Popped(Orchestrator, Main), Main, out), net[<<Orchestrator, Main>>] # <<>>
      PROVE ToOrchestrator' = ToOrchestrator
  <2>1. Popped(Orchestrator, Main)[<<Coordinator, Orchestrator>>] = net[<<Coordinator, Orchestrator>>]
    BY <1>0, <1>2, <1>4, PoppedFrom
  <2>2. net'[<<Coordinator, Orchestrator>>] = Popped(Orchestrator, Main)[<<Coordinator, Orchestrator>>]
    BY <1>2, <1>4 DEF Posted, Coordinator, Main, Orchestrator
  <2> QED
    BY <2>1, <2>2 DEF ToOrchestrator
<1>5. {"Setup", "ActorExitRequest", "BenchmarkCancelled"} \subseteq Messages
  BY DEF Messages
<1>6. ToOrchestrator' = ToOrchestrator
  <2>1. CASE Provision \/ CreateTimesOut \/ Teardown
    BY <2>1 DEF Provision, CreateTimesOut, Teardown, ToOrchestrator
  <2>2. CASE AskSetup
    BY <1>3, <1>5, <2>2 DEF AskSetup
  <2>3. CASE Answered
    BY <1>4, <2>3 DEF Answered
  <2>4. CASE Interrupt
    BY <1>3, <1>5, <2>4 DEF Interrupt
  <2> QED
    BY <2>1, <2>2, <2>3, <2>4 DEF MainStep
<1>7. SameBooks(ToOrchestrator, ToOrchestrator')
  BY <1>6 DEF SameBooks
<1> QED
  BY <1>1, <1>7, BooksStay DEF Tame

\* The main process takes the answer.
LEMMA AnsweredKeeps ==
    ASSUME Core, AnswerInv, Answered
    PROVE  CoreKept /\ AnswerInv'
<1>1. CoreKept /\ Onward
  <2>1. CASE CoreKept /\ Moves("Success", "success")
    BY <2>1 DEF Onward, ToEnd
  <2>2. CASE Calm
    BY <2>2, CalmCore
  <2> QED
    BY <2>1, <2>2, AnsweredStep
<1>2. /\ main \in {"asking", "cancelling"} /\ ToMain # <<>> /\ main' = "teardown"
      /\ result' = "success" => main = "asking" /\ Head(ToMain) = "Success"
      /\ UNCHANGED <<orchestrator, published>>
  BY DEF Answered, ToMain, actorVars
<1>3. /\ (\E s \in ToPublish : Reached(s)') => \E s \in ToPublish : Reached(s)
      /\ (\E s \in ToEnd : Reached(s)') => \E s \in ToEnd : Reached(s)
  BY <1>1, OnwardOnly
<1>4. Publishes' <=> Publishes
  BY <1>2 DEF Publishes
<1>5. Settled'
  BY <1>2, <1>3, <1>4 DEF Settled, AnswerInv
<1>6. (\E s \in ToPublish : Reached(s)') => ~published'
  BY <1>2, <1>3 DEF AnswerInv
<1>7. result' = "success" => published'
  BY <1>2 DEF AnswerInv
<1>8. ~Begins'
  BY <1>2 DEF Begins
<1> QED
  BY <1>1, <1>2, <1>5, <1>6, <1>7, <1>8 DEF AnswerInv

\* All steps of the main process
LEMMA MainKeeps ==
    ASSUME Core, AnswerInv, StoredInv, Tame, MainStep
    PROVE  CoreKept /\ ResultsKept
<1>0. TypeOK /\ NetOK(net)
  BY DEF Core, TypeOK, NetOK
<1>1. StoredInv'
  BY <1>0, MainBooks
<1>2. UNCHANGED <<orchestrator, published>>
  BY DEF MainStep, Provision, AskSetup, CreateTimesOut, Answered, Interrupt, Teardown, actorVars
<1>3. <<Orchestrator, Main>> \in Channels /\ <<Orchestrator, Main>> # <<Main, Orchestrator>>
  BY Ways DEF Main, Orchestrator
<1>4. ASSUME NEW m \in Messages, net' = Posted(net, Main, To(Orchestrator, m)) PROVE ToMain' = ToMain
  BY <1>0, <1>3, <1>4, SendsTo DEF ToMain
<1>5. {"Setup", "ActorExitRequest", "BenchmarkCancelled"} \subseteq Messages
  BY DEF Messages
\* Who gives up before asking leaves nothing to publish.
<1>6. ASSUME CoreKept, Stays, Begins, ~Begins' PROVE Settled'
  <2>1. Reached("begin") /\ ~Reached("begin")' /\ "begin" \in Stages
    BY <1>6 DEF Reached, Works, HandOvers, Stages, ToPublish
  <2>2. \A s \in Stages : ~Reached(s)'
    BY <1>6, <2>1 DEF Stays, Core, StageInv, OneStage
  <2> QED
    BY <2>2 DEF Settled, Stages
<1>7. CASE Provision \/ CreateTimesOut \/ Teardown
  <2>1. CoreKept /\ Onward /\ Stays
    BY <1>0, <1>7, MainIsCalm, CalmCore
  <2>2. ToMain' = ToMain
    BY <1>7 DEF Provision, CreateTimesOut, Teardown, ToMain
  <2>3. /\ Begins' => Begins
        /\ main' \notin {"asking", "cancelling"}
        /\ result' = result \/ (result' = "failure" /\ main' = "teardown" /\ Begins)
        /\ Begins' => result' = result
    BY <1>7 DEF Provision, CreateTimesOut, Teardown, Begins
  <2>4. result' = result \/ (result' = "failure" /\ Settled' /\ main' = "teardown")
    BY <1>6, <2>1, <2>3 DEF Begins
  <2>5. AnswerInv'
    BY <1>2, <2>1, <2>2, <2>3, <2>4, WithoutAnswer
  <2> QED
    BY <1>1, <2>1, <2>5 DEF ResultsKept
<1>8. CASE Interrupt
  <2>1. CoreKept /\ Onward
    BY <1>0, <1>8, MainIsCalm, CalmCore
  <2>2. ToMain' = ToMain
    BY <1>4, <1>5, <1>8 DEF Interrupt
  <2>3. /\ ~Begins' /\ main' # "asking"
        /\ main' = "cancelling" => main = "asking" /\ result' = result
        /\ result' = result \/ result' = "interrupted"
    BY <1>8 DEF Interrupt, Begins
  <2>4. AnswerInv'
    BY <1>2, <2>1, <2>2, <2>3, WithoutAnswer
  <2> QED
    BY <1>1, <2>1, <2>4 DEF ResultsKept
<1>9. CASE AskSetup
  <2>1. CoreKept /\ Moves("begin", "Setup")
    BY <1>9, AskSetupStep
  <2>2. /\ ToMain' = ToMain
    BY <1>4, <1>5, <1>9 DEF AskSetup
  <2>3. Begins /\ ~Begins' /\ main' = "asking" /\ result' = result
    BY <1>9 DEF AskSetup, Begins
  <2>4. ToMain' = <<>> /\ Publishes' /\ result' = "none" /\ ~published'
    <3>1. Reached("begin") /\ "begin" \in ToPublish
      BY <2>3 DEF Reached, Works, HandOvers, ToPublish
    <3> QED
      BY <1>2, <2>2, <2>3, <3>1 DEF AnswerInv, Publishes
  <2>5. \A s \in ToEnd : ~Reached(s)'
    BY <2>1 DEF Moves, Stages, ToEnd
  <2>6. AnswerInv'
    BY <2>3, <2>4, <2>5 DEF AnswerInv
  <2> QED
    BY <1>1, <2>1, <2>6 DEF ResultsKept
<1>10. CASE Answered
  BY <1>1, <1>10, AnsweredKeeps DEF ResultsKept
<1> QED
  BY <1>7, <1>8, <1>9, <1>10 DEF MainStep

-----------------------------------------------------------------------------
(* Types *)

\* The types of the variables
Setups == [external : BOOLEAN, provisions : BOOLEAN]
Mains == {"provision", "create", "create again", "asking", "cancelling", "teardown", "done"}
Results == {"none", "success", "cancelled", "failure", "interrupted"}
Orchestrators == [cancelled : BOOLEAN, error : BOOLEAN]
Builders == [status : {"none", "starting", "cluster_started", "cluster_stopping", "cluster_stopped"},
             children : Seq(Hosts \union {NoChild}), responses : Nat]
Dispatchers == [pending : SUBSET Hosts, remotes : SUBSET Hosts]
NodeStates == [builder : BOOLEAN, nodes : BOOLEAN, up : BOOLEAN, failed : BOOLEAN]
Coordinators == [phase : {"none", "preparing", "prepared", "running", "complete"}, left : 0 .. Tasks]

\* TypeOK without the bounds of the counters
Shape ==
    /\ setup \in Setups /\ main \in Mains /\ result \in Results
    /\ solr \in BOOLEAN /\ published \in BOOLEAN
    /\ orchestrator \in Orchestrators /\ stored \in Nat
    /\ builder \in Builders /\ dispatcher \in Dispatchers
    /\ node \in [Hosts -> NodeStates] /\ coordinator \in Coordinators
    /\ alive \subseteq Actors /\ died \subseteq Actors

\* TypeOK is more.
LEMMA ShapeOfType == ASSUME TypeOK PROVE Shape /\ NetOK(net)
<1>1. stored \in 0 .. Tasks /\ Tasks \in Nat
  BY BoundsAssumption DEF TypeOK
<1>2. stored \in Nat
  BY <1>1
<1> QED
  BY <1>2 DEF Shape, TypeOK, NetOK, Setups, Mains, Results, Orchestrators, Builders, Dispatchers, NodeStates,
              Coordinators

\* The messages that are sent are messages.
LEMMA NetTyped ==
    ASSUME NetOK(net)
    PROVE  /\ \A src, me, msg, out :
                 Handles(src, me, msg, out) /\ <<src, me>> \in Channels
                 /\ (\A a \in DOMAIN out : out[a] \in Seq(Messages)) => NetOK(net')
           /\ \A me, out :
                 net' = Posted(net, me, out) /\ (\A a \in DOMAIN out : out[a] \in Seq(Messages)) => NetOK(net')
           /\ \A src, me, msg : Handles(src, me, msg, Nothing) /\ <<src, me>> \in Channels => NetOK(net')
           /\ \A src, me, msg, a : \A m \in Messages :
                 Handles(src, me, msg, To(a, m)) /\ <<src, me>> \in Channels => NetOK(net')
           /\ \A src, me, msg, S : \A m \in Messages :
                 Handles(src, me, msg, ToAll(S, m)) /\ <<src, me>> \in Channels => NetOK(net')
           /\ \A me, a : \A m \in Messages : net' = Posted(net, me, To(a, m)) => NetOK(net')
           /\ \A me, S : \A m \in Messages : net' = Posted(net, me, ToAll(S, m)) => NetOK(net')
<1>1. ASSUME NEW src, NEW me, NEW msg, NEW out, Handles(src, me, msg, out), <<src, me>> \in Channels,
             \A a \in DOMAIN out : out[a] \in Seq(Messages)
      PROVE  NetOK(net')
  <2>1. net[<<src, me>>] # <<>> /\ net' = Posted(Popped(src, me), me, out)
    BY <1>1 DEF Handles, Pending
  <2>2. NetOK(Popped(src, me))
    BY <1>1, <2>1, PoppedFrom
  <2>3. NetOK(Posted(Popped(src, me), me, out))
    BY <1>1, <2>2, PostedTo
  <2> QED
    BY <2>1, <2>3
<1>2. ASSUME NEW me, NEW out, net' = Posted(net, me, out), \A a \in DOMAIN out : out[a] \in Seq(Messages)
      PROVE  NetOK(net')
  <2>1. NetOK(Posted(net, me, out))
    BY <1>2, PostedTo
  <2> QED
    BY <1>2, <2>1
<1>3. \A a \in DOMAIN Nothing : Nothing[a] \in Seq(Messages)
  BY DEF Nothing
<1>4. ASSUME NEW x, NEW m \in Messages PROVE \A a \in DOMAIN To(x, m) : To(x, m)[a] \in Seq(Messages)
  BY DEF To
<1>5. ASSUME NEW S, NEW m \in Messages PROVE \A a \in DOMAIN ToAll(S, m) : ToAll(S, m)[a] \in Seq(Messages)
  BY DEF ToAll
<1>6. ASSUME NEW src, NEW me, NEW msg, Handles(src, me, msg, Nothing), <<src, me>> \in Channels PROVE NetOK(net')
  BY <1>1, <1>3, <1>6
<1>7. ASSUME NEW src, NEW me, NEW msg, NEW a, NEW m \in Messages, Handles(src, me, msg, To(a, m)), <<src, me>> \in Channels
      PROVE  NetOK(net')
  BY <1>1, <1>4, <1>7
<1>8. ASSUME NEW src, NEW me, NEW msg, NEW S, NEW m \in Messages, Handles(src, me, msg, ToAll(S, m)),
             <<src, me>> \in Channels
      PROVE  NetOK(net')
  BY <1>1, <1>5, <1>8
<1>9. ASSUME NEW me, NEW a, NEW m \in Messages, net' = Posted(net, me, To(a, m)) PROVE NetOK(net')
  BY <1>2, <1>4, <1>9
<1>10. ASSUME NEW me, NEW S, NEW m \in Messages, net' = Posted(net, me, ToAll(S, m)) PROVE NetOK(net')
  BY <1>2, <1>5, <1>10
<1> QED
  BY <1>1, <1>2, <1>6, <1>7, <1>8, <1>9, <1>10

\* The types are kept by the main process, ...
LEMMA MainTyped == ASSUME TypeOK, MainStep PROVE Shape' /\ NetOK(net')
<1>0. Shape /\ NetOK(net)
  BY ShapeOfType
<1>1. {"Setup", "ActorExitRequest", "BenchmarkCancelled"} \subseteq Messages
  BY DEF Messages
<1>2. NetOK(net')
  <2>1. CASE Provision \/ CreateTimesOut \/ Teardown
    BY <1>0, <2>1 DEF Provision, CreateTimesOut, Teardown, NetOK
  <2>2. CASE AskSetup
    BY <1>0, <1>1, <2>2, NetTyped DEF AskSetup
  <2>3. CASE Answered
    <3>1. <<Orchestrator, Main>> \in Channels /\ net[<<Orchestrator, Main>>] # <<>>
      BY <2>3, Ways DEF Answered
    <3>2. NetOK(Popped(Orchestrator, Main))
      BY <1>0, <3>1, PoppedFrom
    <3> DEFINE out == To(Orchestrator, "ActorExitRequest")
    <3>3. \A a \in DOMAIN out : out[a] \in Seq(Messages)
      BY <1>1 DEF To
    <3>4. net' = Posted(Popped(Orchestrator, Main), Main, out)
      BY <2>3 DEF Answered
    <3> HIDE DEF out
    <3>5. NetOK(Posted(Popped(Orchestrator, Main), Main, out))
      BY <3>2, <3>3, PostedTo
    <3> QED
      BY <3>4, <3>5
  <2>4. CASE Interrupt
    BY <1>0, <1>1, <2>4, NetTyped DEF Interrupt
  <2> QED
    BY <2>1, <2>2, <2>3, <2>4 DEF MainStep
<1>3. UNCHANGED <<setup, actorVars, died>>
  BY DEF MainStep, Provision, AskSetup, CreateTimesOut, Answered, Interrupt, Teardown
<1>4. main' \in Mains
  BY DEF Mains, MainStep, Provision, AskSetup, CreateTimesOut, Answered, Interrupt, Teardown
<1>5. result' \in Results
  BY <1>0 DEF Results, MainStep, Provision, AskSetup, CreateTimesOut, Answered, Interrupt, Teardown, Shape
<1>6. solr' \in BOOLEAN
  <2>1. solr \in BOOLEAN /\ setup.provisions \in BOOLEAN
    BY <1>0 DEF Shape, Setups
  <2> QED
    BY <2>1 DEF MainStep, Provision, AskSetup, CreateTimesOut, Answered, Interrupt, Teardown
<1>7. alive' \subseteq Actors
  BY <1>0 DEF MainStep, Provision, AskSetup, CreateTimesOut, Answered, Interrupt, Teardown, Shape, Actors
<1> QED
  BY <1>0, <1>2, <1>3, <1>4, <1>5, <1>6, <1>7 DEF Shape, actorVars

\* ... the orchestrator, ...
LEMMA OrchestratorTyped == ASSUME TypeOK, OrchestratorStep PROVE Shape' /\ NetOK(net')
<1>0. Shape /\ NetOK(net)
  BY ShapeOfType
<1>1. {"BenchmarkFailure", "PoisonMessage", "BenchmarkCancelled", "StartEngine", "PrepareBenchmark", "StartBenchmark",
        "ResetRelativeTime", "Success", "StopEngine", "ActorExitRequest"} \subseteq Messages
  BY DEF Messages
<1>2. \A src \in {Main, Builder, Coordinator} : <<src, Orchestrator>> \in Channels
  BY Ways
<1>3. ASSUME NEW src \in {Main, Builder, Coordinator}, NEW msg, OrchestratorRaises(src, msg) PROVE NetOK(net')
  BY <1>0, <1>1, <1>2, <1>3, NetTyped DEF OrchestratorRaises
<1>4. NetOK(net')
  <2>1. CASE Setup \/ SetupRaises
    BY <1>0, <1>1, <1>2, <1>3, <2>1, NetTyped DEF Setup, SetupRaises
  <2>2. CASE EngineStarted
    BY <1>0, <1>1, <1>2, <1>3, <2>2, NetTyped DEF EngineStarted
  <2>3. CASE PreparationComplete
    BY <1>0, <1>1, <1>2, <1>3, <2>3, NetTyped DEF PreparationComplete
  <2>4. CASE TaskFinished
    BY <1>0, <1>1, <1>2, <1>3, <2>4, NetTyped DEF TaskFinished
  <2>5. CASE BenchmarkComplete
    <3> DEFINE out == [a \in {Coordinator, Builder} |->
                         IF a = Builder THEN <<"StopEngine">> ELSE <<"ActorExitRequest">>]
    <3>1. \A a \in DOMAIN out : out[a] \in Seq(Messages)
      BY <1>1
    <3>2. OrchestratorRaises(Coordinator, "BenchmarkComplete")
            \/ Handles(Coordinator, Orchestrator, "BenchmarkComplete", out)
      BY <2>5 DEF BenchmarkComplete
    <3> HIDE DEF out
    <3>3. ASSUME Handles(Coordinator, Orchestrator, "BenchmarkComplete", out) PROVE NetOK(net')
      BY <1>0, <1>2, <3>1, <3>3, NetTyped
    <3> QED
      BY <1>3, <3>2, <3>3
  <2>6. CASE EngineStopped
    BY <1>0, <1>1, <1>2, <2>6, NetTyped DEF EngineStopped
  <2>7. ASSUME NEW src \in {Main, Coordinator}, Cancelled(src) PROVE NetOK(net')
    BY <1>0, <1>1, <1>2, <2>7, NetTyped DEF Cancelled
  <2>8. ASSUME NEW src \in {Builder, Coordinator}, NEW msg \in {"BenchmarkFailure", "PoisonMessage"},
               ForwardFailure(src, msg)
        PROVE  NetOK(net')
    BY <1>0, <1>1, <1>2, <2>8, NetTyped DEF ForwardFailure
  <2>9. ASSUME NEW src \in {Builder, Coordinator}, IgnoreChildExit(src, Orchestrator) PROVE NetOK(net')
    BY <1>0, <1>2, <2>9, NetTyped DEF IgnoreChildExit
  <2> QED
    BY <2>1, <2>2, <2>3, <2>4, <2>5, <2>6, <2>7, <2>8, <2>9 DEF OrchestratorStep
<1>5. UNCHANGED <<mainVars, builder, dispatcher, node, coordinator, died>>
  BY DEF OrchestratorStep, Setup, SetupRaises, EngineStarted, PreparationComplete, TaskFinished, BenchmarkComplete,
         EngineStopped, Cancelled, ForwardFailure, IgnoreChildExit, OrchestratorRaises, actorVars
<1>6. orchestrator' \in Orchestrators
  <2>1. orchestrator' \in {orchestrator, [orchestrator EXCEPT !.cancelled = TRUE], [orchestrator EXCEPT !.error = TRUE]}
    BY DEF OrchestratorStep, Setup, SetupRaises, EngineStarted, PreparationComplete, TaskFinished, BenchmarkComplete,
           EngineStopped, Cancelled, ForwardFailure, IgnoreChildExit, OrchestratorRaises, actorVars
  <2>2. orchestrator \in Orchestrators
    BY <1>0 DEF Shape
  <2> QED
    BY <2>1, <2>2 DEF Orchestrators
<1>7. stored' \in Nat
  <2>1. stored' \in {stored, stored + 1}
    BY DEF OrchestratorStep, Setup, SetupRaises, EngineStarted, PreparationComplete, TaskFinished, BenchmarkComplete,
           EngineStopped, Cancelled, ForwardFailure, IgnoreChildExit, OrchestratorRaises, actorVars
  <2>2. stored \in Nat
    BY <1>0 DEF Shape
  <2> QED
    BY <2>1, <2>2
<1>8. published' \in BOOLEAN
  <2>1. published \in BOOLEAN /\ Publishes \in BOOLEAN
    BY <1>0 DEF Shape, Publishes
  <2>2. published' = published \/ published' = FALSE \/ published' = Publishes
    BY DEF OrchestratorStep, Setup, SetupRaises, EngineStarted, PreparationComplete, TaskFinished, BenchmarkComplete,
           EngineStopped, Cancelled, ForwardFailure, IgnoreChildExit, actorVars
  <2> QED
    BY <2>1, <2>2
<1>9. alive' \subseteq Actors
  <2>1. alive' \subseteq alive \union {Builder, Coordinator}
    BY DEF OrchestratorStep, Setup, SetupRaises, EngineStarted, PreparationComplete, TaskFinished, BenchmarkComplete,
           EngineStopped, Cancelled, ForwardFailure, IgnoreChildExit, OrchestratorRaises
  <2> QED
    BY <1>0, <2>1 DEF Shape, Actors
<1>10. /\ setup' = setup /\ main' = main /\ result' = result /\ solr' = solr
       /\ builder' = builder /\ dispatcher' = dispatcher /\ node' = node /\ coordinator' = coordinator /\ died' = died
  BY <1>5 DEF mainVars
<1>11. Shape'
  BY <1>0, <1>6, <1>7, <1>8, <1>9, <1>10 DEF Shape
<1> QED
  BY <1>4, <1>11

\* ... the builder, whose list of children keeps its length, ...
LEMMA BuilderTyped == ASSUME Core, BuilderStep PROVE Shape' /\ NetOK(net')
<1>0. Shape /\ NetOK(net) /\ TypeOK
  BY ShapeOfType DEF Core
<1>1. {"EngineStarted", "StartEngine", "BenchmarkFailure", "EngineStopped", "StopNodes", "ActorExitRequest"} \subseteq Messages
  BY DEF Messages
<1>2. /\ <<Orchestrator, Builder>> \in Channels
      /\ \A src \in {Orchestrator, Dispatcher} \union Hosts : <<src, Builder>> \in Channels
  BY Ways
<1>3. builder \in Builders
  BY <1>0 DEF Shape
<1>4. NetOK(net')
  <2>1. CASE StartEngine
    BY <1>0, <1>1, <1>2, <2>1, NetTyped DEF StartEngine
  <2>2. CASE StopEngine
    BY <1>0, <1>1, <1>2, <2>2, NetTyped DEF StopEngine
  <2>3. CASE ResetRelativeTime
    BY <1>0, <1>2, <2>3, NetTyped DEF ResetRelativeTime
  <2>4. ASSUME NEW h \in Hosts, NodesStarted(h) PROVE NetOK(net')
    BY <1>0, <1>1, <1>2, <2>4, NetTyped DEF NodesStarted
  <2>5. ASSUME NEW h \in Hosts, NodesStopped(h) PROVE NetOK(net')
    <3> DEFINE out == [a \in ActualChildren \union {Orchestrator} |->
                         IF a = Orchestrator THEN <<"EngineStopped">> ELSE <<"ActorExitRequest">>]
    <3>1. \A a \in DOMAIN out : out[a] \in Seq(Messages)
      BY <1>1
    <3>2. Handles(h, Builder, "NodesStopped", out) \/ Handles(h, Builder, "NodesStopped", Nothing)
      BY <2>5 DEF NodesStopped
    <3> HIDE DEF out
    <3>3. ASSUME Handles(h, Builder, "NodesStopped", out) PROVE NetOK(net')
      BY <1>0, <1>2, <3>1, <3>3, NetTyped
    <3>4. ASSUME Handles(h, Builder, "NodesStopped", Nothing) PROVE NetOK(net')
      BY <1>0, <1>2, <3>4, NetTyped
    <3> QED
      BY <3>2, <3>3, <3>4
  <2>6. ASSUME NEW src \in {Orchestrator, Dispatcher} \union Hosts, BuilderFails(src) PROVE NetOK(net')
    <3>1. \/ \E msg : Handles(src, Builder, msg, To(Orchestrator, "BenchmarkFailure"))
          \/ Handles(src, Builder, "ChildActorExited", Nothing)
      BY <2>6 DEF BuilderFails
    <3> QED
      BY <1>0, <1>1, <1>2, <3>1, NetTyped
  <2> QED
    BY <2>1, <2>2, <2>3, <2>4, <2>5, <2>6 DEF BuilderStep
<1>5. UNCHANGED builderOnly
  BY DEF BuilderStep, StartEngine, StopEngine, ResetRelativeTime, NodesStarted, NodesStopped, BuilderFails
<1>6. alive' \subseteq alive \union {Dispatcher}
  BY DEF BuilderStep, StartEngine, StopEngine, ResetRelativeTime, NodesStarted, NodesStopped, BuilderFails
<1>7. builder' \in Builders
  <2>1. CASE StartEngine
    <3>1. Cardinality(Hosts) \in Nat
      BY HostsAssumption, FS_CardinalityType
    <3>2. [i \in 1 .. Cardinality(Hosts) |-> NoChild] \in Seq(Hosts \union {NoChild})
      BY <3>1
    <3> DEFINE none == [i \in 1 .. Cardinality(Hosts) |-> NoChild]
    <3>3. \/ builder' = [builder EXCEPT !.status = "cluster_started"]
          \/ builder' = [status |-> "starting", responses |-> 0, children |-> none]
          \/ builder' = builder
      BY <2>1 DEF StartEngine
    <3> HIDE DEF none
    <3>4. [builder EXCEPT !.status = "cluster_started"] \in Builders
      BY <1>3 DEF Builders
    <3>5. [status |-> "starting", responses |-> 0, children |-> none] \in Builders
      BY <3>2 DEF none, Builders
    <3> QED
      BY <1>3, <3>3, <3>4, <3>5
  <2>2. CASE StopEngine
    <3>1. builder' = builder \/ builder' = [builder EXCEPT !.status = "cluster_stopping"]
      BY <2>2 DEF StopEngine
    <3> QED
      BY <1>3, <3>1 DEF Builders
  <2>3. CASE ResetRelativeTime \/ \E src \in {Orchestrator, Dispatcher} \union Hosts : BuilderFails(src)
    BY <1>3, <2>3 DEF ResetRelativeTime, BuilderFails
  <2>4. ASSUME NEW h \in Hosts, NodesStarted(h) PROVE builder' \in Builders
    <3> DEFINE children == WithChild(h)
    <3>1. builder.status = "starting"
      BY <2>4 DEF NodesStarted, AllResponded, SomeResponded
    <3>2. children \in Seq(Hosts \union {NoChild})
      <4>1. CASE h \in ActualChildren
        BY <1>3, <4>1 DEF WithChild, Builders
      <4>2. CASE h \notin ActualChildren
        BY <1>0, <3>1, <4>2, NextChild DEF Core, HostInv
      <4> QED
        BY <4>1, <4>2
    <3>3. \/ builder' = [status |-> "cluster_started", children |-> children, responses |-> 0]
          \/ builder' = [builder EXCEPT !.children = children, !.responses = @ + 1]
      BY <2>4 DEF NodesStarted
    <3>4. builder.responses + 1 \in Nat
      BY <1>3 DEF Builders
    <3> HIDE DEF children
    <3>5. [status |-> "cluster_started", children |-> children, responses |-> 0] \in Builders
      BY <3>2 DEF Builders
    <3>6. [builder EXCEPT !.children = children, !.responses = @ + 1] \in Builders
      BY <1>3, <3>2, <3>4 DEF Builders
    <3> QED
      BY <3>3, <3>5, <3>6
  <2>5. ASSUME NEW h \in Hosts, NodesStopped(h) PROVE builder' \in Builders
    <3>1. \/ builder' = [status |-> "cluster_stopped", children |-> <<>>, responses |-> 0]
          \/ builder' = [builder EXCEPT !.responses = @ + 1]
      BY <2>5 DEF NodesStopped
    <3>2. builder.responses + 1 \in Nat
      BY <1>3 DEF Builders
    <3>3. [status |-> "cluster_stopped", children |-> <<>>, responses |-> 0] \in Builders
      BY DEF Builders
    <3>4. [builder EXCEPT !.responses = @ + 1] \in Builders
      BY <1>3, <3>2 DEF Builders
    <3> QED
      BY <3>1, <3>3, <3>4
  <2> QED
    BY <2>1, <2>2, <2>3, <2>4, <2>5 DEF BuilderStep
<1>8. /\ UNCHANGED <<setup, main, result, solr>> /\ UNCHANGED <<orchestrator, stored, published>>
      /\ UNCHANGED <<dispatcher, node, coordinator, died>>
  BY <1>5 DEF builderOnly, mainVars
<1>9. alive' \subseteq Actors
  BY <1>0, <1>6 DEF Shape, Actors
<1>10. Shape'
  BY <1>0, <1>7, <1>8, <1>9 DEF Shape
<1> QED
  BY <1>4, <1>10

\* ... the dispatcher, ...
LEMMA DispatcherTyped ==
    ASSUME TypeOK, DispatcherStep \/ \E h \in Hosts : RemoteLeaves(h)
    PROVE  Shape' /\ NetOK(net')
<1>0. Shape /\ NetOK(net)
  BY ShapeOfType
<1>1. {"StartNodes", "BenchmarkFailure"} \subseteq Messages
  BY DEF Messages
<1>2. /\ <<Builder, Dispatcher>> \in Channels
      /\ \A h \in Hosts : <<h, Dispatcher>> \in Channels
  BY Ways
<1>3. dispatcher \in Dispatchers /\ Local \subseteq Hosts
  BY <1>0, HostsAssumption DEF Shape
<1>4. NetOK(net')
  <2>1. CASE Dispatch
    <3> DEFINE S == IF Local = Hosts THEN Hosts ELSE {}
    <3>1. \/ Handles(Builder, Dispatcher, "StartEngine", ToAll(S, "StartNodes"))
          \/ Handles(Builder, Dispatcher, "StartEngine", To(Builder, "BenchmarkFailure"))
      BY <2>1 DEF Dispatch
    <3> HIDE DEF S
    <3> QED
      BY <1>0, <1>1, <1>2, <3>1, NetTyped
  <2>2. ASSUME NEW h \in Hosts, RemoteJoins(h) PROVE NetOK(net')
    <3> DEFINE S == IF dispatcher.remotes = {h} THEN dispatcher.pending \union {h} ELSE {}
    <3>1. net' = Posted(net, Dispatcher, ToAll(S, "StartNodes"))
      BY <2>2 DEF RemoteJoins
    <3> HIDE DEF S
    <3> QED
      BY <1>0, <1>1, <3>1, NetTyped
  <2>3. ASSUME NEW h \in Hosts, DispatcherFails(h) PROVE NetOK(net')
    BY <1>0, <1>1, <1>2, <2>3, NetTyped DEF DispatcherFails
  <2>4. ASSUME NEW h \in Hosts, IgnoreChildExit(h, Dispatcher) PROVE NetOK(net')
    BY <1>0, <1>2, <2>4, NetTyped DEF IgnoreChildExit
  <2>5. ASSUME NEW h \in Hosts, RemoteLeaves(h) PROVE NetOK(net')
    BY <1>0, <2>5 DEF RemoteLeaves, NetOK
  <2> QED
    BY <2>1, <2>2, <2>3, <2>4, <2>5 DEF DispatcherStep
<1>5. UNCHANGED dispatcherOnly
  BY DEF DispatcherStep, Dispatch, RemoteJoins, DispatcherFails, IgnoreChildExit, RemoteLeaves, dispatcherOnly, actorVars
<1>6. alive' \subseteq alive \union Hosts /\ died' \subseteq died \union Hosts
  <2>1. CASE Dispatch
    BY <1>3, <2>1 DEF Dispatch
  <2>2. CASE \E h \in Hosts : RemoteJoins(h) \/ DispatcherFails(h) \/ IgnoreChildExit(h, Dispatcher) \/ RemoteLeaves(h)
    BY <2>2 DEF RemoteJoins, DispatcherFails, IgnoreChildExit, RemoteLeaves
  <2> QED
    BY <2>1, <2>2 DEF DispatcherStep
<1>7. dispatcher' \in Dispatchers
  <2>1. CASE Dispatch
    BY <1>3, <2>1 DEF Dispatch, Dispatchers
  <2>2. ASSUME NEW h \in Hosts, RemoteJoins(h) PROVE dispatcher' \in Dispatchers
    BY <1>3, <2>2 DEF RemoteJoins, Dispatchers
  <2>3. CASE \E h \in Hosts : DispatcherFails(h) \/ IgnoreChildExit(h, Dispatcher) \/ RemoteLeaves(h)
    BY <1>3, <2>3 DEF DispatcherFails, IgnoreChildExit, RemoteLeaves, actorVars
  <2> QED
    BY <2>1, <2>2, <2>3 DEF DispatcherStep
<1>8. /\ UNCHANGED <<setup, main, result, solr>> /\ UNCHANGED <<orchestrator, stored, published>>
      /\ UNCHANGED <<builder, node, coordinator>>
  BY <1>5 DEF dispatcherOnly, mainVars
<1>9. alive' \subseteq Actors /\ died' \subseteq Actors
  BY <1>0, <1>6 DEF Shape, Actors
<1>10. Shape'
  BY <1>0, <1>7, <1>8, <1>9 DEF Shape
<1> QED
  BY <1>4, <1>10

\* ... the node builders, ...
LEMMA NodeTyped == ASSUME TypeOK, NEW h \in Hosts, NodeStep(h) PROVE Shape' /\ NetOK(net')
<1>0. Shape /\ NetOK(net)
  BY ShapeOfType
<1>1. {"NodesStarted", "NodesStopped", "BenchmarkFailure", "ChildActorExited"} \subseteq Messages
  BY DEF Messages
<1>2. <<Builder, h>> \in Channels /\ <<Dispatcher, h>> \in Channels /\ <<h, h>> \in Channels
  BY Ways
<1>3. node \in [Hosts -> NodeStates] /\ node[h] \in NodeStates
  BY <1>0 DEF Shape
<1>4. /\ Stopped(node[h]) \in NodeStates
      /\ \A up \in {FALSE, node[h].up} : StopRaised(node[h], up) \in NodeStates
  <2>1. node[h] \in [builder : BOOLEAN, nodes : BOOLEAN, up : BOOLEAN, failed : BOOLEAN]
    BY <1>3 DEF NodeStates
  <2> QED
    BY <2>1, StoppedEntry DEF NodeStates
<1>5. ASSUME NEW n \in NodeStates, node' = [node EXCEPT ![h] = n] PROVE node' \in [Hosts -> NodeStates]
  BY <1>3, <1>5
<1>6. CASE StartNodes(h)
  <2>1. NetOK(net')
    BY <1>0, <1>1, <1>2, <1>6, NetTyped DEF StartNodes
  <2>2. node' \in [Hosts -> NodeStates]
    <3>1. CASE node' = [node EXCEPT ![h].builder = TRUE, ![h].nodes = TRUE, ![h].up = TRUE]
      <4>1. [[[node[h] EXCEPT !.builder = TRUE] EXCEPT !.nodes = TRUE] EXCEPT !.up = TRUE] \in NodeStates
        BY <1>3 DEF NodeStates
      <4>2. node' = [node EXCEPT ![h] = [[[node[h] EXCEPT !.builder = TRUE] EXCEPT !.nodes = TRUE] EXCEPT !.up = TRUE]]
        BY <1>3, <3>1
      <4> QED
        BY <1>5, <4>1, <4>2
    <3>2. ASSUME NEW created \in BOOLEAN, NEW up \in {FALSE, created},
                 node' = [node EXCEPT ![h].builder = created, ![h].up = up, ![h].failed = TRUE]
          PROVE  node' \in [Hosts -> NodeStates]
      <4>1. [[[node[h] EXCEPT !.builder = created] EXCEPT !.up = up] EXCEPT !.failed = TRUE] \in NodeStates
        BY <1>3 DEF NodeStates
      <4>2. node' = [node EXCEPT ![h] = [[[node[h] EXCEPT !.builder = created] EXCEPT !.up = up] EXCEPT !.failed = TRUE]]
        BY <1>3, <3>2
      <4> QED
        BY <1>5, <4>1, <4>2
    <3> QED
      BY <1>6, <3>1, <3>2 DEF StartNodes
  <2>3. alive' = alive /\ UNCHANGED nodeOnly
    BY <1>6 DEF StartNodes
  <2> QED
    BY <1>0, <2>1, <2>2, <2>3 DEF Shape, nodeOnly, mainVars
<1>7. CASE StopNodes(h)
  <2>1. NetOK(net')
    BY <1>0, <1>1, <1>2, <1>7, NetTyped DEF StopNodes
  <2>2. node' \in [Hosts -> NodeStates]
    <3>1. node' = [node EXCEPT ![h] = Stopped(node[h])]
            \/ \E up \in {FALSE, node[h].up} : node' = [node EXCEPT ![h] = StopRaised(node[h], up)]
      BY <1>7 DEF StopNodes
    <3> QED
      BY <1>4, <1>5, <3>1
  <2>3. alive' = alive /\ UNCHANGED nodeOnly
    BY <1>7 DEF StopNodes
  <2> QED
    BY <1>0, <2>1, <2>2, <2>3 DEF Shape, nodeOnly, mainVars
<1>8. CASE FlushRaises(h) \/ NodeReturnsFailure(h)
  <2>1. NetOK(net')
    BY <1>0, <1>1, <1>2, <1>8, NetTyped DEF FlushRaises, NodeReturnsFailure
  <2>2. UNCHANGED <<nodeOnly, node, alive>>
    BY <1>8 DEF FlushRaises, NodeReturnsFailure
  <2> QED
    BY <1>0, <2>1, <2>2 DEF Shape, nodeOnly, mainVars
<1>9. ASSUME NEW src \in {Builder, Dispatcher}, NodeExits(src, h) PROVE Shape' /\ NetOK(net')
  <2> DEFINE out == [a \in {src, Dispatcher} |-> (IF a = src THEN <<"BenchmarkFailure">> ELSE <<>>)
                                                  \o (IF a = Dispatcher THEN <<"ChildActorExited">> ELSE <<>>)]
  <2>1. /\ \/ Handles(src, h, "ActorExitRequest", To(Dispatcher, "ChildActorExited"))
           \/ Handles(src, h, "ActorExitRequest", out)
        /\ alive' = alive \ {h} /\ UNCHANGED nodeOnly
    BY <1>9 DEF NodeExits
  <2>2. \A a \in DOMAIN out : out[a] \in Seq(Messages)
    <3>1. <<"BenchmarkFailure">> \in Seq(Messages) /\ <<"ChildActorExited">> \in Seq(Messages)
      BY <1>1
    <3>2. ASSUME NEW p \in Seq(Messages), NEW q \in Seq(Messages) PROVE p \o q \in Seq(Messages)
      OBVIOUS
    <3>3. <<>> \in Seq(Messages)
      OBVIOUS
    <3> QED
      BY <3>1, <3>2, <3>3
  <2> HIDE DEF out
  <2>3. NetOK(net')
    <3>1. <<src, h>> \in Channels
      BY <1>2
    <3>2. ASSUME Handles(src, h, "ActorExitRequest", out) PROVE NetOK(net')
      BY <1>0, <2>2, <3>1, <3>2, NetTyped
    <3>3. ASSUME Handles(src, h, "ActorExitRequest", To(Dispatcher, "ChildActorExited")) PROVE NetOK(net')
      BY <1>0, <1>1, <3>1, <3>3, NetTyped
    <3> QED
      BY <2>1, <3>2, <3>3
  <2>4. node' \in [Hosts -> NodeStates]
    <3>1. \/ node' = [node EXCEPT ![h] = IF node[h].builder THEN Stopped(node[h]) ELSE node[h]]
          \/ \E up \in {FALSE, node[h].up} : node' = [node EXCEPT ![h] = StopRaised(node[h], up)]
      BY <1>9 DEF NodeExits
    <3>2. (IF node[h].builder THEN Stopped(node[h]) ELSE node[h]) \in NodeStates
      BY <1>3, <1>4
    <3> QED
      BY <1>4, <1>5, <3>1, <3>2
  <2>5. alive' \subseteq Actors
    BY <1>0, <2>1 DEF Shape
  <2>6. Shape'
    BY <1>0, <2>1, <2>4, <2>5 DEF Shape, nodeOnly, mainVars
  <2> QED
    BY <2>3, <2>6
<1> QED
  BY <1>6, <1>7, <1>8, <1>9 DEF NodeStep

\* ... the worker coordinator, ...
LEMMA CoordinatorTyped == ASSUME TypeOK, CoordinatorStep PROVE Shape' /\ NetOK(net')
<1>0. Shape /\ NetOK(net)
  BY ShapeOfType
<1>1. {"BenchmarkFailure", "BenchmarkCancelled", "PreparationComplete", "TaskFinished", "BenchmarkComplete"}
          \subseteq Messages
  BY DEF Messages
<1>2. <<Orchestrator, Coordinator>> \in Channels
  BY Ways
<1>3. coordinator \in Coordinators /\ Tasks \in Nat
  BY <1>0, BoundsAssumption DEF Shape
<1>4. UNCHANGED coordinatorOnly /\ alive' = alive
  BY DEF CoordinatorStep, CoordinatorStarts, WorkloadPrepared, FinishTask, FinishBenchmark, Reports,
         CoordinatorReturnsFailure, WorkerFails
<1>5. NetOK(net')
  <2>1. ASSUME NEW msg, NEW phase, CoordinatorStarts(msg, phase) PROVE NetOK(net')
    BY <1>0, <1>1, <1>2, <2>1, NetTyped DEF CoordinatorStarts
  <2>2. CASE WorkloadPrepared \/ FinishTask \/ FinishBenchmark
    BY <1>0, <1>1, <2>2, NetTyped DEF WorkloadPrepared, FinishTask, FinishBenchmark, Reports
  <2>3. CASE CoordinatorReturnsFailure
    BY <1>0, <1>1, <1>2, <2>3, NetTyped DEF CoordinatorReturnsFailure
  <2>4. CASE WorkerFails
    BY <1>0, <1>1, <2>4, NetTyped DEF WorkerFails
  <2> QED
    BY <2>1, <2>2, <2>3, <2>4 DEF CoordinatorStep
<1>6. coordinator' \in Coordinators
  <2>1. CASE CoordinatorStarts("PrepareBenchmark", "preparing") \/ CoordinatorStarts("StartBenchmark", "running")
             \/ WorkloadPrepared
    <3>1. coordinator' = coordinator \/ \E phase \in {"preparing", "prepared", "running"} :
             coordinator' = [coordinator EXCEPT !.phase = phase]
      BY <2>1 DEF CoordinatorStarts, WorkloadPrepared, Reports
    <3> QED
      BY <1>3, <3>1 DEF Coordinators
  <2>2. CASE FinishTask
    <3>1. coordinator.left > 1 /\ coordinator' = [coordinator EXCEPT !.left = @ - 1]
      BY <2>2 DEF FinishTask, Reports
    <3>2. coordinator.left \in 0 .. Tasks
      BY <1>3 DEF Coordinators
    <3>3. coordinator.left - 1 \in 0 .. Tasks
      BY <1>3, <3>1, <3>2
    <3> QED
      BY <1>3, <3>1, <3>3 DEF Coordinators
  <2>3. CASE FinishBenchmark
    BY <1>3, <2>3 DEF FinishBenchmark, Reports, Coordinators
  <2>4. CASE CoordinatorReturnsFailure \/ WorkerFails
    BY <1>3, <2>4 DEF CoordinatorReturnsFailure, WorkerFails
  <2> QED
    BY <2>1, <2>2, <2>3, <2>4 DEF CoordinatorStep
<1>7. Shape'
  BY <1>0, <1>4, <1>6 DEF Shape, coordinatorOnly, mainVars
<1> QED
  BY <1>5, <1>7

\* ... and by those who end.
LEMMA EndsTyped ==
    ASSUME TypeOK, \/ \E a \in Actors \ Hosts : Exits(a)
                   \/ \E a \in Actors : Dies(a)
                   \/ \E a \in Actors \ {Orchestrator} : Poisoned(a)
    PROVE  Shape' /\ NetOK(net')
<1>0. Shape /\ NetOK(net)
  BY ShapeOfType
<1>1. {"ChildActorExited", "ActorExitRequest", "PoisonMessage"} \subseteq Messages
  BY DEF Messages
<1>2. UNCHANGED <<mainVars, actorVars>>
  BY DEF Exits, Dies, Poisoned
<1>3. alive' \subseteq Actors /\ died' \subseteq Actors
  BY <1>0 DEF Exits, Dies, Poisoned, Shape
<1>4. ASSUME NEW a \in Actors \ Hosts, Exits(a) PROVE NetOK(net')
  <2> DEFINE out == [x \in ((ChildrenOf(a) \intersect alive) \union {ParentOf(a)}) \ {Main} |->
                       IF x = ParentOf(a) THEN <<"ChildActorExited">> ELSE <<"ActorExitRequest">>]
  <2>1. Handles(ParentOf(a), a, "ActorExitRequest", out)
    BY <1>4 DEF Exits
  <2>2. \A x \in DOMAIN out : out[x] \in Seq(Messages)
    BY <1>1
  <2>3. <<ParentOf(a), a>> \in Channels
    BY Family
  <2> HIDE DEF out
  <2> QED
    BY <1>0, <2>1, <2>2, <2>3, NetTyped
<1>5. ASSUME NEW a \in Actors, Dies(a) PROVE NetOK(net')
  <2>1. net' = net \/ net' = Posted(net, a, To(ParentOf(a), "ChildActorExited"))
    BY <1>5 DEF Dies
  <2>2. ASSUME net' = net PROVE NetOK(net')
    BY <1>0, <2>2
  <2> QED
    BY <1>0, <1>1, <2>1, <2>2, NetTyped
<1>6. ASSUME NEW a \in Actors \ {Orchestrator}, Poisoned(a) PROVE NetOK(net')
  <2>1. PICK msg : Pending(ParentOf(a), a, msg)
    BY <1>6 DEF Poisoned
  <2>2. Handles(ParentOf(a), a, msg, To(ParentOf(a), "PoisonMessage"))
    BY <1>6, <2>1 DEF Poisoned, Handles
  <2>3. <<ParentOf(a), a>> \in Channels
    BY Family
  <2> QED
    BY <1>0, <1>1, <2>2, <2>3, NetTyped
<1>7. NetOK(net')
  BY <1>4, <1>5, <1>6
<1>8. Shape'
  BY <1>0, <1>2, <1>3 DEF Shape, mainVars, actorVars
<1> QED
  BY <1>7, <1>8

-----------------------------------------------------------------------------
(* The inductive invariant *)

\* The number of stored elements is bounded by the account of them.
LEMMA TypeKept == ASSUME Core, Next, StoredInv' PROVE TypeOK'
<1>0. TypeOK
  BY DEF Core
<1>1. Shape' /\ NetOK(net')
  BY <1>0, MainTyped, OrchestratorTyped, BuilderTyped, DispatcherTyped, NodeTyped, CoordinatorTyped, EndsTyped
     DEF Next, ActorStep
<1>2. faults' \in 0 .. MaxFaults
  BY <1>0, FaultOrNot, FaultsGrow
<1>3. stored' \in 0 .. Tasks
  <2>1. ToOrchestrator' \in Seq(Messages)
    BY <1>1, Ways DEF NetOK, ToOrchestrator
  <2>2. FinishedOnWay(ToOrchestrator') \in Nat
    BY <2>1, FinishedNumber
  <2>3. stored' \in Nat /\ coordinator'.left \in 0 .. Tasks /\ Tasks \in Nat
    BY <1>1, BoundsAssumption DEF Shape, Coordinators
  <2> DEFINE b == IF Has(ToOrchestrator', "BenchmarkComplete") THEN 1 ELSE 0
             f == FinishedOnWay(ToOrchestrator')
  <2>4. b \in Nat /\ f \in Nat
    BY <2>2
  <2>5. stored' + f + coordinator'.left + b <= Tasks
    BY DEF StoredInv, Accounted
  <2> HIDE DEF b, f
  <2> QED
    BY <2>3, <2>4, <2>5
<1> QED
  BY <1>1, <1>2, <1>3 DEF TypeOK, Shape, NetOK, Setups, Mains, Results, Orchestrators, Builders, Dispatchers,
                          NodeStates, Coordinators

\* At the beginning nothing is on its way and nobody is there.
LEMMA InitInv == ASSUME Init PROVE OrchestrationInv
<1>1. TypeOK
  <2>1. Shape
    <3>1. Tasks \in 0 .. Tasks
      BY BoundsAssumption
    <3>2. setup \in Setups /\ main \in Mains /\ result \in Results /\ solr \in BOOLEAN /\ published \in BOOLEAN
      BY DEF Init, Setups, Mains, Results
    <3>3. orchestrator \in Orchestrators /\ stored \in Nat
      BY DEF Init, Orchestrators
    <3>4. builder \in Builders
      BY DEF Init, Builders
    <3>5. dispatcher \in Dispatchers
      BY DEF Init, Dispatchers
    <3>6. node \in [Hosts -> NodeStates]
      BY DEF Init, NodeStates
    <3>7. coordinator \in Coordinators
      BY <3>1 DEF Init, Coordinators
    <3>8. alive \subseteq Actors /\ died \subseteq Actors
      BY DEF Init
    <3> QED
      BY <3>2, <3>3, <3>4, <3>5, <3>6, <3>7, <3>8 DEF Shape
  <2>2. NetOK(net)
    BY DEF Init, NetOK
  <2>3. stored \in 0 .. Tasks /\ faults \in 0 .. MaxFaults
    BY BoundsAssumption DEF Init
  <2> QED
    BY <2>1, <2>2, <2>3 DEF TypeOK, Shape, NetOK, Setups, Mains, Results, Orchestrators, Builders, Dispatchers,
                            NodeStates, Coordinators
<1>2. \A c \in Channels : net[c] = <<>>
  BY DEF Init
<1>3. \A m : ~Has(<<>>, m) /\ Once(<<>>, m)
  BY DEF Has, Once
<1>4. \A c \in Channels : \A m : ~Has(net[c], m) /\ Once(net[c], m)
  BY <1>2, <1>3
<1>5. \A s \in Stages : Reached(s) => s = "begin"
  <2>1. \A s \in HandOvers : ~Reached(s)
    BY <1>4, Ways DEF Reached
  <2>2. \A s \in Stages \ HandOvers : Reached(s) => s = "begin"
    BY DEF Reached, Works, Init
  <2> QED
    BY <2>1, <2>2
<1>6. OneStage /\ NothingTwice
  BY <1>4, <1>5 DEF OneStage, NothingTwice
<1>7. StageFits
  BY <1>5 DEF StageFits, StartedFirst, Fits, Init, ToEnd
<1>8. ActualChildren = {}
  BY DEF ActualChildren, Init
<1>9. \A h \in Hosts : ~Asked /\ ~Waits(h) /\ ~Told(h) /\ ~Answers(h) /\ ~ToldToStop(h) /\ ~AnswersStop(h) /\ ~node[h].up
  <2>1. \A h \in Hosts : ~Asked /\ ~Told(h) /\ ~Answers(h) /\ ~ToldToStop(h) /\ ~AnswersStop(h)
    BY <1>4, Ways DEF Asked, Told, Answers, ToldToStop, AnswersStop
  <2>2. \A h \in Hosts : ~Waits(h) /\ ~node[h].up
    BY DEF Waits, Init
  <2> QED
    BY <2>1, <2>2
<1>10. \A h \in Hosts : HostStarts(h) /\ HostStops(h) /\ HostKeeps(h)
  BY <1>8, <1>9 DEF HostStarts, HostStops, HostKeeps
<1>11. Counts
  BY DEF Counts, Init
<1>12. ExitsInOrder
  <2>1. /\ ~Exit(Orchestrator, Builder) /\ ~Exit(Builder, Dispatcher)
        /\ \A h \in Hosts : ~Exit(Dispatcher, h) /\ ~Exit(Builder, h)
    BY <1>4, Ways DEF Exit
  <2>2. alive = {}
    BY DEF Init
  <2> QED
    BY <2>1, <2>2 DEF ExitsInOrder
<1>13. AnswerInv
  <2>1. ToMain = <<>>
    BY <1>2, Ways DEF ToMain
  <2>2. Publishes
    BY DEF Publishes, Init
  <2> QED
    BY <2>1, <2>2 DEF AnswerInv, Init
<1>14. StoredInv
  <2>1. ToOrchestrator = <<>>
    BY <1>2, Ways DEF ToOrchestrator
  <2>2. {i \in 1 .. Len(<<>>) : <<>>[i] = "TaskFinished"} = {}
    OBVIOUS
  <2>3. FinishedOnWay(<<>>) = 0
    BY <2>2, FS_EmptySet DEF FinishedOnWay
  <2>4. stored = 0 /\ coordinator.left = Tasks /\ coordinator.phase = "none" /\ Tasks \in Nat
    BY BoundsAssumption DEF Init
  <2>5. Accounted = Tasks
    BY <1>3, <2>1, <2>3, <2>4 DEF Accounted
  <2>6. InOrder(<<>>)
    BY DEF InOrder
  <2> QED
    BY <2>1, <2>4, <2>5, <2>6 DEF StoredInv
<1> QED
  BY <1>1, <1>6, <1>7, <1>10, <1>11, <1>12, <1>13, <1>14 DEF OrchestrationInv

\* Every step keeps the invariant.
LEMMA InvStep == ASSUME OrchestrationInv, [Next]_vars PROVE OrchestrationInv'
<1>1. Core /\ AnswerInv /\ StoredInv
  BY DEF OrchestrationInv, Core, StageInv, HostInv
<1>2. ASSUME TypeOK', CoreKept, ResultsKept PROVE OrchestrationInv'
  BY <1>2 DEF OrchestrationInv, CoreKept, StageInv, HostInv, ResultsKept
<1>3. CASE Next
  <2>1. Tame
    BY <1>1, <1>3, FaultOrNot, FaultsGrow DEF Core, Tame
  <2>2. CoreKept /\ ResultsKept
    <3>1. CASE MainStep
      BY <1>1, <2>1, <3>1, MainKeeps
    <3>2. CASE OrchestratorStep
      BY <1>1, <2>1, <3>2, OrchestratorKeeps
    <3>3. CASE CoordinatorStep
      BY <1>1, <2>1, <3>3, CoordinatorKeeps
    <3>4. CASE BuilderStep \/ DispatcherStep \/ \E h \in Hosts : RemoteLeaves(h) \/ NodeStep(h)
      BY <1>1, <2>1, <3>4, OuterStep
    <3>5. ASSUME NEW a \in Actors \ Hosts, Exits(a) PROVE CoreKept /\ ResultsKept
      <4>1. a = Coordinator \/ a \in {Orchestrator, Builder, Dispatcher}
        BY DEF Actors
      <4> QED
        BY <1>1, <2>1, <3>5, <4>1, CoordinatorKeeps, OuterStep
    <3>6. ASSUME NEW a \in Actors, Dies(a) PROVE CoreKept /\ ResultsKept
      BY <1>1, <2>1, <3>6, CoordinatorKeeps, OuterStep
    <3>7. ASSUME NEW a \in Actors \ {Orchestrator}, Poisoned(a) PROVE CoreKept /\ ResultsKept
      BY <1>1, <2>1, <3>7, CoordinatorKeeps, OuterStep
    <3> QED
      BY <1>3, <3>1, <3>2, <3>3, <3>4, <3>5, <3>6, <3>7 DEF Next, ActorStep
  <2>3. TypeOK'
    BY <1>1, <1>3, <2>2, TypeKept DEF ResultsKept
  <2> QED
    BY <1>2, <2>2, <2>3
<1>4. CASE UNCHANGED vars
  <2>1. UNCHANGED <<mainVars, actorVars, alive, died, net, faults>>
    BY <1>4 DEF vars
  <2>2. TypeOK'
    <3>1. Shape /\ NetOK(net)
      BY <1>1, ShapeOfType DEF Core
    <3>2. Shape' /\ NetOK(net')
      BY <2>1, <3>1 DEF Shape, mainVars, actorVars
    <3>3. stored' \in 0 .. Tasks /\ faults' \in 0 .. MaxFaults
      BY <1>1, <2>1 DEF Core, TypeOK, actorVars
    <3> QED
      BY <3>2, <3>3 DEF TypeOK, Shape, NetOK, Setups, Mains, Results, Orchestrators, Builders, Dispatchers,
                        NodeStates, Coordinators
  <2>3. Mail({}, IdleMail)
    BY <1>1, <2>1, IdleSent DEF Core, TypeOK, NetOK
  <2>4. Calm
    BY <2>1, <2>3 DEF Calm, mainVars, actorVars, Begins
  <2>5. CoreKept /\ Onward
    BY <1>1, <2>4, CalmCore
  <2>6. Distant
    BY <2>1 DEF Distant, mainVars, actorVars, ToMain, ToOrchestrator
  <2>7. ResultsKept
    BY <1>1, <2>1, <2>5, <2>6, DistantStep DEF ResultsKept
  <2> QED
    BY <1>2, <2>2, <2>5, <2>7
<1> QED
  BY <1>3, <1>4

(***************************************************************************)
(* The inductive invariant: the run is in one place, the hosts are         *)
(* counted, who tells others to exit is done, nothing is left to publish   *)
(* once there is an answer, and the metrics of every element are accounted *)
(* for.                                                                    *)
(***************************************************************************)
THEOREM Orchestrated == Spec => []OrchestrationInv
<1>1. Init => OrchestrationInv
  BY InitInv
<1>2. OrchestrationInv /\ [Next]_vars => OrchestrationInv'
  BY InvStep
<1> QED
  BY <1>1, <1>2, PTL DEF Spec

-----------------------------------------------------------------------------
(* What follows from it *)

\* Whoever's message is the next one has sent it.
LEMMA PendingIsThere ==
    ASSUME NetOK(net), NEW a, NEW b, <<a, b>> \in Channels, NEW m, Pending(a, b, m)
    PROVE  Has(net[<<a, b>>], m)
<1>1. net[<<a, b>>] \in Seq(Messages) /\ net[<<a, b>>] # <<>> /\ Head(net[<<a, b>>]) = m
  BY DEF Pending, NetOK
<1> QED
  BY <1>1, Handling

(***************************************************************************)
(* AnswersAreCounted: whatever order the answers of the node builders, the *)
(* failures and the requests to stop arrive in, no assertion of            *)
(* BuilderActor.transition_when_all_children_responded fails, and the      *)
(* benchmark runs only while the nodes of all hosts are up.                *)
(***************************************************************************)
THEOREM AnswersCounted == Spec => []AnswersAreCounted
<1>1. ASSUME OrchestrationInv PROVE AnswersAreCounted
  <2>0. Core /\ TypeOK /\ Counts /\ HostInv /\ NetOK(net)
    BY <1>1 DEF OrchestrationInv, Core, StageInv, HostInv, TypeOK, NetOK
  <2>1. ASSUME NEW h \in Hosts
        PROVE  HostStarts(h) /\ HostStops(h) /\ HostKeeps(h) /\ <<h, Builder>> \in Channels /\ <<Builder, h>> \in Channels
    BY <2>0, Ways DEF HostInv
  <2>2. ASSUME NEW h \in Hosts, Pending(h, Builder, "NodesStarted")
        PROVE  builder.status = "starting" /\ builder.responses < Len(builder.children)
    <3>1. Answers(h)
      BY <2>0, <2>1, <2>2, PendingIsThere DEF Answers
    <3>2. builder.status = "starting" /\ h \notin ActualChildren
      BY <2>1, <3>1 DEF HostStarts
    <3>3. /\ builder.responses + 1 <= Cardinality(Hosts) /\ builder.responses \in Nat /\ Cardinality(Hosts) \in Nat
      BY <2>0, <3>2, NextChild
    <3>4. Len(builder.children) = Cardinality(Hosts)
      BY <2>0, <3>2 DEF Counts
    <3> QED
      BY <3>2, <3>3, <3>4
  <2>3. ASSUME NEW h \in Hosts, Pending(h, Builder, "NodesStopped")
        PROVE  builder.status = "cluster_stopping" /\ builder.responses < Len(builder.children)
    <3>1. AnswersStop(h)
      BY <2>0, <2>1, <2>3, PendingIsThere DEF AnswersStop
    <3>2. builder.status = "cluster_stopping"
      BY <2>1, <3>1 DEF HostStops
    <3>3. h \notin StoppedHosts /\ StoppedHosts \subseteq Hosts
      BY <3>1 DEF StoppedHosts
    <3>4. /\ builder.responses <= Cardinality(StoppedHosts) /\ builder.responses \in Nat
          /\ Len(builder.children) = Cardinality(Hosts)
      <4>1. builder.responses \in Nat
        BY <2>0 DEF TypeOK
      <4> QED
        BY <2>0, <3>2, <4>1 DEF Counts
    <3>5. IsFiniteSet(Hosts) /\ StoppedHosts \subseteq Hosts \ {h}
      BY <3>3, HostsAssumption
    <3>6. IsFiniteSet(Hosts \ {h}) /\ Cardinality(Hosts \ {h}) = Cardinality(Hosts) - 1 /\ Cardinality(Hosts) \in Nat
      BY <3>5, FS_RemoveElement, FS_CardinalityType
    <3>7. Cardinality(StoppedHosts) <= Cardinality(Hosts \ {h}) /\ Cardinality(StoppedHosts) \in Nat
      BY <3>5, <3>6, FS_Subset, FS_CardinalityType
    <3> QED
      BY <3>2, <3>4, <3>6, <3>7
  <2>4. ASSUME NEW h \in Hosts, Builder \in alive, Pending(Builder, h, "StopNodes") PROVE node[h].builder
    <3>1. ToldToStop(h)
      BY <2>0, <2>1, <2>4, PendingIsThere DEF ToldToStop
    <3> QED
      BY <2>1, <2>4, <3>1 DEF HostKeeps, Kept
  <2>5. ASSUME builder.status \in {"cluster_started", "cluster_stopping"}
        PROVE  \A i \in 1 .. Len(builder.children) : builder.children[i] # NoChild
    <3>1. CASE setup.external
      <4>1. builder.children = <<>>
        BY <2>0, <3>1 DEF Counts
      <4> QED
        BY <4>1
    <3>2. CASE ~setup.external
      BY <2>0, <2>5, <3>2 DEF Counts
    <3> QED
      BY <3>1, <3>2
  <2>6. NoAssertionFails
    BY <2>2, <2>3, <2>4, <2>5 DEF NoAssertionFails
  <2>7. ClusterIsComplete
    <3>1. SUFFICES ASSUME Orchestrator \in alive, ~setup.external,
                          coordinator.phase \in {"preparing", "prepared", "running"}, NEW h \in Hosts
                   PROVE  node[h].up
      BY DEF ClusterIsComplete
    <3>2. builder.status = "cluster_started"
      BY <1>1, <3>1 DEF OrchestrationInv, StageFits, StartedFirst
    <3>3. h \in ActualChildren
      BY <2>0, <3>1, <3>2 DEF Counts
    <3> QED
      BY <2>1, <3>1, <3>2, <3>3 DEF HostKeeps, Kept
  <2> QED
    BY <2>0, <2>6, <2>7 DEF AnswersAreCounted
<1> QED
  BY <1>1, Orchestrated, PTL

(***************************************************************************)
(* SuccessIsComplete: a run_test that ends with success has published the  *)
(* results and stopped the nodes of all hosts; if nothing went wrong, the  *)
(* metrics of every element of the schedule have been stored.              *)
(***************************************************************************)
THEOREM SuccessComplete == Spec => []SuccessIsComplete
<1>1. ASSUME OrchestrationInv PROVE SuccessIsComplete
  <2>1. SUFFICES ASSUME result = "success"
                 PROVE  published /\ (\A h \in Hosts : ~node[h].up) /\ (faults = 0 => stored = Tasks)
    BY DEF SuccessIsComplete
  <2>2. Reached("success") /\ "success" \in Stages /\ "BenchmarkComplete" \in Stages
    BY <2>1 DEF Reached, Works, HandOvers, Stages, ToPublish, ToEnd
  <2>3. published
    BY <1>1, <2>1 DEF OrchestrationInv, AnswerInv
  <2>4. Fits("success")
    BY <1>1, <2>2 DEF OrchestrationInv, StageFits
  <2>5. \A h \in Hosts : ~node[h].up
    BY <1>1, <2>4 DEF OrchestrationInv, Fits, HostStops, HostKeeps
  <2>6. coordinator.phase = "complete"
    BY <2>4 DEF Fits, ToEnd
  <2>7. ~Has(ToOrchestrator, "BenchmarkComplete")
    <3>1. ~Reached("BenchmarkComplete")
      BY <1>1, <2>2 DEF OrchestrationInv, OneStage
    <3> QED
      BY <3>1, WayOf DEF Reached, HandOvers, ToOrchestrator
  <2>8. coordinator.left = 0 /\ ~Has(ToOrchestrator, "TaskFinished")
    BY <1>1, <2>6, <2>7 DEF OrchestrationInv, StoredInv
  <2>9. FinishedOnWay(ToOrchestrator) = 0
    <3>1. {i \in 1 .. Len(ToOrchestrator) : ToOrchestrator[i] = "TaskFinished"} = {}
      BY <2>8 DEF Has
    <3> QED
      BY <3>1, FS_EmptySet DEF FinishedOnWay
  <2>10. Accounted = stored + 0 + 0 + 0 /\ stored \in Nat
    BY <1>1, <2>7, <2>8, <2>9, BookTypes DEF Accounted, OrchestrationInv
  <2>11. faults = 0 => stored = Tasks
    BY <1>1, <2>10 DEF OrchestrationInv, StoredInv
  <2> QED
    BY <2>3, <2>5, <2>11
<1> QED
  BY <1>1, Orchestrated, PTL

(***************************************************************************)
(* NothingPublishedAfterAnswer: once run_test has got an answer, whichever *)
(* it is, BenchmarkActor publishes no results any more, although the       *)
(* worker coordinator goes on until it is told to exit.                    *)
(***************************************************************************)
THEOREM AnswerIsFinal == Spec => NothingPublishedAfterAnswer
<1>1. ASSUME OrchestrationInv, [Next]_vars
      PROVE  [(result \in {"success", "cancelled", "failure"}) => published' = published]_vars
  <2>1. SUFFICES ASSUME Next, result \in {"success", "cancelled", "failure"} PROVE published' = published
    BY <1>1
  <2>2. Core /\ AnswerInv /\ TypeOK /\ NetOK(net)
    BY <1>1 DEF OrchestrationInv, Core, StageInv, HostInv, TypeOK, NetOK
  <2>3. CASE BenchmarkComplete
    <3>1. published' = FALSE \/ published' = Publishes
      BY <2>3 DEF BenchmarkComplete
    <3>2. Pending(Coordinator, Orchestrator, "BenchmarkComplete") /\ <<Coordinator, Orchestrator>> \in Channels
      BY <2>3, Ways DEF BenchmarkComplete, OrchestratorRaises, Handles
    <3>3. Reached("BenchmarkComplete") /\ "BenchmarkComplete" \in ToPublish
      BY <2>2, <3>2, PendingIsThere, WayOf DEF Reached, HandOvers, ToPublish
    <3>4. ~published /\ ~Publishes
      BY <2>1, <2>2, <3>3 DEF AnswerInv, Settled
    <3>5. published \in BOOLEAN /\ Publishes \in BOOLEAN
      BY <2>2 DEF TypeOK, Publishes
    <3> QED
      BY <3>1, <3>4, <3>5
  <2>4. CASE OrchestratorStep /\ ~BenchmarkComplete
    BY <2>4 DEF OrchestratorStep, Setup, SetupRaises, EngineStarted, PreparationComplete, TaskFinished,
                EngineStopped, Cancelled, ForwardFailure, IgnoreChildExit, actorVars
  <2>5. CASE MainStep
    BY <2>5 DEF MainStep, Provision, AskSetup, CreateTimesOut, Answered, Interrupt, Teardown, actorVars
  <2>6. CASE BuilderStep \/ DispatcherStep \/ \E h \in Hosts : RemoteLeaves(h) \/ NodeStep(h)
    BY <2>2, <2>6, BuilderIsDistant, DispatcherIsDistant, NodeIsDistant DEF Distant
  <2>7. CASE CoordinatorStep
    BY <2>7 DEF CoordinatorStep, CoordinatorStarts, WorkloadPrepared, FinishTask, FinishBenchmark, Reports,
                CoordinatorReturnsFailure, WorkerFails, coordinatorOnly
  <2>8. CASE (\E a \in Actors \ Hosts : Exits(a)) \/ (\E a \in Actors : Dies(a))
             \/ (\E a \in Actors \ {Orchestrator} : Poisoned(a))
    BY <2>8 DEF Exits, Dies, Poisoned, actorVars
  <2> QED
    BY <2>1, <2>3, <2>4, <2>5, <2>6, <2>7, <2>8 DEF Next, ActorStep
<1> QED
  BY <1>1, Orchestrated, PTL DEF Spec, NothingPublishedAfterAnswer
=============================================================================
