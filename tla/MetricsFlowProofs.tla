-------------------------- MODULE MetricsFlowProofs --------------------------
(***************************************************************************)
(* What holds of the way of the metrics records (MetricsFlow) for any      *)
(* devices, any order in which they are stopped, any number of steps and   *)
(* any number of records: each record is in at most one place, none is     *)
(* lost without a warning, and the file that the two stores share has as   *)
(* many lines as there are records.                                        *)
(***************************************************************************)
EXTENDS MetricsFlow, FiniteSetTheorems, TLAPS

-----------------------------------------------------------------------------
(* The inductive invariant *)

\* The threads that are adding a record
Writers == {t \in Threads : thread[t].pc \in {"add", "line"}}

\* The records that a thread is about to add, and those on their way to the orchestrator
AtHand == {thread[t].doc : t \in {u \in Threads : At(u, "add")}}
Sent == UNION {Range(inbox[i].docs) : i \in DOMAIN inbox}
Pending == AtHand \cup Range(docs) \cup Sent

\* A device has stopped or was given up.
Over(d) == At(d, "ended") \/ d \in abandoned
HandedOver == thread["main"].pc \in {"close", "done"}

\* The actor and the devices have steps of their own, and the record a thread adds is its own.
ThreadsAreKnown ==
    /\ thread["main"].pc \in {"start", "run", "add", "line", "stop", "hand", "close", "done"}
    /\ \A d \in Devices : thread[d].pc \in {"off", "ask", "add", "line", "sleep", "ended"}
    /\ At("main", "start") => \A d \in Devices : At(d, "off")
    /\ \A t \in Writers : thread[t].doc \in Created /\ origin[thread[t].doc] = t

\* Every record is in at most one place.
RecordsExist == Len(origin) <= MaxDocs /\ Range(docs) \subseteq Created /\ Range(results) \subseteq Created /\ Sent \subseteq Created
SentOnce ==
    \A i, k \in DOMAIN inbox : \A j \in DOMAIN inbox[i].docs : \A l \in DOMAIN inbox[k].docs :
        inbox[i].docs[j] = inbox[k].docs[l] => i = k /\ j = l
InOnePlace ==
    /\ IsInjective(docs) /\ IsInjective(results) /\ SentOnce
    /\ AtHand \cap Range(docs) = {} /\ AtHand \cap Sent = {} /\ AtHand \cap Range(results) = {}
    /\ Range(docs) \cap Sent = {} /\ Range(docs) \cap Range(results) = {} /\ Sent \cap Range(results) = {}

\* Without a warning every record is in one.
NoneDropped ==
    warned = 0 => /\ \A s \in Stores : ~ out_of_memory[s]
                  /\ Created \subseteq Pending \cup Range(results)

\* The devices are stopped one after the other, all of them before the records are handed over.
StoppedInTurn ==
    /\ thread["main"].pc \in {"start", "run", "add", "line"} => thread["main"].n = 1
    /\ At("main", "stop") => /\ thread["main"].n \in 1 .. Len(Order)
                             /\ \A i \in 1 .. thread["main"].n - 1 : Over(Order[i])
    /\ thread["main"].pc \in {"hand", "close", "done"} => \A d \in Devices : Over(d)
    /\ HandedOver => \A d \in Range(docs) : origin[d] \in abandoned

\* The message with the records of the last step is the last one.
LastComesLast ==
    /\ \A i \in DOMAIN inbox : inbox[i].last => i = Len(inbox) /\ HandedOver
    /\ HandedOver => complete \/ (inbox # <<>> /\ inbox[Len(inbox)].last)
    /\ complete => inbox = <<>> /\ HandedOver
    /\ opened = ~ At("main", "done")
    /\ failed => ~ opened

\* The coordinator's lines are those of the records whose threads are done with them, and the
\* orchestrator writes one for every record that no longer is on its way.
LinesAreCounted ==
    Filesystem =>
        /\ opened => position["coordinator"] + Cardinality(Writers) = Len(origin) + 1
        /\ ~ opened /\ abandoned = {} => position["coordinator"] = Len(origin) + 1
        /\ position["orchestrator"] <= Cardinality(Created \ Pending) + 1

FlowInv ==
    /\ FlowTypeOK /\ ThreadsAreKnown /\ RecordsExist /\ InOnePlace /\ NoneDropped
    /\ StoppedInTurn /\ LastComesLast /\ LinesAreCounted

-----------------------------------------------------------------------------
ThreadRecord == [pc : {"off", "start", "run", "ask", "add", "line", "sleep", "stop", "hand", "close", "done", "ended"},
                 n : Nat, doc : 0 .. MaxDocs]

\* The bounds are numbers, and the actor is none of the devices.
LEMMA FlowConstants ==
    /\ MaxSteps \in Nat /\ MaxSteps > 0 /\ MaxDocs \in Nat /\ MaxDocs > 0 /\ CheckEvery \in Nat /\ CheckEvery > 0
    /\ MaxWarnings \in Nat /\ Filesystem \in BOOLEAN
    /\ "main" \notin Devices /\ Len(Order) \in Nat /\ Devices = {Order[i] : i \in 1 .. Len(Order)}
<1>1. /\ MaxSteps \in Nat \ {0} /\ MaxDocs \in Nat \ {0} /\ CheckEvery \in Nat \ {0}
      /\ MaxWarnings \in Nat /\ Filesystem \in BOOLEAN
  BY FlowAssumption
<1>2. Order \in Seq({"jvm", "node", "collection", "query", "indexing", "cache", "shard"})
  BY FlowAssumption
<1>3. DOMAIN Order = 1 .. Len(Order) /\ Len(Order) \in Nat
      /\ \A i \in 1 .. Len(Order) : Order[i] \in {"jvm", "node", "collection", "query", "indexing", "cache", "shard"}
  BY <1>2
<1>4. "main" \notin Devices
  BY <1>3 DEF Devices, Range
<1>5. Devices = {Order[i] : i \in 1 .. Len(Order)}
  BY <1>3 DEF Devices, Range
<1> QED
  BY <1>1, <1>3, <1>4, <1>5

\* What sequences consist of
LEMMA RangeOfAppend ==
    ASSUME NEW S, NEW s \in Seq(S), NEW x \in S
    PROVE  Range(Append(s, x)) = Range(s) \cup {x}
<1>1. /\ DOMAIN s = 1 .. Len(s) /\ DOMAIN Append(s, x) = 1 .. Len(s) + 1 /\ Len(s) \in Nat
      /\ \A i \in 1 .. Len(s) : Append(s, x)[i] = s[i]
      /\ Append(s, x)[Len(s) + 1] = x
  OBVIOUS
<1>2. ASSUME NEW d \in Range(Append(s, x)) PROVE d \in Range(s) \cup {x}
  <2>1. PICK i \in 1 .. Len(s) + 1 : Append(s, x)[i] = d
    BY <1>1, <1>2 DEF Range
  <2>2. CASE i \in 1 .. Len(s)
    BY <1>1, <2>1, <2>2 DEF Range
  <2>3. CASE i = Len(s) + 1
    BY <1>1, <2>1, <2>3
  <2> QED
    BY <1>1, <2>2, <2>3
<1>3. ASSUME NEW d \in Range(s) PROVE d \in Range(Append(s, x))
  <2>1. PICK i \in 1 .. Len(s) : s[i] = d
    BY <1>1, <1>3 DEF Range
  <2>2. i \in 1 .. Len(s) + 1 /\ Append(s, x)[i] = d
    BY <1>1, <2>1
  <2> QED
    BY <1>1, <2>2 DEF Range
<1>4. x \in Range(Append(s, x))
  <2>1. Len(s) + 1 \in 1 .. Len(s) + 1
    BY <1>1
  <2> QED
    BY <1>1, <2>1 DEF Range
<1> QED
  BY <1>2, <1>3, <1>4

LEMMA InjectiveAppend ==
    ASSUME NEW S, NEW s \in Seq(S), NEW x \in S, IsInjective(s), x \notin Range(s)
    PROVE  IsInjective(Append(s, x))
<1>1. /\ DOMAIN s = 1 .. Len(s) /\ DOMAIN Append(s, x) = 1 .. Len(s) + 1 /\ Len(s) \in Nat
      /\ \A i \in 1 .. Len(s) : Append(s, x)[i] = s[i]
      /\ Append(s, x)[Len(s) + 1] = x
  OBVIOUS
<1>2. \A i \in 1 .. Len(s) : s[i] # x
  BY <1>1 DEF Range
<1>3. \A i, j \in 1 .. Len(s) : s[i] = s[j] => i = j
  BY <1>1 DEF IsInjective
<1>4. ASSUME NEW i \in 1 .. Len(s) + 1, NEW j \in 1 .. Len(s) + 1, Append(s, x)[i] = Append(s, x)[j]
      PROVE  i = j
  BY <1>1, <1>2, <1>3, <1>4
<1> QED
  BY <1>1, <1>4 DEF IsInjective

LEMMA RangeOfEmpty == Range(<<>>) = {} /\ IsInjective(<<>>)
  BY DEF Range, IsInjective

-----------------------------------------------------------------------------
\* What a step of one thread does to the records at hand
Moves(t) == thread' \in [Threads -> ThreadRecord] /\ \A u \in Threads : u # t => thread'[u] = thread[u]

Busy(t) == thread[t].pc \in {"add", "line"}

LEMMA OneThreadMoves ==
    ASSUME thread \in [Threads -> ThreadRecord], NEW t \in Threads, NEW r \in ThreadRecord,
           thread' = [thread EXCEPT ![t] = r]
    PROVE  Moves(t) /\ thread'[t] = r
  BY DEF Moves

LEMMA QuietMove ==
    ASSUME NEW t \in Threads, Moves(t), ~ Busy(t), ~ Busy(t)'
    PROVE  AtHand' = AtHand /\ Writers' = Writers
<1>1. \A u \in Threads : (thread'[u].pc \in {"add", "line"}) <=> (thread[u].pc \in {"add", "line"})
  BY DEF Moves, Busy
<1>2. \A u \in Threads : (thread'[u].pc = "add") <=> (thread[u].pc = "add")
  BY DEF Moves, Busy
<1>3. \A u \in Threads : thread'[u].pc = "add" => thread'[u].doc = thread[u].doc
  BY DEF Moves, Busy
<1> QED
  BY <1>1, <1>2, <1>3 DEF AtHand, Writers, At

LEMMA CreateMove ==
    ASSUME NEW t \in Threads, Moves(t), ~ Busy(t), thread'[t].pc = "add"
    PROVE  AtHand' = AtHand \cup {thread'[t].doc} /\ Writers' = Writers \cup {t} /\ t \notin Writers
<1>1. \A u \in Threads : (thread'[u].pc \in {"add", "line"}) <=> (thread[u].pc \in {"add", "line"} \/ u = t)
  BY DEF Moves, Busy
<1>2. \A u \in Threads : u # t => thread'[u] = thread[u]
  BY DEF Moves
<1>3. AtHand' = AtHand \cup {thread'[t].doc}
  <2>1. thread[t].pc # "add"
    BY DEF Busy
  <2> QED
    BY <1>2, <2>1 DEF AtHand, At
<1> QED
  BY <1>1, <1>3 DEF Writers, Busy

LEMMA AddMove ==
    ASSUME NEW t \in Threads, Moves(t), thread[t].pc = "add", thread'[t].pc = "line", ThreadsAreKnown
    PROVE  AtHand' = AtHand \ {thread[t].doc} /\ Writers' = Writers /\ thread[t].doc \in AtHand
<1>1. \A u \in Threads : (thread'[u].pc \in {"add", "line"}) <=> (thread[u].pc \in {"add", "line"})
  BY DEF Moves
<1>2. \A u \in Threads : u # t => thread'[u] = thread[u]
  BY DEF Moves
<1>3. \A u \in Threads : u # t /\ thread[u].pc = "add" => thread[u].doc # thread[t].doc
  BY DEF ThreadsAreKnown, Writers
<1>4. \A u \in Threads : (thread'[u].pc = "add") <=> (thread[u].pc = "add" /\ u # t)
  BY <1>2
<1>5. AtHand' = AtHand \ {thread[t].doc}
  BY <1>2, <1>3, <1>4 DEF AtHand, At
<1> QED
  BY <1>1, <1>5 DEF Writers, AtHand, At

LEMMA LineMove ==
    ASSUME NEW t \in Threads, Moves(t), thread[t].pc = "line", ~ Busy(t)'
    PROVE  AtHand' = AtHand /\ Writers' = Writers \ {t} /\ t \in Writers
<1>1. \A u \in Threads : (thread'[u].pc \in {"add", "line"}) <=> (thread[u].pc \in {"add", "line"} /\ u # t)
  BY DEF Moves, Busy
<1>2. \A u \in Threads : (thread'[u].pc = "add") <=> (thread[u].pc = "add")
  BY DEF Moves, Busy
<1>3. \A u \in Threads : thread'[u].pc = "add" => thread'[u].doc = thread[u].doc
  BY DEF Moves, Busy
<1> QED
  BY <1>1, <1>2, <1>3 DEF AtHand, Writers, At

LEMMA ThreadTyped == FlowTypeOK => thread \in [Threads -> ThreadRecord]
  BY DEF FlowTypeOK, ThreadRecord

\* What the actions do to the threads
Creates(t) ==
    /\ Moves(t) /\ ~ Busy(t) /\ thread'[t].pc = "add" /\ thread'[t].n = thread[t].n
    /\ thread'[t].doc = Len(origin) + 1 /\ Len(origin) < MaxDocs /\ origin' = Append(origin, t)

Rests(d) ==
    /\ Moves(d) /\ thread[d].pc \in {"ask", "sleep"} /\ thread'[d].pc \in {"ask", "sleep", "ended"}
    /\ origin' = origin

LEMMA PutMoves ==
    ASSUME FlowTypeOK, NEW t \in Threads, _put_metric(t), ~ Busy(t)
    PROVE  Creates(t)
<1>1. Len(origin) \in Nat /\ Len(origin) < MaxDocs /\ MaxDocs \in Nat
  BY FlowConstants DEF FlowTypeOK, _put_metric
<1>2. thread \in [Threads -> ThreadRecord] /\ thread[t] \in ThreadRecord
  BY ThreadTyped
<1>0. Len(origin) + 1 \in 0 .. MaxDocs
  BY <1>1
<1> DEFINE r == [thread[t] EXCEPT !.pc = "add", !.doc = Len(origin) + 1]
<1>3. r \in ThreadRecord /\ r.pc = "add" /\ r.doc = Len(origin) + 1 /\ r.n = thread[t].n
  BY <1>0, <1>2 DEF ThreadRecord
<1>4. thread' = [thread EXCEPT ![t] = r]
  BY <1>2 DEF _put_metric, ThreadRecord
<1> HIDE DEF r
<1>5. Moves(t) /\ thread'[t] = r
  BY <1>2, <1>3, <1>4, OneThreadMoves
<1> QED
  BY <1>1, <1>3, <1>5 DEF Creates, _put_metric

\* The next request of a poll, or the pause after it
LEMMA FurtherMoves ==
    ASSUME FlowTypeOK, NEW d \in Threads, Further(d)
    PROVE  Moves(d) /\ thread'[d].pc \in {"ask", "sleep"}
<1>1. thread \in [Threads -> ThreadRecord] /\ thread[d] \in ThreadRecord /\ MaxDocs \in Nat
  BY ThreadTyped, FlowConstants
<1> DEFINE r == IF thread[d].n < Len(Poll(d)) THEN [pc |-> "ask", n |-> thread[d].n + 1, doc |-> 0]
                ELSE [pc |-> "sleep", n |-> 1, doc |-> 0]
<1>2. r \in ThreadRecord /\ r.pc \in {"ask", "sleep"}
  BY <1>1 DEF ThreadRecord
<1>3. thread' = [thread EXCEPT ![d] = r]
  BY DEF Further
<1> HIDE DEF r
<1> QED
  BY <1>1, <1>2, <1>3, OneThreadMoves

LEMMA GoMoves ==
    ASSUME FlowTypeOK, NEW t \in Threads, NEW pc \in {"run", "ask", "line", "stop", "hand", "close", "done", "ended"},
           Go(t, pc)
    PROVE  Moves(t) /\ thread'[t].pc = pc /\ thread'[t].n = thread[t].n /\ thread'[t].doc = thread[t].doc
<1>1. thread \in [Threads -> ThreadRecord] /\ thread[t] \in ThreadRecord
  BY ThreadTyped
<1> DEFINE r == [thread[t] EXCEPT !.pc = pc]
<1>2. r \in ThreadRecord /\ r.pc = pc /\ r.n = thread[t].n /\ r.doc = thread[t].doc
  BY <1>1 DEF ThreadRecord
<1>3. thread' = [thread EXCEPT ![t] = r]
  BY <1>1 DEF Go, ThreadRecord
<1> HIDE DEF r
<1> QED
  BY <1>1, <1>2, <1>3, OneThreadMoves

LEMMA CollectMoves ==
    ASSUME FlowTypeOK, NEW d \in Devices, _collect(d)
    PROVE  /\ Creates(d) \/ Rests(d)
           /\ UNCHANGED <<docs, out_of_memory, warned, position, opened, results, inbox, complete,
                          stop, abandoned, step, resets, failed>>
<1> DEFINE request == Poll(d)[thread[d].n]
<1>1. d \in Threads /\ thread[d].pc = "ask" /\ ~ Busy(d)
  BY DEF _collect, At, Threads, Busy
<1>2. CASE _put_metric(d)
  BY <1>1, <1>2, PutMoves DEF _collect
<1>3. CASE Further(d) /\ origin' = origin
  BY <1>1, <1>3, FurtherMoves DEF _collect, Rests
<1>4. CASE thread' = [thread EXCEPT ![d].pc = "sleep", ![d].n = 1] /\ origin' = origin
  <2>1. thread \in [Threads -> ThreadRecord] /\ thread[d] \in ThreadRecord
    BY <1>1, ThreadTyped
  <2> DEFINE r == [thread[d] EXCEPT !.pc = "sleep", !.n = 1]
  <2>2. r \in ThreadRecord /\ r.pc = "sleep"
    BY <2>1 DEF ThreadRecord
  <2>3. thread' = [thread EXCEPT ![d] = r]
    BY <1>1, <1>4, <2>1 DEF ThreadRecord
  <2> HIDE DEF r
  <2>4. Moves(d) /\ thread'[d] = r
    BY <1>1, <2>1, <2>2, <2>3, OneThreadMoves
  <2> QED
    BY <1>1, <1>4, <2>2, <2>4 DEF Rests, _collect
<1> QED
  BY <1>2, <1>3, <1>4 DEF _collect

LEMMA PollMoves ==
    ASSUME FlowTypeOK, NEW d \in Devices, _poll_loop(d)
    PROVE  /\ Rests(d)
           /\ UNCHANGED <<docs, out_of_memory, warned, position, opened, results, inbox, complete,
                          stop, abandoned, step, resets, failed>>
<1>1. d \in Threads /\ thread[d].pc = "sleep"
  BY DEF _poll_loop, At, Threads
<1>2. Moves(d) /\ thread'[d].pc \in {"ask", "ended"}
  <2>1. CASE d \in stop
    BY <1>1, <2>1, GoMoves DEF _poll_loop
  <2>2. CASE d \notin stop
    BY <1>1, <2>2, GoMoves DEF _poll_loop
  <2> QED
    BY <2>1, <2>2
<1> QED
  BY <1>1, <1>2 DEF Rests, _poll_loop

LEMMA AddInMemoryMoves ==
    ASSUME FlowTypeOK, NEW t \in Threads, AddInMemory(t)
    PROVE  Moves(t) /\ thread[t].pc = "add" /\ thread'[t].pc = "line" /\ thread'[t].n = thread[t].n
           /\ thread'[t].doc = thread[t].doc
  BY GoMoves DEF AddInMemory, At

LEMMA AddToFileMoves ==
    ASSUME FlowTypeOK, NEW t \in Threads, AddToFile(t)
    PROVE  Moves(t) /\ thread[t].pc = "line"
           /\ (t = "main" => thread'[t].pc = "run" /\ thread'[t].n = thread[t].n)
           /\ (t # "main" => thread'[t].pc \in {"ask", "sleep"})
<1>1. thread \in [Threads -> ThreadRecord] /\ thread[t] \in ThreadRecord /\ MaxDocs \in Nat
  BY ThreadTyped, FlowConstants
<1>2. CASE t # "main"
  BY <1>2, FurtherMoves DEF AddToFile, At
<1>3. CASE t = "main"
  <2> DEFINE r == [thread[t] EXCEPT !.pc = "run", !.doc = 0]
  <2>0. 0 \in 0 .. MaxDocs
    BY <1>1
  <2>1. r \in ThreadRecord /\ r.pc = "run" /\ r.n = thread[t].n
    BY <1>1, <2>0 DEF ThreadRecord
  <2>2. thread' = [thread EXCEPT ![t] = r]
    BY <1>1, <1>3 DEF AddToFile, ThreadRecord
  <2> HIDE DEF r
  <2> QED
    BY <1>1, <1>3, <2>1, <2>2, OneThreadMoves DEF AddToFile, At
<1> QED
  BY <1>2, <1>3

\* The actor goes on to the next device or, after the last one, to the hand-over.
LEMMA NextDeviceMoves ==
    ASSUME FlowTypeOK, NextDevice, At("main", "stop")
    PROVE  /\ Moves("main")
           /\ \/ /\ thread["main"].n < Len(Order) /\ thread'["main"].pc = "stop"
                 /\ thread'["main"].n = thread["main"].n + 1
              \/ ~ (thread["main"].n < Len(Order)) /\ thread'["main"].pc = "hand"
<1>1. "main" \in Threads /\ thread \in [Threads -> ThreadRecord] /\ thread["main"] \in ThreadRecord
  BY ThreadTyped DEF Threads
<1>2. CASE thread["main"].n < Len(Order)
  <2> DEFINE r == [thread["main"] EXCEPT !.n = thread["main"].n + 1]
  <2>1. r \in ThreadRecord /\ r.pc = "stop" /\ r.n = thread["main"].n + 1
    BY <1>1 DEF ThreadRecord, At
  <2>2. thread' = [thread EXCEPT !["main"] = r]
    BY <1>1, <1>2 DEF NextDevice, ThreadRecord
  <2> HIDE DEF r
  <2>3. Moves("main") /\ thread'["main"] = r
    BY <1>1, <2>1, <2>2, OneThreadMoves
  <2> QED
    BY <1>2, <2>1, <2>3
<1>3. CASE ~ (thread["main"].n < Len(Order))
  <2>1. Go("main", "hand")
    BY <1>3 DEF NextDevice
  <2> QED
    BY <1>1, <1>3, <2>1, GoMoves
<1> QED
  BY <1>2, <1>3

-----------------------------------------------------------------------------
\* Types and threads
FlowVariablesTyped ==
    /\ out_of_memory \in [Stores -> BOOLEAN] /\ warned \in 0 .. MaxWarnings
    /\ docs \in Seq(Ids) /\ results \in Seq(Ids) /\ inbox \in Seq([docs : Seq(Ids), last : BOOLEAN])

LEMMA TypedParts ==
    FlowTypeOK <=>
        /\ FlowVariablesTyped /\ thread \in [Threads -> ThreadRecord]
        /\ position \in [Stores -> Nat]
        /\ opened \in BOOLEAN /\ complete \in BOOLEAN /\ failed \in BOOLEAN
        /\ stop \subseteq Devices /\ abandoned \subseteq Devices
        /\ step \in 0 .. MaxSteps /\ resets \in Nat /\ origin \in Seq(Threads)
  BY DEF FlowTypeOK, FlowVariablesTyped, ThreadRecord

LEMMA TypedLater ==
    ASSUME FlowVariablesTyped', thread' \in [Threads -> ThreadRecord], position' \in [Stores -> Nat],
           opened' \in BOOLEAN, complete' \in BOOLEAN, failed' \in BOOLEAN,
           stop' \subseteq Devices, abandoned' \subseteq Devices,
           step' \in 0 .. MaxSteps, resets' \in Nat, origin' \in Seq(Threads)
    PROVE  FlowTypeOK'
  BY DEF FlowTypeOK, FlowVariablesTyped, ThreadRecord

\* A store takes a record or leaves it, then because memory is or just has become short.
Added(s, before, after, d) ==
    /\ out_of_memory' \in [Stores -> BOOLEAN] /\ warned' \in 0 .. MaxWarnings /\ after \in Seq(Ids)
    /\ after = Append(before, d) \/ (after = before /\ (out_of_memory[s] \/ warned' # 0))
    /\ warned' = 0 => warned = 0 /\ out_of_memory' = out_of_memory

LEMMA ShortOfMemory ==
    ASSUME FlowVariablesTyped, NEW s \in Stores, warned < MaxWarnings, warned' = warned + 1,
           out_of_memory' = [out_of_memory EXCEPT ![s] = TRUE]
    PROVE  warned' \in 0 .. MaxWarnings /\ warned' # 0 /\ out_of_memory' \in [Stores -> BOOLEAN]
<1>1. warned' \in 0 .. MaxWarnings /\ warned' # 0
  BY FlowConstants DEF FlowVariablesTyped
<1>2. out_of_memory' \in [Stores -> BOOLEAN]
  BY DEF FlowVariablesTyped
<1> QED
  BY <1>1, <1>2

LEMMA CoordinatorAdds ==
    ASSUME FlowVariablesTyped, NEW d \in Ids, _add("coordinator", docs, d)
    PROVE  Added("coordinator", docs, docs', d)
<1> DEFINE s == "coordinator"
<1>1. s \in Stores /\ docs \in Seq(Ids) /\ Append(docs, d) \in Seq(Ids)
  BY DEF Stores, FlowVariablesTyped
<1>2. CASE out_of_memory[s] /\ docs' = docs /\ UNCHANGED <<out_of_memory, warned>>
  BY <1>1, <1>2 DEF Added, FlowVariablesTyped
<1>3. CASE /\ warned < MaxWarnings
           /\ warned' = warned + 1 /\ out_of_memory' = [out_of_memory EXCEPT ![s] = TRUE]
           /\ docs' = docs
  BY <1>1, <1>3, ShortOfMemory DEF Added
<1>4. CASE docs' = Append(docs, d) /\ UNCHANGED <<out_of_memory, warned>>
  BY <1>1, <1>4 DEF Added, FlowVariablesTyped
<1> QED
  BY <1>2, <1>3, <1>4 DEF _add

LEMMA OrchestratorAdds ==
    ASSUME FlowVariablesTyped, NEW d \in Ids, _add("orchestrator", results, d)
    PROVE  Added("orchestrator", results, results', d)
<1> DEFINE s == "orchestrator"
<1>1. s \in Stores /\ results \in Seq(Ids) /\ Append(results, d) \in Seq(Ids)
  BY DEF Stores, FlowVariablesTyped
<1>2. CASE out_of_memory[s] /\ results' = results /\ UNCHANGED <<out_of_memory, warned>>
  BY <1>1, <1>2 DEF Added, FlowVariablesTyped
<1>3. CASE /\ warned < MaxWarnings
           /\ warned' = warned + 1 /\ out_of_memory' = [out_of_memory EXCEPT ![s] = TRUE]
           /\ results' = results
  BY <1>1, <1>3, ShortOfMemory DEF Added
<1>4. CASE results' = Append(results, d) /\ UNCHANGED <<out_of_memory, warned>>
  BY <1>1, <1>4 DEF Added, FlowVariablesTyped
<1> QED
  BY <1>2, <1>3, <1>4 DEF _add

LEMMA WriteTyped ==
    ASSUME position \in [Stores -> Nat], NEW s \in Stores, WriteLine(s)
    PROVE  /\ position' \in [Stores -> Nat]
           /\ \A r \in Stores : r # s => position'[r] = position[r]
           /\ Filesystem => position'[s] = position[s] + 1
  BY DEF WriteLine

LEMMA ExternalizeTyped ==
    ASSUME FlowVariablesTyped, NEW last \in BOOLEAN, to_externalizable(last)
    PROVE  /\ out_of_memory' \in [Stores -> BOOLEAN] /\ warned' \in 0 .. MaxWarnings /\ docs' = <<>> /\ docs' \in Seq(Ids)
           /\ \E m \in [docs : Seq(Ids), last : BOOLEAN] :
                 /\ inbox' = Append(inbox, m) /\ m.last = last
                 /\ m.docs = docs \/ (m.docs = <<>> /\ warned' # 0)
           /\ warned' = 0 => warned = 0
           /\ \A s \in Stores : out_of_memory'[s] => out_of_memory[s]
<1>1. MaxWarnings \in Nat /\ warned \in 0 .. MaxWarnings /\ docs \in Seq(Ids)
  BY FlowConstants DEF FlowVariablesTyped
<1>2. docs' = <<>> /\ docs' \in Seq(Ids)
  BY DEF to_externalizable
<1>3. out_of_memory' \in [Stores -> BOOLEAN] /\ \A s \in Stores : out_of_memory'[s] => out_of_memory[s]
  BY DEF to_externalizable, FlowVariablesTyped
<1>4. CASE inbox' = Append(inbox, [docs |-> docs, last |-> last]) /\ UNCHANGED warned
  BY <1>1, <1>2, <1>3, <1>4
<1>5. CASE warned < MaxWarnings /\ warned' = warned + 1 /\ inbox' = Append(inbox, [docs |-> <<>>, last |-> last])
  <2>1. warned' \in 0 .. MaxWarnings /\ warned' # 0
    BY <1>1, <1>5
  <2> DEFINE m == [docs |-> <<>>, last |-> last]
  <2>2. m \in [docs : Seq(Ids), last : BOOLEAN] /\ m.last = last /\ m.docs = <<>> /\ inbox' = Append(inbox, m)
    BY <1>5
  <2> HIDE DEF m
  <2>3. warned' # 0 /\ (warned' = 0 => warned = 0)
    BY <2>1
  <2> QED
    BY <1>2, <1>3, <2>1, <2>2, <2>3
<1> QED
  BY <1>4, <1>5 DEF to_externalizable

LEMMA InboxAppended ==
    ASSUME FlowVariablesTyped, NEW m \in [docs : Seq(Ids), last : BOOLEAN], inbox' = Append(inbox, m)
    PROVE  /\ inbox' \in Seq([docs : Seq(Ids), last : BOOLEAN]) /\ Len(inbox) \in Nat /\ Len(inbox') = Len(inbox) + 1
           /\ DOMAIN inbox = 1 .. Len(inbox) /\ DOMAIN inbox' = 1 .. Len(inbox) + 1
           /\ \A i \in DOMAIN inbox : inbox'[i] = inbox[i]
           /\ inbox'[Len(inbox) + 1] = m
  BY DEF FlowVariablesTyped

\* The record that a thread adds has a number within the bound.
LEMMA OwnRecord ==
    ASSUME FlowTypeOK, ThreadsAreKnown, RecordsExist, NEW t \in Threads, thread[t].pc \in {"add", "line"}
    PROVE  thread[t].doc \in Created /\ thread[t].doc \in Ids /\ origin[thread[t].doc] = t
<1>1. thread[t].doc \in Created /\ origin[thread[t].doc] = t
  BY DEF ThreadsAreKnown, Writers
<1>2. Len(origin) \in Nat /\ MaxDocs \in Nat /\ Len(origin) <= MaxDocs
  BY FlowConstants DEF FlowTypeOK, RecordsExist
<1> QED
  BY <1>1, <1>2 DEF Created, Ids

\* Messages to the orchestrator
LEMMA ElementOfSequence ==
    ASSUME NEW S, NEW s \in Seq(S), NEW i \in 1 .. Len(s)
    PROVE  s[i] \in S
  OBVIOUS

LEMMA HeadOfInbox ==
    ASSUME FlowTypeOK, inbox # <<>>
    PROVE  /\ Len(inbox) \in Nat /\ Len(inbox) > 0 /\ DOMAIN inbox = 1 .. Len(inbox)
           /\ Head(inbox) = inbox[1] /\ inbox[1] \in [docs : Seq(Ids), last : BOOLEAN]
           /\ inbox[1].docs \in Seq(Ids)
<1>1. inbox \in Seq([docs : Seq(Ids), last : BOOLEAN])
  BY DEF FlowTypeOK
<1>2. Len(inbox) \in Nat /\ Len(inbox) > 0 /\ DOMAIN inbox = 1 .. Len(inbox) /\ Head(inbox) = inbox[1]
  BY <1>1
<1>3. inbox[1] \in [docs : Seq(Ids), last : BOOLEAN]
  <2>1. 1 \in 1 .. Len(inbox)
    BY <1>2
  <2> QED
    BY <1>1, <2>1, ElementOfSequence
<1> QED
  BY <1>2, <1>3

LEMMA BulkTakes ==
    ASSUME FlowTypeOK, bulk_add
    PROVE  /\ inbox # <<>> /\ inbox[1].docs \in Seq(Ids) /\ inbox[1].docs # <<>>
           /\ Head(inbox[1].docs) \in Ids /\ _add("orchestrator", results, Head(inbox[1].docs))
           /\ WriteLine("orchestrator")
           /\ inbox' \in Seq([docs : Seq(Ids), last : BOOLEAN]) /\ Len(inbox') = Len(inbox)
           /\ DOMAIN inbox' = DOMAIN inbox
           /\ inbox'[1].docs = Tail(inbox[1].docs) /\ inbox'[1].last = inbox[1].last
           /\ \A i \in DOMAIN inbox : i # 1 => inbox'[i] = inbox[i]
<1>1. inbox # <<>> /\ inbox \in Seq([docs : Seq(Ids), last : BOOLEAN])
  BY DEF bulk_add, Arrived, FlowTypeOK
<1>2. /\ Len(inbox) \in Nat /\ Len(inbox) > 0 /\ DOMAIN inbox = 1 .. Len(inbox)
      /\ Head(inbox) = inbox[1] /\ inbox[1] \in [docs : Seq(Ids), last : BOOLEAN]
      /\ inbox[1].docs \in Seq(Ids)
  BY <1>1, HeadOfInbox
<1>3. inbox[1].docs # <<>> /\ Head(inbox[1].docs) \in Ids /\ Tail(inbox[1].docs) \in Seq(Ids)
  BY <1>2 DEF bulk_add
<1> DEFINE m == [inbox[1] EXCEPT !.docs = Tail(inbox[1].docs)]
<1>4. m \in [docs : Seq(Ids), last : BOOLEAN] /\ m.docs = Tail(inbox[1].docs) /\ m.last = inbox[1].last
  BY <1>2, <1>3
<1>5. inbox' = [inbox EXCEPT ![1] = m]
  BY <1>2 DEF bulk_add
<1> HIDE DEF m
<1>6. 1 \in DOMAIN inbox
  BY <1>2
<1>7. inbox' \in Seq([docs : Seq(Ids), last : BOOLEAN]) /\ Len(inbox') = Len(inbox) /\ DOMAIN inbox' = DOMAIN inbox
      /\ inbox'[1] = m /\ \A i \in DOMAIN inbox : i # 1 => inbox'[i] = inbox[i]
  BY <1>1, <1>2, <1>4, <1>5, <1>6
<1>8. _add("orchestrator", results, Head(inbox[1].docs)) /\ WriteLine("orchestrator")
  BY <1>2 DEF bulk_add
<1> QED
  BY <1>1, <1>2, <1>3, <1>4, <1>7, <1>8

LEMMA FlowInitOK == FlowInit => FlowInv
<1> SUFFICES ASSUME FlowInit PROVE FlowInv
  OBVIOUS
<1>1. /\ docs = <<>> /\ results = <<>> /\ inbox = <<>> /\ origin = <<>> /\ warned = 0 /\ opened = TRUE
      /\ complete = FALSE /\ failed = FALSE /\ stop = {} /\ abandoned = {} /\ step = 0 /\ resets = 0
      /\ position = [s \in Stores |-> 1] /\ out_of_memory = [s \in Stores |-> FALSE]
  BY DEF FlowInit
<1>2. thread \in [Threads -> ThreadRecord]
  <2>1. 0 \in 0 .. MaxDocs
    BY FlowConstants
  <2> QED
    BY <2>1 DEF FlowInit, ThreadRecord
<1>3. thread["main"].pc = "start" /\ thread["main"].n = 1 /\ \A d \in Devices : thread[d].pc = "off"
  BY FlowConstants DEF FlowInit, Threads
<1>4. FlowTypeOK
  <2>1. opened \in BOOLEAN /\ complete \in BOOLEAN /\ failed \in BOOLEAN
    BY <1>1
  <2>2. warned \in 0 .. MaxWarnings /\ step \in 0 .. MaxSteps /\ resets \in Nat
    BY <1>1, FlowConstants
  <2>3. position \in [Stores -> Nat] /\ out_of_memory \in [Stores -> BOOLEAN]
    BY <1>1
  <2>4. docs \in Seq(Ids) /\ results \in Seq(Ids) /\ inbox \in Seq([docs : Seq(Ids), last : BOOLEAN])
        /\ origin \in Seq(Threads)
    BY <1>1
  <2>5. stop \subseteq Devices /\ abandoned \subseteq Devices
    BY <1>1
  <2> QED
    BY <1>2, <2>1, <2>2, <2>3, <2>4, <2>5, TypedParts DEF FlowVariablesTyped
<1>5. Len(origin) = 0 /\ Created = {}
  BY <1>1 DEF Created
<1>6. AtHand = {} /\ Writers = {} /\ Sent = {} /\ Range(docs) = {} /\ Range(results) = {}
  <2>1. \A t \in Threads : thread[t].pc \notin {"add", "line"}
    BY <1>3 DEF Threads
  <2>2. AtHand = {} /\ Writers = {}
    BY <2>1 DEF AtHand, Writers, At
  <2>3. Sent = {}
    BY <1>1 DEF Sent
  <2> QED
    BY <1>1, <2>2, <2>3, RangeOfEmpty
<1>7. ThreadsAreKnown
  BY <1>3, <1>6 DEF ThreadsAreKnown, At
<1>8. RecordsExist
  BY <1>5, <1>6, FlowConstants DEF RecordsExist
<1>9. InOnePlace
  <2>1. SentOnce
    BY <1>1 DEF SentOnce
  <2> QED
    BY <1>1, <1>6, <2>1, RangeOfEmpty DEF InOnePlace
<1>10. NoneDropped
  BY <1>1, <1>5 DEF NoneDropped
<1>11. StoppedInTurn
  BY <1>3 DEF StoppedInTurn, At, HandedOver
<1>12. LastComesLast
  <2>1. DOMAIN inbox = {}
    BY <1>1
  <2>2. ~ At("main", "done") /\ ~ HandedOver
    BY <1>3 DEF At, HandedOver
  <2>3. opened = ~ At("main", "done")
    BY <1>1, <2>2
  <2> QED
    BY <1>1, <2>1, <2>2, <2>3 DEF LastComesLast
<1>13. LinesAreCounted
  <2>1. Cardinality(Writers) = 0
    BY <1>6, FS_EmptySet
  <2>2. Created \ Pending = {} /\ Cardinality(Created \ Pending) = 0
    BY <1>5, FS_EmptySet
  <2>3. position["coordinator"] = 1 /\ position["orchestrator"] = 1
    BY <1>1 DEF Stores
  <2> QED
    BY <1>1, <1>5, <2>1, <2>2, <2>3 DEF LinesAreCounted
<1> QED
  BY <1>4, <1>7, <1>8, <1>9, <1>10, <1>11, <1>12, <1>13 DEF FlowInv

-----------------------------------------------------------------------------
\* A record is created.
LEMMA NewRecord ==
    ASSUME FlowTypeOK, NEW t \in Threads, origin' = Append(origin, t)
    PROVE  /\ Len(origin) \in Nat /\ Len(origin') = Len(origin) + 1 /\ origin' \in Seq(Threads)
           /\ Created' = Created \cup {Len(origin) + 1} /\ Len(origin) + 1 \notin Created
           /\ origin'[Len(origin) + 1] = t /\ \A d \in Created : origin'[d] = origin[d]
<1>1. /\ origin \in Seq(Threads) /\ Len(origin) \in Nat /\ Len(origin') = Len(origin) + 1 /\ origin' \in Seq(Threads)
      /\ origin'[Len(origin) + 1] = t /\ \A d \in 1 .. Len(origin) : origin'[d] = origin[d]
  BY DEF FlowTypeOK
<1> QED
  BY <1>1 DEF Created

LEMMA ThreadsAfterRest ==
    ASSUME FlowTypeOK, ThreadsAreKnown, NEW d \in Devices, Rests(d)
    PROVE  ThreadsAreKnown'
<1>1. d \in Threads /\ d # "main" /\ "main" \in Threads /\ Devices \subseteq Threads
  BY FlowConstants DEF Threads
<1>2. \A u \in Threads : u # d => thread'[u] = thread[u]
  BY DEF Rests, Moves
<1>3. Writers' \subseteq Writers /\ d \notin Writers'
  BY <1>1, <1>2 DEF Writers, Rests
<1>4. Created' = Created
  BY DEF Rests, Created
<1>5. \A t \in Writers' : thread'[t].doc \in Created' /\ origin'[thread'[t].doc] = t
  BY <1>2, <1>3, <1>4 DEF ThreadsAreKnown, Rests, Writers
<1>6. ~ (thread'["main"].pc = "start")
  BY <1>1, <1>2 DEF ThreadsAreKnown, At, Rests
<1> QED
  BY <1>1, <1>2, <1>5, <1>6 DEF ThreadsAreKnown, At, Rests

LEMMA ThreadsAfterCreate ==
    ASSUME FlowTypeOK, ThreadsAreKnown, NEW t \in Threads, Creates(t),
           IF t = "main" THEN thread[t].pc = "run" ELSE thread[t].pc = "ask"
    PROVE  ThreadsAreKnown'
<1>1. "main" \in Threads /\ Devices \subseteq Threads /\ "main" \notin Devices /\ (t # "main" => t \in Devices)
  BY FlowConstants DEF Threads
<1>2. thread'[t].pc = "add" /\ \A u \in Threads : u # t => thread'[u] = thread[u]
  BY DEF Creates, Moves
<1>3. Writers' = Writers \cup {t} /\ t \notin Writers
  BY CreateMove DEF Creates
<1>4. /\ Created' = Created \cup {Len(origin) + 1} /\ origin'[Len(origin) + 1] = t
      /\ \A d \in Created : origin'[d] = origin[d]
  BY NewRecord DEF Creates
<1>5. ASSUME NEW u \in Writers' PROVE thread'[u].doc \in Created' /\ origin'[thread'[u].doc] = u
  <2>1. CASE u = t
    BY <1>4, <2>1 DEF Creates
  <2>2. CASE u # t
    <3>1. u \in Writers /\ thread'[u] = thread[u]
      BY <1>2, <1>3, <2>2 DEF Writers
    <3> QED
      BY <1>4, <3>1 DEF ThreadsAreKnown
  <2> QED
    BY <2>1, <2>2
<1>6. ~ (thread'["main"].pc = "start")
  BY <1>1, <1>2 DEF ThreadsAreKnown, At
<1> QED
  BY <1>1, <1>2, <1>5, <1>6 DEF ThreadsAreKnown, At

LEMMA ThreadsAfterAdd ==
    ASSUME FlowTypeOK, ThreadsAreKnown, NEW t \in Threads, AddInMemory(t)
    PROVE  ThreadsAreKnown'
<1>1. "main" \in Threads /\ Devices \subseteq Threads /\ "main" \notin Devices /\ (t # "main" => t \in Devices)
  BY FlowConstants DEF Threads
<1>2. Moves(t) /\ thread[t].pc = "add" /\ thread'[t].pc = "line" /\ thread'[t].doc = thread[t].doc
  BY AddInMemoryMoves
<1>3. \A u \in Threads : u # t => thread'[u] = thread[u]
  BY <1>2 DEF Moves
<1>4. Writers' = Writers
  BY <1>2, AddMove
<1>5. origin' = origin /\ Created' = Created
  BY DEF AddInMemory, Created
<1>6. \A u \in Threads : thread'[u].doc = thread[u].doc
  BY <1>2, <1>3
<1>7. \A u \in Writers' : thread'[u].doc \in Created' /\ origin'[thread'[u].doc] = u
  BY <1>4, <1>5, <1>6 DEF ThreadsAreKnown, Writers
<1>8. ~ (thread'["main"].pc = "start")
  BY <1>1, <1>2, <1>3 DEF ThreadsAreKnown, At
<1> QED
  BY <1>1, <1>2, <1>3, <1>7, <1>8 DEF ThreadsAreKnown, At

LEMMA ThreadsAfterLine ==
    ASSUME FlowTypeOK, ThreadsAreKnown, NEW t \in Threads, AddToFile(t)
    PROVE  ThreadsAreKnown' /\ AtHand' = AtHand /\ Writers' = Writers \ {t} /\ t \in Writers
<1>1. "main" \in Threads /\ Devices \subseteq Threads /\ "main" \notin Devices /\ (t # "main" => t \in Devices)
  BY FlowConstants DEF Threads
<1>2. /\ Moves(t) /\ thread[t].pc = "line" /\ (t = "main" => thread'[t].pc = "run")
      /\ (t # "main" => thread'[t].pc \in {"ask", "sleep"})
  BY AddToFileMoves
<1>3. \A u \in Threads : u # t => thread'[u] = thread[u]
  BY <1>2 DEF Moves
<1>4. AtHand' = AtHand /\ Writers' = Writers \ {t} /\ t \in Writers
  BY <1>2, LineMove DEF Busy
<1>5. origin' = origin /\ Created' = Created
  BY DEF AddToFile, Created
<1>6. \A u \in Writers' : thread'[u].doc \in Created' /\ origin'[thread'[u].doc] = u
  BY <1>3, <1>4, <1>5 DEF ThreadsAreKnown, Writers
<1>7. ~ (thread'["main"].pc = "start")
  BY <1>1, <1>2, <1>3 DEF ThreadsAreKnown, At
<1> QED
  BY <1>1, <1>2, <1>3, <1>4, <1>6, <1>7 DEF ThreadsAreKnown, At

-----------------------------------------------------------------------------
\* What the parts of the invariant depend on
LEMMA RecordsStay ==
    ASSUME RecordsExist, InOnePlace, NoneDropped, AtHand' = AtHand,
           UNCHANGED <<docs, results, inbox, origin, warned, out_of_memory>>
    PROVE  /\ RecordsExist' /\ InOnePlace' /\ NoneDropped'
           /\ Pending' = Pending /\ Created' = Created
<1>1. Range(docs)' = Range(docs) /\ Range(results)' = Range(results) /\ Sent' = Sent /\ Created' = Created
  BY DEF Sent, Created
<1>2. Pending' = Pending
  BY <1>1 DEF Pending
<1>3. RecordsExist'
  BY <1>1 DEF RecordsExist
<1>4. IsInjective(docs)' /\ IsInjective(results)' /\ SentOnce'
  BY DEF InOnePlace, SentOnce
<1>5. InOnePlace'
  BY <1>1, <1>4 DEF InOnePlace
<1>6. NoneDropped'
  BY <1>1, <1>2 DEF NoneDropped
<1> QED
  BY <1>1, <1>2, <1>3, <1>5, <1>6

LEMMA LinesStay ==
    ASSUME LinesAreCounted, Writers' = Writers, Pending' = Pending, Created' = Created,
           UNCHANGED <<position, origin, opened>>, abandoned \subseteq abandoned'
    PROVE  LinesAreCounted'
<1>1. Cardinality(Writers)' = Cardinality(Writers) /\ Cardinality(Created \ Pending)' = Cardinality(Created \ Pending)
  OBVIOUS
<1>2. abandoned' = {} => abandoned = {}
  OBVIOUS
<1> QED
  BY <1>1, <1>2 DEF LinesAreCounted

LEMMA LastStays ==
    ASSUME LastComesLast, UNCHANGED <<inbox, complete, opened, failed>>,
           \/ thread'["main"] = thread["main"]
           \/ ~ HandedOver /\ ~ HandedOver'
    PROVE  LastComesLast'
<1>1. HandedOver' <=> HandedOver
  BY DEF HandedOver
<1>2. At("main", "done")' <=> At("main", "done")
  BY DEF HandedOver, At
<1>3. (opened = ~ At("main", "done"))'
  BY <1>2 DEF LastComesLast
<1> QED
  BY <1>1, <1>3 DEF LastComesLast

\* While the actor works on the steps, nothing is stopped yet.
Works == thread["main"].pc \in {"run", "add", "line"}

LEMMA TurnWhileWorking ==
    ASSUME StoppedInTurn, Works, Works', thread'["main"].n = thread["main"].n
    PROVE  StoppedInTurn' /\ ~ HandedOver /\ ~ HandedOver'
  BY DEF StoppedInTurn, Works, At, HandedOver

\* A device that still runs when the records have been handed over is an abandoned one.
LEMMA TurnOfDevice ==
    ASSUME FlowTypeOK, StoppedInTurn, RecordsExist, NEW d \in Devices, Moves(d), ~ At(d, "ended"), abandoned' = abandoned,
           \A r \in Created : origin'[r] = origin[r],
           \A r \in Range(docs') : r \in Range(docs) \/ origin'[r] = d
    PROVE  StoppedInTurn' /\ thread'["main"] = thread["main"]
<1>1. d \in Threads /\ d # "main" /\ "main" \in Threads /\ Devices \subseteq Threads
  BY FlowConstants DEF Threads
<1>2. \A u \in Threads : u # d => thread'[u] = thread[u]
  BY DEF Moves
<1>3. thread'["main"] = thread["main"]
  BY <1>1, <1>2
<1>4. \A u \in Devices : Over(u) => Over(u)'
  BY <1>1, <1>2 DEF Over, At
<1>5. At("main", "stop") => \A i \in 1 .. thread["main"].n - 1 : Over(Order[i])'
  <2>1. SUFFICES ASSUME At("main", "stop"), NEW i \in 1 .. thread["main"].n - 1 PROVE Over(Order[i])'
    OBVIOUS
  <2>2. Over(Order[i]) /\ thread["main"].n \in 1 .. Len(Order)
    BY <2>1 DEF StoppedInTurn
  <2>3. i \in 1 .. Len(Order)
    BY <2>2, FlowConstants
  <2>4. Order[i] \in Devices
    BY <2>3, FlowConstants
  <2> QED
    BY <1>4, <2>2, <2>4
<1>6. HandedOver => \A r \in Range(docs') : origin'[r] \in abandoned'
  <2>1. SUFFICES ASSUME HandedOver, NEW r \in Range(docs') PROVE origin'[r] \in abandoned'
    OBVIOUS
  <2>2. CASE r \in Range(docs)
    BY <2>1, <2>2 DEF StoppedInTurn, RecordsExist
  <2>3. CASE origin'[r] = d
    BY <2>1, <2>3 DEF StoppedInTurn, HandedOver, Over
  <2> QED
    BY <2>2, <2>3
<1>7. thread["main"].pc \in {"hand", "close", "done"} => \A u \in Devices : Over(u)'
  BY <1>4 DEF StoppedInTurn
<1> QED
  BY <1>3, <1>5, <1>6, <1>7 DEF StoppedInTurn, At, HandedOver

\* A device that is not ended is only there while the store is, or abandoned.
LEMMA RunningDevice ==
    ASSUME StoppedInTurn, LastComesLast, NEW d \in Devices, ~ At(d, "ended"), ~ opened
    PROVE  abandoned # {}
<1>1. At("main", "done")
  BY DEF LastComesLast
<1> QED
  BY <1>1 DEF StoppedInTurn, At, Over

LEMMA WorkingIsOpen ==
    ASSUME LastComesLast, thread["main"].pc # "done"
    PROVE  opened
  BY DEF LastComesLast, At

-----------------------------------------------------------------------------
\* Polls and pauses
LEMMA RestKeeps ==
    ASSUME FlowInv, NEW d \in Devices, Rests(d),
           UNCHANGED <<docs, out_of_memory, warned, position, opened, results, inbox, complete,
                       stop, abandoned, step, resets, failed>>
    PROVE  FlowInv'
<1>1. d \in Threads /\ thread' \in [Threads -> ThreadRecord] /\ origin' = origin
  BY DEF Threads, Rests, Moves
<1>2. FlowTypeOK'
  BY <1>1, TypedParts, TypedLater DEF FlowInv, FlowVariablesTyped
<1>3. ThreadsAreKnown'
  BY ThreadsAfterRest DEF FlowInv
<1>4. AtHand' = AtHand /\ Writers' = Writers
  BY <1>1, QuietMove DEF Rests, Busy
<1>5. RecordsExist' /\ InOnePlace' /\ NoneDropped' /\ Pending' = Pending /\ Created' = Created
  BY <1>1, <1>4, RecordsStay DEF FlowInv
<1>6. StoppedInTurn' /\ thread'["main"] = thread["main"]
  BY <1>1, TurnOfDevice DEF FlowInv, Rests, At
<1>7. LastComesLast'
  BY <1>6, LastStays DEF FlowInv
<1>8. LinesAreCounted'
  BY <1>1, <1>4, <1>5, LinesStay DEF FlowInv
<1> QED
  BY <1>2, <1>3, <1>5, <1>6, <1>7, <1>8 DEF FlowInv

\* The threads are finitely many, and so are the records.
LEMMA Finite ==
    ASSUME FlowTypeOK
    PROVE  /\ IsFiniteSet(Threads) /\ IsFiniteSet(Writers) /\ Cardinality(Writers) \in Nat
           /\ IsFiniteSet(Created) /\ IsFiniteSet(Created \ Pending) /\ Cardinality(Created \ Pending) \in Nat
           /\ Cardinality(Created \ Pending) <= Len(origin) /\ Len(origin) \in Nat
<1>1. Len(origin) \in Nat
  BY DEF FlowTypeOK
<1>2. IsFiniteSet(Created) /\ Cardinality(Created) = Len(origin)
  BY <1>1, FS_Interval DEF Created
<1>3. IsFiniteSet(Created \ Pending) /\ Cardinality(Created \ Pending) <= Cardinality(Created)
  <2>1. Created \ Pending \in SUBSET Created
    OBVIOUS
  <2> QED
    BY <1>2, <2>1, FS_Subset
<1>4. IsFiniteSet(Threads)
  <2>1. IsFiniteSet({"jvm", "node", "collection", "query", "indexing", "cache", "shard", "main"})
    <3>1. IsFiniteSet({"jvm"})
      BY FS_Singleton
    <3>2. IsFiniteSet({"jvm"} \cup {"node"} \cup {"collection"} \cup {"query"} \cup {"indexing"} \cup {"cache"}
                        \cup {"shard"} \cup {"main"})
      BY <3>1, FS_AddElement
    <3>3. {"jvm"} \cup {"node"} \cup {"collection"} \cup {"query"} \cup {"indexing"} \cup {"cache"}
                        \cup {"shard"} \cup {"main"}
            = {"jvm", "node", "collection", "query", "indexing", "cache", "shard", "main"}
      OBVIOUS
    <3> QED
      BY <3>2, <3>3
  <2>2. Order \in Seq({"jvm", "node", "collection", "query", "indexing", "cache", "shard"})
    BY FlowAssumption
  <2>3. \A i \in 1 .. Len(Order) : Order[i] \in {"jvm", "node", "collection", "query", "indexing", "cache", "shard"}
    BY <2>2
  <2>4. Threads \in SUBSET {"jvm", "node", "collection", "query", "indexing", "cache", "shard", "main"}
    BY <2>3, FlowConstants DEF Threads
  <2> QED
    BY <2>1, <2>4, FS_Subset
<1>5. IsFiniteSet(Writers)
  <2>1. Writers \in SUBSET Threads
    BY DEF Writers
  <2> QED
    BY <1>4, <2>1, FS_Subset
<1> QED
  BY <1>1, <1>2, <1>3, <1>4, <1>5, FS_CardinalityType

\* Records leave their way one by one; the set of those that have is never smaller than before.
LEMMA ArrivedGrow ==
    ASSUME FlowTypeOK, NEW S, IsFiniteSet(S), Created \ Pending \subseteq S
    PROVE  Cardinality(S) \in Nat /\ Cardinality(Created \ Pending) <= Cardinality(S)
<1>1. Created \ Pending \in SUBSET S
  OBVIOUS
<1> QED
  BY <1>1, FS_Subset, FS_CardinalityType

LEMMA CreateKeeps ==
    ASSUME FlowInv, NEW t \in Threads, Creates(t),
           IF t = "main" THEN thread[t].pc = "run" ELSE thread[t].pc = "ask",
           UNCHANGED <<docs, out_of_memory, warned, position, opened, results, inbox, complete,
                       stop, abandoned, step, resets, failed>>
    PROVE  FlowInv'
<1> DEFINE new == Len(origin) + 1
<1>0. FlowTypeOK /\ ThreadsAreKnown /\ RecordsExist /\ InOnePlace /\ NoneDropped /\ StoppedInTurn
      /\ LastComesLast /\ LinesAreCounted
  BY DEF FlowInv
<1>1. /\ Len(origin) \in Nat /\ Len(origin') = Len(origin) + 1 /\ origin' \in Seq(Threads)
      /\ Created' = Created \cup {new} /\ new \notin Created
      /\ origin'[new] = t /\ \A d \in Created : origin'[d] = origin[d]
  BY <1>0, NewRecord DEF Creates
<1>2. FlowTypeOK'
  BY <1>0, <1>1, TypedParts, TypedLater DEF FlowVariablesTyped, Creates, Moves
<1>3. ThreadsAreKnown'
  BY <1>0, ThreadsAfterCreate
<1>4. AtHand' = AtHand \cup {new} /\ Writers' = Writers \cup {t} /\ t \notin Writers
  BY CreateMove DEF Creates
<1>5. Range(docs)' = Range(docs) /\ Range(results)' = Range(results) /\ Sent' = Sent
  BY DEF Sent
<1>6. Pending' = Pending \cup {new}
  BY <1>4, <1>5 DEF Pending
<1>7. Len(origin') <= MaxDocs
  BY <1>1, FlowConstants DEF Creates
<1>8. RecordsExist'
  BY <1>0, <1>1, <1>5, <1>7 DEF RecordsExist
<1>9. new \notin Range(docs) /\ new \notin Range(results) /\ new \notin Sent
  BY <1>0, <1>1 DEF RecordsExist
<1>10. IsInjective(docs)' /\ IsInjective(results)' /\ SentOnce'
  BY <1>0 DEF InOnePlace, SentOnce
<1> HIDE DEF new
<1>11. InOnePlace'
  BY <1>0, <1>4, <1>5, <1>9, <1>10 DEF InOnePlace
<1>12. NoneDropped'
  BY <1>0, <1>1, <1>5, <1>6 DEF NoneDropped
<1>13. StoppedInTurn' /\ LastComesLast' /\ (~ opened => abandoned # {})
  <2>1. CASE t = "main"
    <3>1. Works /\ Works' /\ thread'["main"].n = thread["main"].n
      BY <2>1 DEF Works, Creates
    <3>2. StoppedInTurn' /\ ~ HandedOver /\ ~ HandedOver'
      BY <1>0, <3>1, TurnWhileWorking
    <3>3. opened
      BY <1>0, <3>1, WorkingIsOpen DEF Works
    <3> QED
      BY <1>0, <3>2, <3>3, LastStays
  <2>2. CASE t # "main"
    <3>1. t \in Devices /\ Moves(t) /\ ~ At(t, "ended")
      BY <2>2 DEF Threads, Creates, At
    <3>2. StoppedInTurn' /\ thread'["main"] = thread["main"]
      BY <1>0, <1>1, <3>1, TurnOfDevice
    <3>3. LastComesLast'
      BY <1>0, <3>2, LastStays
    <3> QED
      BY <1>0, <3>1, <3>2, <3>3, RunningDevice
  <2> QED
    BY <2>1, <2>2
<1>14. LinesAreCounted'
  <2>1. Cardinality(Writers') = Cardinality(Writers) + 1 /\ Cardinality(Writers) \in Nat
    BY <1>0, <1>4, Finite, FS_AddElement
  <2>2. Created' \ Pending' = Created \ Pending
    BY <1>1, <1>6
  <2>3. Cardinality(Created' \ Pending') = Cardinality(Created \ Pending)
    BY <2>2
  <2>4. position \in [Stores -> Nat] /\ position["coordinator"] \in Nat
    BY <1>0 DEF FlowTypeOK, Stores
  <2>5. opened' = opened /\ abandoned' = abandoned /\ position' = position
    OBVIOUS
  <2>6. SUFFICES ASSUME Filesystem
                 PROVE  /\ opened => position["coordinator"] + Cardinality(Writers') = Len(origin') + 1
                        /\ position["orchestrator"] <= Cardinality(Created' \ Pending') + 1
    BY <1>13, <2>5 DEF LinesAreCounted
  <2>7. opened => position["coordinator"] + Cardinality(Writers) = Len(origin) + 1
    BY <1>0, <2>6 DEF LinesAreCounted
  <2>8. position["orchestrator"] <= Cardinality(Created \ Pending) + 1
    BY <1>0, <2>6 DEF LinesAreCounted
  <2>9. opened => position["coordinator"] + Cardinality(Writers') = Len(origin') + 1
    BY <1>1, <2>1, <2>4, <2>7
  <2> QED
    BY <2>3, <2>8, <2>9
<1> QED
  BY <1>2, <1>3, <1>8, <1>11, <1>12, <1>13, <1>14 DEF FlowInv

\* A record gets from a thread into the store, or is dropped.
LEMMA AddKeeps ==
    ASSUME FlowInv, NEW t \in Threads, AddInMemory(t)
    PROVE  FlowInv'
<1> DEFINE doc == thread[t].doc
<1>0. FlowTypeOK /\ ThreadsAreKnown /\ RecordsExist /\ InOnePlace /\ NoneDropped /\ StoppedInTurn
      /\ LastComesLast /\ LinesAreCounted
  BY DEF FlowInv
<1>1. /\ Moves(t) /\ thread[t].pc = "add" /\ thread'[t].pc = "line" /\ thread'[t].n = thread[t].n
      /\ UNCHANGED <<position, opened, results, inbox, complete, stop, abandoned, step, resets, failed, origin>>
  BY <1>0, AddInMemoryMoves DEF AddInMemory
<1>2. doc \in Created /\ doc \in Ids /\ origin[doc] = t
  BY <1>0, <1>1, OwnRecord
<1>3. FlowVariablesTyped /\ docs \in Seq(Ids)
  BY <1>0, TypedParts DEF FlowVariablesTyped
<1>4. Added("coordinator", docs, docs', doc)
  BY <1>2, <1>3, CoordinatorAdds DEF AddInMemory
<1>5. FlowTypeOK'
  BY <1>0, <1>1, <1>3, <1>4, TypedParts, TypedLater DEF FlowVariablesTyped, Moves, Added
<1>6. ThreadsAreKnown'
  BY <1>0, ThreadsAfterAdd
<1>7. AtHand' = AtHand \ {doc} /\ Writers' = Writers /\ doc \in AtHand
  BY <1>0, <1>1, AddMove
<1>8. Range(results)' = Range(results) /\ Sent' = Sent /\ Created' = Created
  BY <1>1 DEF Sent, Created
<1>9. doc \notin Range(docs) /\ doc \notin Range(results) /\ doc \notin Sent
  BY <1>0, <1>7 DEF InOnePlace
<1> HIDE DEF doc
<1>10. /\ Range(docs') \subseteq Range(docs) \cup {doc} /\ IsInjective(docs')
       /\ warned' = 0 => Range(docs') = Range(docs) \cup {doc}
  <2>1. CASE docs' = Append(docs, doc)
    BY <1>0, <1>2, <1>3, <1>9, <2>1, RangeOfAppend, InjectiveAppend DEF InOnePlace
  <2>2. CASE docs' = docs /\ (out_of_memory["coordinator"] \/ warned' # 0)
    <3>1. warned' # 0
      <4>1. "coordinator" \in Stores
        BY DEF Stores
      <4>2. warned = 0 => ~ out_of_memory["coordinator"]
        BY <1>0, <4>1 DEF NoneDropped
      <4> QED
        BY <1>4, <2>2, <4>2 DEF Added
    <3> QED
      BY <1>0, <2>2, <3>1 DEF InOnePlace
  <2> QED
    BY <1>4, <2>1, <2>2 DEF Added
<1>11. RecordsExist'
  BY <1>0, <1>1, <1>2, <1>8, <1>10 DEF RecordsExist
<1>12. InOnePlace'
  <2>1. IsInjective(results)' /\ SentOnce'
    BY <1>0, <1>1 DEF InOnePlace, SentOnce
  <2> QED
    BY <1>0, <1>7, <1>8, <1>9, <1>10, <2>1 DEF InOnePlace
<1>13. Pending' \subseteq Pending /\ (warned' = 0 => Pending' = Pending)
  BY <1>7, <1>8, <1>10 DEF Pending
<1>14. NoneDropped'
  <2>1. warned' = 0 => warned = 0 /\ out_of_memory' = out_of_memory
    BY <1>4 DEF Added
  <2> QED
    BY <1>0, <1>8, <1>13, <2>1 DEF NoneDropped
<1>15. StoppedInTurn' /\ LastComesLast'
  <2>1. CASE t = "main"
    <3>1. Works /\ Works' /\ thread'["main"].n = thread["main"].n
      BY <1>1, <2>1 DEF Works
    <3>2. StoppedInTurn' /\ ~ HandedOver /\ ~ HandedOver'
      BY <1>0, <3>1, TurnWhileWorking
    <3> QED
      BY <1>0, <1>1, <3>2, LastStays
  <2>2. CASE t # "main"
    <3>1. t \in Devices /\ Moves(t) /\ ~ At(t, "ended")
      BY <1>1, <2>2 DEF Threads, At
    <3>2. \A r \in Range(docs') : r \in Range(docs) \/ origin'[r] = t
      BY <1>1, <1>2, <1>10 DEF doc
    <3>3. StoppedInTurn' /\ thread'["main"] = thread["main"]
      BY <1>0, <1>1, <3>1, <3>2, TurnOfDevice
    <3> QED
      BY <1>0, <1>1, <3>3, LastStays
  <2> QED
    BY <2>1, <2>2
<1>16. LinesAreCounted'
  <2>1. Created \ Pending \subseteq Created' \ Pending' /\ IsFiniteSet(Created' \ Pending')
    <3>1. Created' \ Pending' \in SUBSET Created
      BY <1>8
    <3> QED
      BY <1>0, <1>8, <1>13, <3>1, Finite, FS_Subset
  <2>2. /\ Cardinality(Created' \ Pending') \in Nat /\ Cardinality(Created \ Pending) \in Nat
        /\ Cardinality(Created \ Pending) <= Cardinality(Created' \ Pending')
    BY <1>0, <2>1, ArrivedGrow, Finite
  <2>3. position \in [Stores -> Nat] /\ position["orchestrator"] \in Nat
    BY <1>0 DEF FlowTypeOK, Stores
  <2>4. Cardinality(Writers') = Cardinality(Writers)
    BY <1>7
  <2>5. position["orchestrator"] <= Cardinality(Created \ Pending) + 1
           => position["orchestrator"] <= Cardinality(Created' \ Pending') + 1
    BY <2>2, <2>3
  <2> QED
    BY <1>0, <1>1, <2>4, <2>5 DEF LinesAreCounted
<1> QED
  BY <1>5, <1>6, <1>11, <1>12, <1>14, <1>15, <1>16 DEF FlowInv

\* A line is written, unless the store is closed.
LEMMA LineKeeps ==
    ASSUME FlowInv, NEW t \in Threads, AddToFile(t)
    PROVE  FlowInv'
<1>0. FlowTypeOK /\ ThreadsAreKnown /\ RecordsExist /\ InOnePlace /\ NoneDropped /\ StoppedInTurn
      /\ LastComesLast /\ LinesAreCounted
  BY DEF FlowInv
<1>1. /\ Moves(t) /\ thread[t].pc = "line" /\ (t = "main" => thread'[t].pc = "run" /\ thread'[t].n = thread[t].n)
      /\ UNCHANGED <<docs, out_of_memory, warned, opened, results, inbox, complete, stop, abandoned,
                     step, resets, failed, origin>>
  BY <1>0, AddToFileMoves DEF AddToFile
<1>2. position \in [Stores -> Nat] /\ "coordinator" \in Stores /\ "orchestrator" \in Stores
  BY <1>0 DEF FlowTypeOK, Stores
<1>3. /\ position' \in [Stores -> Nat] /\ position'["orchestrator"] = position["orchestrator"]
      /\ IF opened THEN Filesystem => position'["coordinator"] = position["coordinator"] + 1 ELSE position' = position
  <2>1. CASE opened
    BY <1>2, <2>1, WriteTyped DEF AddToFile
  <2>2. CASE ~ opened
    BY <1>2, <2>2 DEF AddToFile
  <2> QED
    BY <2>1, <2>2
<1>4. FlowTypeOK'
  BY <1>0, <1>1, <1>3, TypedParts, TypedLater DEF FlowVariablesTyped, Moves
<1>5. ThreadsAreKnown' /\ AtHand' = AtHand /\ Writers' = Writers \ {t} /\ t \in Writers
  BY <1>0, ThreadsAfterLine
<1>6. RecordsExist' /\ InOnePlace' /\ NoneDropped' /\ Pending' = Pending /\ Created' = Created
  BY <1>0, <1>1, <1>5, RecordsStay
<1>7. StoppedInTurn' /\ LastComesLast' /\ (~ opened => abandoned # {})
  <2>1. CASE t = "main"
    <3>1. Works /\ Works' /\ thread'["main"].n = thread["main"].n
      BY <1>1, <2>1 DEF Works
    <3>2. StoppedInTurn' /\ ~ HandedOver /\ ~ HandedOver'
      BY <1>0, <3>1, TurnWhileWorking
    <3>3. opened
      BY <1>0, <3>1, WorkingIsOpen DEF Works
    <3> QED
      BY <1>0, <1>1, <3>2, <3>3, LastStays
  <2>2. CASE t # "main"
    <3>1. t \in Devices /\ Moves(t) /\ ~ At(t, "ended")
      BY <1>1, <2>2 DEF Threads, At
    <3>2. StoppedInTurn' /\ thread'["main"] = thread["main"]
      BY <1>0, <1>1, <3>1, TurnOfDevice
    <3>3. LastComesLast'
      BY <1>0, <1>1, <3>2, LastStays
    <3> QED
      BY <1>0, <3>1, <3>2, <3>3, RunningDevice
  <2> QED
    BY <2>1, <2>2
<1>8. LinesAreCounted'
  <2>1. Cardinality(Writers') = Cardinality(Writers) - 1 /\ Cardinality(Writers) \in Nat
    BY <1>0, <1>5, Finite, FS_RemoveElement
  <2>2. Cardinality(Created' \ Pending') = Cardinality(Created \ Pending)
    BY <1>6
  <2>3. position["coordinator"] \in Nat /\ Len(origin) \in Nat
    BY <1>0, <1>2 DEF FlowTypeOK
  <2>4. SUFFICES ASSUME Filesystem
                 PROVE  /\ opened => position'["coordinator"] + Cardinality(Writers') = Len(origin) + 1
                        /\ position'["orchestrator"] <= Cardinality(Created' \ Pending') + 1
    BY <1>1, <1>7 DEF LinesAreCounted
  <2>5. opened => position["coordinator"] + Cardinality(Writers) = Len(origin) + 1
    BY <1>0, <2>4 DEF LinesAreCounted
  <2>6. opened => position'["coordinator"] + Cardinality(Writers') = Len(origin) + 1
    BY <1>3, <2>1, <2>3, <2>4, <2>5
  <2>7. position["orchestrator"] <= Cardinality(Created \ Pending) + 1
    BY <1>0, <2>4 DEF LinesAreCounted
  <2> QED
    BY <1>3, <2>2, <2>6, <2>7
<1> QED
  BY <1>4, <1>5, <1>6, <1>7, <1>8 DEF FlowInv

-----------------------------------------------------------------------------
\* The devices start.
LEMMA StartKeeps ==
    ASSUME FlowInv, on_benchmark_start
    PROVE  FlowInv'
<1>0. FlowTypeOK /\ ThreadsAreKnown /\ RecordsExist /\ InOnePlace /\ NoneDropped /\ StoppedInTurn
      /\ LastComesLast /\ LinesAreCounted
  BY DEF FlowInv
<1>1. "main" \in Threads /\ Devices \subseteq Threads /\ "main" \notin Devices /\ \A t \in Threads : t # "main" => t \in Devices
  BY FlowConstants DEF Threads
<1>2. thread \in [Threads -> ThreadRecord] /\ thread["main"].pc = "start" /\ \A d \in Devices : thread[d].pc = "off"
  BY <1>0, ThreadTyped DEF on_benchmark_start, ThreadsAreKnown, At
<1>3. /\ UNCHANGED <<docs, out_of_memory, warned, position, opened, results, inbox, complete,
                   stop, abandoned, step, resets, failed, origin>>
      /\ \E running \in {Devices, Devices \ {"shard"}} :
           thread' = [t \in Threads |-> IF t = "main" THEN [thread[t] EXCEPT !.pc = "run"]
                                      ELSE [thread[t] EXCEPT !.pc = IF t \in running THEN "ask" ELSE "ended"]]
  BY DEF on_benchmark_start
<1>4. PICK running \in {Devices, Devices \ {"shard"}} :
           thread' = [t \in Threads |-> IF t = "main" THEN [thread[t] EXCEPT !.pc = "run"]
                                      ELSE [thread[t] EXCEPT !.pc = IF t \in running THEN "ask" ELSE "ended"]]
  BY <1>3
<1>5. /\ thread' \in [Threads -> ThreadRecord] /\ thread'["main"].pc = "run" /\ thread'["main"].n = thread["main"].n
      /\ \A d \in Devices : thread'[d].pc \in {"ask", "ended"}
  BY <1>1, <1>2, <1>4 DEF ThreadRecord
<1>6. AtHand' = AtHand /\ Writers' = Writers /\ Writers' = {}
  <2>1. \A t \in Threads : thread[t].pc \notin {"add", "line"} /\ thread'[t].pc \notin {"add", "line"}
    BY <1>1, <1>2, <1>5
  <2> QED
    BY <2>1 DEF AtHand, Writers, At
<1>7. FlowTypeOK'
  BY <1>0, <1>3, <1>5, TypedParts, TypedLater DEF FlowVariablesTyped
<1>8. ThreadsAreKnown'
  BY <1>5, <1>6 DEF ThreadsAreKnown, At
<1>9. RecordsExist' /\ InOnePlace' /\ NoneDropped' /\ Pending' = Pending /\ Created' = Created
  BY <1>0, <1>3, <1>6, RecordsStay
<1>10. StoppedInTurn' /\ ~ HandedOver /\ ~ HandedOver'
  BY <1>0, <1>2, <1>5 DEF StoppedInTurn, HandedOver, At
<1>11. LastComesLast'
  BY <1>0, <1>3, <1>10, LastStays
<1>12. LinesAreCounted'
  BY <1>0, <1>3, <1>6, <1>9, LinesStay
<1> QED
  BY <1>7, <1>8, <1>9, <1>10, <1>11, <1>12 DEF FlowInv

\* The actor goes on without a record at hand.
LEMMA MainMoves ==
    ASSUME FlowTypeOK, ThreadsAreKnown, Moves("main"), ~ Busy("main"), ~ Busy("main")', origin' = origin,
           thread["main"].pc # "start",
           thread'["main"].pc \in {"run", "stop", "hand", "close", "done"}
    PROVE  ThreadsAreKnown' /\ AtHand' = AtHand /\ Writers' = Writers
           /\ \A d \in Devices : thread'[d] = thread[d]
<1>1. "main" \in Threads /\ Devices \subseteq Threads /\ "main" \notin Devices
  BY FlowConstants DEF Threads
<1>2. AtHand' = AtHand /\ Writers' = Writers
  BY <1>1, QuietMove
<1>3. \A u \in Threads : u # "main" => thread'[u] = thread[u]
  BY DEF Moves
<1>4. \A t \in Writers' : thread'[t].doc \in Created' /\ origin'[thread'[t].doc] = t
  <2>1. "main" \notin Writers
    BY DEF Writers, Busy
  <2> QED
    BY <1>2, <1>3, <2>1 DEF ThreadsAreKnown, Created, Writers
<1>5. \A d \in Devices : thread'[d] = thread[d]
  BY <1>1, <1>3
<1> QED
  BY <1>2, <1>4, <1>5 DEF ThreadsAreKnown, At

LEMMA LastStepKeeps ==
    ASSUME FlowInv, LastStepFinished
    PROVE  FlowInv'
<1>0. FlowTypeOK /\ ThreadsAreKnown /\ RecordsExist /\ InOnePlace /\ NoneDropped /\ StoppedInTurn
      /\ LastComesLast /\ LinesAreCounted
  BY DEF FlowInv
<1>1. "main" \in Threads
  BY DEF Threads
<1> DEFINE pc == IF Order = <<>> THEN "hand" ELSE "stop"
<1>2. /\ pc \in {"hand", "stop"} /\ Go("main", pc) /\ thread["main"].pc = "run" /\ step' = MaxSteps
      /\ UNCHANGED <<docs, out_of_memory, warned, position, opened, results, inbox, complete,
                     stop, abandoned, resets, failed, origin>>
  BY DEF LastStepFinished, At
<1>3. Moves("main") /\ thread'["main"].pc = pc /\ thread'["main"].n = thread["main"].n
  BY <1>0, <1>1, <1>2, GoMoves
<1>4. ThreadsAreKnown' /\ AtHand' = AtHand /\ Writers' = Writers /\ \A d \in Devices : thread'[d] = thread[d]
  BY <1>0, <1>2, <1>3, MainMoves DEF Busy
<1>5. step' \in 0 .. MaxSteps
  BY <1>2, FlowConstants
<1>6. FlowTypeOK'
  BY <1>0, <1>2, <1>3, <1>5, TypedParts, TypedLater DEF FlowVariablesTyped, Moves
<1>7. RecordsExist' /\ InOnePlace' /\ NoneDropped' /\ Pending' = Pending /\ Created' = Created
  BY <1>0, <1>2, <1>4, RecordsStay
<1>8. StoppedInTurn' /\ ~ HandedOver /\ ~ HandedOver'
  <2>1. thread'["main"].n = 1
    BY <1>0, <1>2, <1>3 DEF StoppedInTurn
  <2>2. Order = <<>> => Devices = {}
    BY RangeOfEmpty DEF Devices
  <2>3. Order # <<>> => 1 \in 1 .. Len(Order)
    BY FlowAssumption
  <2> QED
    BY <1>2, <1>3, <2>1, <2>2, <2>3 DEF StoppedInTurn, HandedOver, At
<1>9. LastComesLast'
  BY <1>0, <1>2, <1>8, LastStays
<1>10. LinesAreCounted'
  BY <1>0, <1>2, <1>4, <1>7, LinesStay
<1> QED
  BY <1>4, <1>6, <1>7, <1>8, <1>9, <1>10 DEF FlowInv

\* One device after the other is told to stop and waited for.
LEMMA StopKeeps ==
    ASSUME FlowInv, on_benchmark_stop
    PROVE  FlowInv'
<1>0. FlowTypeOK /\ ThreadsAreKnown /\ RecordsExist /\ InOnePlace /\ NoneDropped /\ StoppedInTurn
      /\ LastComesLast /\ LinesAreCounted
  BY DEF FlowInv
<1>1. /\ thread["main"].pc = "stop" /\ stop' = stop \cup {Current}
      /\ UNCHANGED <<docs, out_of_memory, warned, position, opened, results, inbox, complete,
                     step, resets, failed, origin>>
  BY DEF on_benchmark_stop, At
<1>2. PICK n \in 1 .. Len(Order) : n = thread["main"].n /\ \A i \in 1 .. n - 1 : Over(Order[i])
  BY <1>0, <1>1 DEF StoppedInTurn, At
<1>3. PICK c \in Devices : c = Current /\ c = Order[n]
  BY <1>2, FlowConstants DEF Current
<1>4. "main" \in Threads /\ Devices \subseteq Threads /\ "main" \notin Devices
      /\ \A i \in 1 .. Len(Order) : Order[i] \in Devices
  BY FlowConstants DEF Threads
<1>5. /\ \/ NextDevice \/ thread' = thread
      /\ abandoned \subseteq abandoned' /\ abandoned' \subseteq abandoned \cup {c}
      /\ NextDevice => At(c, "ended") \/ c \in abandoned' \/ thread' = thread
  BY <1>3 DEF on_benchmark_stop
<1>6. \/ thread' = thread
      \/ /\ Moves("main") /\ Over(c)'
         /\ \/ n < Len(Order) /\ thread'["main"].pc = "stop" /\ thread'["main"].n = n + 1
            \/ ~ (n < Len(Order)) /\ thread'["main"].pc = "hand"
  <2>1. CASE NextDevice /\ thread' # thread
    <3>1. Moves("main") /\ \/ n < Len(Order) /\ thread'["main"].pc = "stop" /\ thread'["main"].n = n + 1
                           \/ ~ (n < Len(Order)) /\ thread'["main"].pc = "hand"
      BY <1>0, <1>1, <1>2, <2>1, NextDeviceMoves DEF At
    <3>2. thread'[c] = thread[c]
      BY <1>4, <3>1 DEF Moves
    <3> QED
      BY <1>5, <2>1, <3>1, <3>2 DEF Over, At
  <2> QED
    BY <1>5, <2>1
<1>7. thread' \in [Threads -> ThreadRecord]
  BY <1>0, <1>6, ThreadTyped DEF Moves
<1>8. FlowTypeOK'
  <2>1. stop' \subseteq Devices /\ abandoned' \subseteq Devices
    BY <1>0, <1>1, <1>3, <1>5 DEF FlowTypeOK
  <2> QED
    BY <1>0, <1>1, <1>7, <2>1, TypedParts, TypedLater DEF FlowVariablesTyped
<1>9. ThreadsAreKnown' /\ AtHand' = AtHand /\ Writers' = Writers /\ \A d \in Devices : thread'[d] = thread[d]
  <2>1. CASE thread' = thread
    BY <1>0, <1>1, <2>1 DEF ThreadsAreKnown, AtHand, Writers, At, Created
  <2>2. CASE thread' # thread
    BY <1>0, <1>1, <1>6, <2>2, MainMoves DEF Busy
  <2> QED
    BY <2>1, <2>2
<1>10. RecordsExist' /\ InOnePlace' /\ NoneDropped' /\ Pending' = Pending /\ Created' = Created
  BY <1>0, <1>1, <1>9, RecordsStay
<1>11. \A d \in Devices : Over(d) => Over(d)'
  BY <1>5, <1>9 DEF Over, At
<1>12. \A i \in 1 .. n - 1 : Over(Order[i])'
  <2>1. SUFFICES ASSUME NEW i \in 1 .. n - 1 PROVE Over(Order[i])'
    OBVIOUS
  <2>2. i \in 1 .. Len(Order)
    BY FlowConstants
  <2> QED
    BY <1>2, <1>4, <1>11, <2>2
<1>13. StoppedInTurn' /\ ~ HandedOver /\ ~ HandedOver'
  <2>1. CASE thread' = thread
    BY <1>1, <1>2, <1>12, <2>1 DEF StoppedInTurn, HandedOver, At
  <2>2. CASE Over(c)' /\ n < Len(Order) /\ thread'["main"].pc = "stop" /\ thread'["main"].n = n + 1
    <3>1. n + 1 \in 1 .. Len(Order)
      BY <2>2, FlowConstants
    <3>2. \A i \in 1 .. (n + 1) - 1 : i \in 1 .. n - 1 \/ i = n
      OBVIOUS
    <3>3. \A i \in 1 .. (n + 1) - 1 : Over(Order[i])'
      BY <1>3, <1>12, <2>2, <3>2
    <3> QED
      BY <1>1, <2>2, <3>1, <3>3 DEF StoppedInTurn, HandedOver, At
  <2>3. CASE Over(c)' /\ ~ (n < Len(Order)) /\ thread'["main"].pc = "hand"
    <3>1. n = Len(Order) /\ \A i \in 1 .. Len(Order) : i \in 1 .. n - 1 \/ i = n
      BY <2>3, FlowConstants
    <3>2. \A i \in 1 .. Len(Order) : Over(Order[i])'
      BY <1>3, <1>12, <2>3, <3>1
    <3>3. \A d \in Devices : Over(d)'
      BY <3>2, FlowConstants
    <3> QED
      BY <1>1, <2>3, <3>3 DEF StoppedInTurn, HandedOver, At
  <2> QED
    BY <1>6, <2>1, <2>2, <2>3
<1>14. LastComesLast'
  BY <1>0, <1>1, <1>13, LastStays
<1>15. LinesAreCounted'
  BY <1>0, <1>1, <1>5, <1>9, <1>10, LinesStay
<1> QED
  BY <1>8, <1>9, <1>10, <1>13, <1>14, <1>15 DEF FlowInv

\* The store is closed when all devices are over.
LEMMA CloseKeeps ==
    ASSUME FlowInv, CloseStore
    PROVE  FlowInv'
<1>0. FlowTypeOK /\ ThreadsAreKnown /\ RecordsExist /\ InOnePlace /\ NoneDropped /\ StoppedInTurn
      /\ LastComesLast /\ LinesAreCounted
  BY DEF FlowInv
<1>1. "main" \in Threads /\ "main" \notin Devices
  BY FlowConstants DEF Threads
<1>2. /\ Go("main", "done") /\ thread["main"].pc = "close" /\ opened' = FALSE
      /\ UNCHANGED <<docs, out_of_memory, warned, position, results, inbox, complete, stop,
                     abandoned, step, resets, failed, origin>>
  BY DEF CloseStore, At
<1>3. Moves("main") /\ thread'["main"].pc = "done"
  BY <1>0, <1>1, <1>2, GoMoves
<1>4. ThreadsAreKnown' /\ AtHand' = AtHand /\ Writers' = Writers /\ \A d \in Devices : thread'[d] = thread[d]
  BY <1>0, <1>2, <1>3, MainMoves DEF Busy
<1>5. FlowTypeOK'
  BY <1>0, <1>2, <1>3, TypedParts, TypedLater DEF FlowVariablesTyped, Moves
<1>6. RecordsExist' /\ InOnePlace' /\ NoneDropped' /\ Pending' = Pending /\ Created' = Created
  BY <1>0, <1>2, <1>4, RecordsStay
<1>7. HandedOver /\ HandedOver' /\ \A d \in Devices : Over(d) /\ Over(d)'
  BY <1>0, <1>2, <1>3, <1>4 DEF HandedOver, StoppedInTurn, Over, At
<1>8. StoppedInTurn'
  BY <1>0, <1>2, <1>3, <1>7 DEF StoppedInTurn, At
<1>9. LastComesLast'
  <2>1. (opened = ~ At("main", "done"))'
    BY <1>2, <1>3 DEF At
  <2> QED
    BY <1>0, <1>2, <1>7, <2>1 DEF LastComesLast
<1>10. LinesAreCounted'
  <2>1. opened
    BY <1>0, <1>2, WorkingIsOpen
  <2>2. abandoned = {} => Writers = {}
    BY <1>1, <1>2, <1>7 DEF Over, At, Writers, Threads
  <2>3. abandoned = {} => Cardinality(Writers) = 0
    BY <2>2, FS_EmptySet
  <2>4. position["coordinator"] \in Nat
    BY <1>0 DEF FlowTypeOK, Stores
  <2>5. SUFFICES ASSUME Filesystem
                 PROVE  /\ abandoned = {} => position["coordinator"] = Len(origin) + 1
                        /\ position["orchestrator"] <= Cardinality(Created \ Pending) + 1
    BY <1>2, <1>6 DEF LinesAreCounted
  <2>6. position["coordinator"] + Cardinality(Writers) = Len(origin) + 1
    BY <1>0, <2>1, <2>5 DEF LinesAreCounted
  <2>7. position["orchestrator"] <= Cardinality(Created \ Pending) + 1
    BY <1>0, <2>5 DEF LinesAreCounted
  <2> QED
    BY <2>3, <2>4, <2>6, <2>7
<1> QED
  BY <1>4, <1>5, <1>6, <1>8, <1>9, <1>10 DEF FlowInv

\* A wake-up that finds no store fails.
LEMMA ResetKeeps ==
    ASSUME FlowInv, ResetRelativeTime
    PROVE  FlowInv'
<1>0. FlowTypeOK /\ ThreadsAreKnown /\ RecordsExist /\ InOnePlace /\ NoneDropped /\ StoppedInTurn
      /\ LastComesLast /\ LinesAreCounted
  BY DEF FlowInv
<1>1. /\ resets > 0 /\ resets' = resets - 1 /\ failed' = (failed \/ ~ opened)
      /\ UNCHANGED <<docs, out_of_memory, warned, position, opened, results, inbox, complete,
                     thread, stop, abandoned, step, origin>>
  BY DEF ResetRelativeTime
<1>2. failed' \in BOOLEAN
  BY <1>1
<1>3. resets' \in Nat
  BY <1>0, <1>1 DEF FlowTypeOK
<1>4. FlowTypeOK'
  BY <1>0, <1>1, <1>2, <1>3, TypedParts, TypedLater DEF FlowVariablesTyped
<1>5. AtHand' = AtHand /\ Writers' = Writers /\ ThreadsAreKnown'
  BY <1>0, <1>1 DEF AtHand, Writers, ThreadsAreKnown, At, Created
<1>6. RecordsExist' /\ InOnePlace' /\ NoneDropped' /\ Pending' = Pending /\ Created' = Created
  BY <1>0, <1>1, <1>5, RecordsStay
<1>7. StoppedInTurn'
  BY <1>0, <1>1 DEF StoppedInTurn, At, Over, HandedOver
<1>8. LastComesLast'
  <2>1. failed' => ~ opened'
    BY <1>0, <1>1 DEF LastComesLast
  <2>2. (opened = ~ At("main", "done"))'
    BY <1>0, <1>1 DEF LastComesLast, At
  <2>3. HandedOver' <=> HandedOver
    BY <1>1 DEF HandedOver
  <2> QED
    BY <1>0, <1>1, <2>1, <2>2, <2>3 DEF LastComesLast
<1>9. LinesAreCounted'
  BY <1>0, <1>1, <1>5, <1>6, LinesStay
<1> QED
  BY <1>4, <1>5, <1>6, <1>7, <1>8, <1>9 DEF FlowInv

-----------------------------------------------------------------------------
\* What is on its way to the orchestrator
LEMMA SentMembers ==
    ASSUME FlowTypeOK
    PROVE  /\ \A i \in DOMAIN inbox : inbox[i].docs \in Seq(Ids)
           /\ \A d : d \in Sent <=> \E i \in DOMAIN inbox : \E j \in DOMAIN inbox[i].docs : inbox[i].docs[j] = d
<1>1. inbox \in Seq([docs : Seq(Ids), last : BOOLEAN]) /\ DOMAIN inbox = 1 .. Len(inbox)
  BY DEF FlowTypeOK
<1>2. \A i \in DOMAIN inbox : inbox[i] \in [docs : Seq(Ids), last : BOOLEAN]
  BY <1>1, ElementOfSequence
<1>3. \A i \in DOMAIN inbox : inbox[i].docs \in Seq(Ids)
  BY <1>2
<1>4. \A d : d \in Sent <=> \E i \in DOMAIN inbox : \E j \in DOMAIN inbox[i].docs : inbox[i].docs[j] = d
  BY DEF Sent, Range
<1> QED
  BY <1>3, <1>4

LEMMA SentMembersLater ==
    \A d : d \in Sent' <=> \E i \in DOMAIN inbox' : \E j \in DOMAIN inbox'[i].docs : inbox'[i].docs[j] = d
  BY DEF Sent, Range

\* The records of the store become a message.
LEMMA ExternalizeKeeps ==
    ASSUME FlowTypeOK, RecordsExist, InOnePlace, NoneDropped, NEW last \in BOOLEAN, to_externalizable(last),
           AtHand' = AtHand, results' = results, origin' = origin
    PROVE  /\ RecordsExist' /\ InOnePlace' /\ NoneDropped' /\ Created' = Created /\ Pending' \subseteq Pending
           /\ FlowVariablesTyped' /\ docs' = <<>> /\ inbox' # <<>>
           /\ Len(inbox') = Len(inbox) + 1 /\ DOMAIN inbox = 1 .. Len(inbox) /\ DOMAIN inbox' = 1 .. Len(inbox) + 1
           /\ Len(inbox) \in Nat /\ inbox'[Len(inbox')].last = last /\ \A i \in DOMAIN inbox : inbox'[i] = inbox[i]
<1>1. FlowVariablesTyped
  BY TypedParts
<1>2. /\ out_of_memory' \in [Stores -> BOOLEAN] /\ warned' \in 0 .. MaxWarnings /\ docs' = <<>> /\ docs' \in Seq(Ids)
      /\ warned' = 0 => warned = 0
      /\ \A s \in Stores : out_of_memory'[s] => out_of_memory[s]
  BY <1>1, ExternalizeTyped
<1>3. PICK m \in [docs : Seq(Ids), last : BOOLEAN] :
          /\ inbox' = Append(inbox, m) /\ m.last = last
          /\ m.docs = docs \/ (m.docs = <<>> /\ warned' # 0)
  <2>1. \E m \in [docs : Seq(Ids), last : BOOLEAN] :
          /\ inbox' = Append(inbox, m) /\ m.last = last
          /\ m.docs = docs \/ (m.docs = <<>> /\ warned' # 0)
    BY <1>1, ExternalizeTyped
  <2> QED
    BY <2>1
<1>4. /\ inbox' \in Seq([docs : Seq(Ids), last : BOOLEAN]) /\ Len(inbox) \in Nat /\ Len(inbox') = Len(inbox) + 1
      /\ DOMAIN inbox = 1 .. Len(inbox) /\ DOMAIN inbox' = 1 .. Len(inbox) + 1
      /\ \A i \in DOMAIN inbox : inbox'[i] = inbox[i]
      /\ inbox'[Len(inbox) + 1] = m
  BY <1>1, <1>3, InboxAppended
<1>5. FlowVariablesTyped'
  BY <1>1, <1>2, <1>4 DEF FlowVariablesTyped
<1>6. /\ Range(m.docs) \subseteq Range(docs) /\ IsInjective(m.docs)
      /\ warned' = 0 => Range(m.docs) = Range(docs)
  BY <1>3, RangeOfEmpty DEF InOnePlace
<1>7. Sent' = Sent \cup Range(m.docs)
  <2>1. \A i \in DOMAIN inbox' : i \in DOMAIN inbox \/ i = Len(inbox) + 1
    BY <1>4
  <2>2. \A i \in DOMAIN inbox : i \in DOMAIN inbox'
    BY <1>4
  <2>3. Len(inbox) + 1 \in DOMAIN inbox'
    BY <1>4
  <2>4. \A d : d \in Sent' <=> (\E i \in DOMAIN inbox' : d \in Range(inbox'[i].docs))
    BY DEF Sent
  <2>5. \A d : d \in Sent <=> (\E i \in DOMAIN inbox : d \in Range(inbox[i].docs))
    BY DEF Sent
  <2>6. \A d \in Sent : d \in Sent'
    BY <1>4, <2>2, <2>4, <2>5
  <2>7. \A d \in Range(m.docs) : d \in Sent'
    BY <1>4, <2>3, <2>4
  <2>8. \A d \in Sent' : d \in Sent \/ d \in Range(m.docs)
    BY <1>4, <2>1, <2>4, <2>5
  <2> QED
    BY <2>6, <2>7, <2>8
<1>8. Range(docs') = {} /\ IsInjective(docs') /\ Range(results') = Range(results) /\ IsInjective(results')
      /\ Created' = Created
  BY <1>2, RangeOfEmpty DEF InOnePlace, Created
<1>9. SentOnce'
  <2>1. SUFFICES ASSUME NEW i \in DOMAIN inbox', NEW k \in DOMAIN inbox', NEW j \in DOMAIN inbox'[i].docs,
                        NEW l \in DOMAIN inbox'[k].docs, inbox'[i].docs[j] = inbox'[k].docs[l]
                 PROVE  i = k /\ j = l
    BY DEF SentOnce
  <2>2. \A a \in DOMAIN inbox : \A b \in DOMAIN inbox[a].docs : inbox[a].docs[b] \notin Range(m.docs)
    <3>1. \A a \in DOMAIN inbox : \A b \in DOMAIN inbox[a].docs : inbox[a].docs[b] \in Sent
      BY SentMembers
    <3> QED
      BY <1>6, <3>1 DEF InOnePlace
  <2>3. \A b \in DOMAIN m.docs : m.docs[b] \in Range(m.docs)
    BY DEF Range
  <2>4. CASE i \in DOMAIN inbox /\ k \in DOMAIN inbox
    BY <1>4, <2>1, <2>4 DEF InOnePlace, SentOnce
  <2>5. CASE i \in DOMAIN inbox /\ k = Len(inbox) + 1
    BY <1>4, <2>1, <2>2, <2>3, <2>5
  <2>6. CASE i = Len(inbox) + 1 /\ k \in DOMAIN inbox
    BY <1>4, <2>1, <2>2, <2>3, <2>6
  <2>7. CASE i = Len(inbox) + 1 /\ k = Len(inbox) + 1
    BY <1>4, <1>6, <2>1, <2>7 DEF IsInjective
  <2> QED
    BY <1>4, <2>4, <2>5, <2>6, <2>7
<1>10. RecordsExist'
  BY <1>6, <1>7, <1>8 DEF RecordsExist
<1>11. InOnePlace'
  BY <1>6, <1>7, <1>8, <1>9 DEF InOnePlace
<1>12. Pending' \subseteq Pending /\ (warned' = 0 => Pending' = Pending)
  BY <1>6, <1>7, <1>8 DEF Pending
<1>13. NoneDropped'
  BY <1>2, <1>8, <1>12 DEF NoneDropped
<1>14. inbox' # <<>>
  BY <1>4
<1>15. inbox'[Len(inbox')].last = last
  BY <1>3, <1>4
<1> QED
  BY <1>2, <1>4, <1>5, <1>8, <1>10, <1>11, <1>12, <1>13, <1>14, <1>15

\* Fewer records on their way mean no fewer that have arrived.
LEMMA LinesAfterHandOver ==
    ASSUME FlowTypeOK, LinesAreCounted, Writers' = Writers, Created' = Created, Pending' \subseteq Pending,
           UNCHANGED <<position, origin, opened, abandoned>>
    PROVE  LinesAreCounted'
<1>1. Created \ Pending \subseteq Created' \ Pending' /\ IsFiniteSet(Created' \ Pending')
  <2>1. Created' \ Pending' \in SUBSET Created
    OBVIOUS
  <2> QED
    BY <2>1, Finite, FS_Subset
<1>2. /\ Cardinality(Created' \ Pending') \in Nat /\ Cardinality(Created \ Pending) \in Nat
      /\ Cardinality(Created \ Pending) <= Cardinality(Created' \ Pending')
  BY <1>1, ArrivedGrow, Finite
<1>3. position["orchestrator"] \in Nat
  BY DEF FlowTypeOK, Stores
<1>4. position["orchestrator"] <= Cardinality(Created \ Pending) + 1
         => position["orchestrator"] <= Cardinality(Created' \ Pending') + 1
  BY <1>2, <1>3
<1>5. Cardinality(Writers') = Cardinality(Writers)
  OBVIOUS
<1> QED
  BY <1>4, <1>5 DEF LinesAreCounted

LEMMA MoveKeeps ==
    ASSUME FlowInv, MoveToNextTask
    PROVE  FlowInv'
<1>0. FlowTypeOK /\ ThreadsAreKnown /\ RecordsExist /\ InOnePlace /\ NoneDropped /\ StoppedInTurn
      /\ LastComesLast /\ LinesAreCounted
  BY DEF FlowInv
<1>1. /\ thread["main"].pc = "run" /\ step < MaxSteps - 1 /\ to_externalizable(FALSE) /\ step' = step + 1
      /\ UNCHANGED <<position, opened, results, complete, thread, stop, abandoned, failed, origin>>
  BY DEF MoveToNextTask, At
<1>2. resets' \in Nat /\ step' \in 0 .. MaxSteps
  BY <1>0, <1>1, FlowConstants DEF MoveToNextTask, FlowTypeOK
<1>3. AtHand' = AtHand /\ Writers' = Writers /\ ThreadsAreKnown'
  BY <1>0, <1>1 DEF AtHand, Writers, ThreadsAreKnown, At, Created
<1>4. /\ RecordsExist' /\ InOnePlace' /\ NoneDropped' /\ Created' = Created /\ Pending' \subseteq Pending
      /\ FlowVariablesTyped' /\ docs' = <<>> /\ inbox' # <<>>
      /\ Len(inbox') = Len(inbox) + 1 /\ DOMAIN inbox = 1 .. Len(inbox) /\ DOMAIN inbox' = 1 .. Len(inbox) + 1
      /\ Len(inbox) \in Nat /\ inbox'[Len(inbox')].last = FALSE /\ \A i \in DOMAIN inbox : inbox'[i] = inbox[i]
  BY <1>0, <1>1, <1>3, ExternalizeKeeps
<1>5. FlowTypeOK'
  BY <1>0, <1>1, <1>2, <1>4, TypedParts, TypedLater
<1>6. ~ HandedOver /\ ~ HandedOver' /\ ~ complete
  BY <1>0, <1>1 DEF HandedOver, LastComesLast
<1>7. StoppedInTurn'
  BY <1>0, <1>1, <1>6 DEF StoppedInTurn, At
<1>8. LastComesLast'
  <2>1. \A i \in DOMAIN inbox' : ~ inbox'[i].last
    BY <1>0, <1>4, <1>6 DEF LastComesLast
  <2>2. (opened = ~ At("main", "done"))'
    BY <1>0, <1>1 DEF LastComesLast, At
  <2> QED
    BY <1>0, <1>1, <1>6, <2>1, <2>2 DEF LastComesLast
<1>9. LinesAreCounted'
  BY <1>0, <1>1, <1>3, <1>4, LinesAfterHandOver
<1> QED
  BY <1>3, <1>4, <1>5, <1>7, <1>8, <1>9 DEF FlowInv

LEMMA HandOverKeeps ==
    ASSUME FlowInv, HandOver
    PROVE  FlowInv'
<1>0. FlowTypeOK /\ ThreadsAreKnown /\ RecordsExist /\ InOnePlace /\ NoneDropped /\ StoppedInTurn
      /\ LastComesLast /\ LinesAreCounted
  BY DEF FlowInv
<1>1. /\ thread["main"].pc = "hand" /\ to_externalizable(TRUE) /\ Go("main", "close")
      /\ UNCHANGED <<position, opened, results, complete, stop, abandoned, step, resets, failed, origin>>
  BY DEF HandOver, At
<1>2. "main" \in Threads /\ "main" \notin Devices
  BY FlowConstants DEF Threads
<1>3. Moves("main") /\ thread'["main"].pc = "close"
  BY <1>0, <1>1, <1>2, GoMoves
<1>4. ThreadsAreKnown' /\ AtHand' = AtHand /\ Writers' = Writers /\ \A d \in Devices : thread'[d] = thread[d]
  BY <1>0, <1>1, <1>3, MainMoves DEF Busy
<1>5. /\ RecordsExist' /\ InOnePlace' /\ NoneDropped' /\ Created' = Created /\ Pending' \subseteq Pending
      /\ FlowVariablesTyped' /\ docs' = <<>> /\ inbox' # <<>>
      /\ Len(inbox') = Len(inbox) + 1 /\ DOMAIN inbox = 1 .. Len(inbox) /\ DOMAIN inbox' = 1 .. Len(inbox) + 1
      /\ Len(inbox) \in Nat /\ inbox'[Len(inbox')].last = TRUE /\ \A i \in DOMAIN inbox : inbox'[i] = inbox[i]
  BY <1>0, <1>1, <1>4, ExternalizeKeeps
<1>6. FlowTypeOK'
  BY <1>0, <1>1, <1>3, <1>5, TypedParts, TypedLater DEF Moves
<1>7. ~ HandedOver /\ HandedOver' /\ ~ complete
  BY <1>0, <1>1, <1>3 DEF HandedOver, LastComesLast
<1>8. StoppedInTurn'
  <2>1. \A d \in Devices : Over(d)'
    BY <1>0, <1>1, <1>4 DEF StoppedInTurn, Over, At
  <2>2. Range(docs') = {}
    BY <1>5, RangeOfEmpty
  <2> QED
    BY <1>3, <2>1, <2>2 DEF StoppedInTurn, At
<1>9. LastComesLast'
  <2>1. \A i \in DOMAIN inbox' : inbox'[i].last => i = Len(inbox')
    <3>1. \A i \in DOMAIN inbox : ~ inbox[i].last
      BY <1>0, <1>7 DEF LastComesLast
    <3> QED
      BY <1>5, <3>1
  <2>2. (opened = ~ At("main", "done"))'
    BY <1>0, <1>1, <1>3 DEF LastComesLast, At
  <2> QED
    BY <1>0, <1>1, <1>5, <1>7, <2>1, <2>2 DEF LastComesLast
<1>10. LinesAreCounted'
  BY <1>0, <1>1, <1>4, <1>5, LinesAfterHandOver
<1> QED
  BY <1>4, <1>5, <1>6, <1>8, <1>9, <1>10 DEF FlowInv

-----------------------------------------------------------------------------
\* The orchestrator takes the first record of the first message.
LEMMA TailOfSequence ==
    ASSUME NEW S, NEW s \in Seq(S), s # <<>>
    PROVE  /\ Len(s) \in Nat /\ Len(s) > 0 /\ DOMAIN s = 1 .. Len(s) /\ Head(s) = s[1]
           /\ DOMAIN Tail(s) = 1 .. Len(s) - 1 /\ \A i \in 1 .. Len(s) - 1 : Tail(s)[i] = s[i + 1]
  OBVIOUS

LEMMA EmptyByLength ==
    ASSUME NEW S, NEW s \in Seq(S), Len(s) = 0
    PROVE  s = <<>>
  OBVIOUS

LEMMA BulkKeeps ==
    ASSUME FlowInv, bulk_add
    PROVE  FlowInv'
<1> DEFINE s == inbox[1].docs
           head == Head(s)
<1>0. FlowTypeOK /\ ThreadsAreKnown /\ RecordsExist /\ InOnePlace /\ NoneDropped /\ StoppedInTurn
      /\ LastComesLast /\ LinesAreCounted
  BY DEF FlowInv
<1>1. /\ inbox # <<>> /\ s \in Seq(Ids) /\ s # <<>>
      /\ head \in Ids /\ _add("orchestrator", results, head) /\ WriteLine("orchestrator")
      /\ inbox' \in Seq([docs : Seq(Ids), last : BOOLEAN]) /\ Len(inbox') = Len(inbox)
      /\ DOMAIN inbox' = DOMAIN inbox
      /\ inbox'[1].docs = Tail(s) /\ inbox'[1].last = inbox[1].last
      /\ \A i \in DOMAIN inbox : i # 1 => inbox'[i] = inbox[i]
  BY <1>0, BulkTakes
<1>2. UNCHANGED <<docs, opened, complete, thread, stop, abandoned, step, resets, failed, origin>>
  BY DEF bulk_add
<1>3. FlowVariablesTyped /\ results \in Seq(Ids) /\ position \in [Stores -> Nat]
  BY <1>0, TypedParts DEF FlowVariablesTyped
<1>4. Added("orchestrator", results, results', head)
  BY <1>1, <1>3, OrchestratorAdds
<1>5. /\ position' \in [Stores -> Nat] /\ position'["coordinator"] = position["coordinator"]
      /\ Filesystem => position'["orchestrator"] = position["orchestrator"] + 1
  BY <1>1, <1>3, WriteTyped DEF Stores
<1>6. FlowTypeOK'
  BY <1>0, <1>1, <1>2, <1>3, <1>4, <1>5, TypedParts, TypedLater DEF FlowVariablesTyped, Added
<1>7. AtHand' = AtHand /\ Writers' = Writers /\ ThreadsAreKnown' /\ Created' = Created
  BY <1>0, <1>2 DEF AtHand, Writers, ThreadsAreKnown, At, Created
<1>8. /\ Len(s) \in Nat /\ Len(s) > 0 /\ DOMAIN s = 1 .. Len(s) /\ head = s[1]
      /\ DOMAIN Tail(s) = 1 .. Len(s) - 1 /\ \A i \in 1 .. Len(s) - 1 : Tail(s)[i] = s[i + 1]
  BY <1>1, TailOfSequence
<1>9. 1 \in DOMAIN inbox
  BY <1>0, <1>1, HeadOfInbox
\* Where a record of the inbox was before
<1>10. \A i \in DOMAIN inbox : \A j \in DOMAIN inbox'[i].docs :
          \E k \in DOMAIN inbox[i].docs : inbox[i].docs[k] = inbox'[i].docs[j] /\ (i = 1 => k = j + 1) /\ (i # 1 => k = j)
  <2>1. SUFFICES ASSUME NEW i \in DOMAIN inbox, NEW j \in DOMAIN inbox'[i].docs
                 PROVE  \E k \in DOMAIN inbox[i].docs :
                           inbox[i].docs[k] = inbox'[i].docs[j] /\ (i = 1 => k = j + 1) /\ (i # 1 => k = j)
    OBVIOUS
  <2>2. CASE i = 1
    <3>1. j \in 1 .. Len(s) - 1 /\ inbox'[i].docs[j] = s[j + 1]
      BY <1>1, <1>8, <2>1, <2>2
    <3>2. j + 1 \in DOMAIN s
      BY <1>8, <3>1
    <3> QED
      BY <2>2, <3>1, <3>2
  <2>3. CASE i # 1
    BY <1>1, <2>1, <2>3
  <2> QED
    BY <2>2, <2>3
<1>11. head \in Sent
  BY <1>0, <1>8, <1>9, SentMembers
<1>12. Sent' \subseteq Sent
  <2>1. SUFFICES ASSUME NEW d \in Sent' PROVE d \in Sent
    OBVIOUS
  <2>2. PICK i \in DOMAIN inbox : \E j \in DOMAIN inbox'[i].docs : inbox'[i].docs[j] = d
    BY <1>1, <2>1, SentMembersLater
  <2>3. PICK j \in DOMAIN inbox'[i].docs : inbox'[i].docs[j] = d
    BY <2>2
  <2>4. \E k \in DOMAIN inbox[i].docs : inbox[i].docs[k] = d
    BY <1>10, <2>3
  <2> QED
    BY <1>0, <2>4, SentMembers
<1>13. head \notin Sent'
  <2>1. SUFFICES ASSUME head \in Sent' PROVE FALSE
    OBVIOUS
  <2>2. PICK i \in DOMAIN inbox : \E j \in DOMAIN inbox'[i].docs : inbox'[i].docs[j] = head
    BY <1>1, <2>1, SentMembersLater
  <2>3. PICK j \in DOMAIN inbox'[i].docs : inbox'[i].docs[j] = head
    BY <2>2
  <2>4. PICK k \in DOMAIN inbox[i].docs : inbox[i].docs[k] = head /\ (i = 1 => k = j + 1)
    BY <1>10, <2>3
  <2>5. 1 \in DOMAIN inbox[1].docs /\ inbox[1].docs[1] = head
    BY <1>8
  <2>6. i = 1 /\ k = 1
    BY <1>0, <1>9, <2>4, <2>5 DEF InOnePlace, SentOnce
  <2>7. j \in 1 .. Len(s) - 1
    BY <1>1, <1>8, <2>3, <2>6
  <2> QED
    BY <1>8, <2>4, <2>6, <2>7
<1>14. Sent \subseteq Sent' \cup {head}
  <2>1. SUFFICES ASSUME NEW d \in Sent, d # head PROVE d \in Sent'
    OBVIOUS
  <2>2. PICK i \in DOMAIN inbox : \E j \in DOMAIN inbox[i].docs : inbox[i].docs[j] = d
    BY <1>0, <2>1, SentMembers
  <2>3. PICK j \in DOMAIN inbox[i].docs : inbox[i].docs[j] = d
    BY <2>2
  <2>4. \E k \in DOMAIN inbox'[i].docs : inbox'[i].docs[k] = d
    <3>1. CASE i # 1
      BY <1>1, <2>3, <3>1
    <3>2. CASE i = 1
      <4>1. j \in 1 .. Len(s) /\ j # 1
        BY <1>8, <2>1, <2>3, <3>2
      <4>2. j - 1 \in 1 .. Len(s) - 1 /\ (j - 1) + 1 = j
        BY <1>8, <4>1
      <4>3. Tail(s)[j - 1] = d
        BY <1>8, <2>3, <3>2, <4>2
      <4> QED
        BY <1>1, <1>8, <3>2, <4>2, <4>3
    <3> QED
      BY <3>1, <3>2
  <2> QED
    BY <1>1, <2>4, SentMembersLater
<1>15. SentOnce'
  <2>1. SUFFICES ASSUME NEW i \in DOMAIN inbox, NEW k \in DOMAIN inbox, NEW j \in DOMAIN inbox'[i].docs,
                        NEW l \in DOMAIN inbox'[k].docs, inbox'[i].docs[j] = inbox'[k].docs[l]
                 PROVE  i = k /\ j = l
    BY <1>1 DEF SentOnce
  <2>2. PICK a \in DOMAIN inbox[i].docs :
           inbox[i].docs[a] = inbox'[i].docs[j] /\ (i = 1 => a = j + 1) /\ (i # 1 => a = j)
    BY <1>10, <2>1
  <2>3. PICK b \in DOMAIN inbox[k].docs :
           inbox[k].docs[b] = inbox'[k].docs[l] /\ (k = 1 => b = l + 1) /\ (k # 1 => b = l)
    BY <1>10, <2>1
  <2>4. i = k /\ a = b
    BY <1>0, <2>1, <2>2, <2>3 DEF InOnePlace, SentOnce
  <2>5. CASE i # 1
    BY <2>2, <2>3, <2>4, <2>5
  <2>6. CASE i = 1
    <3>1. j \in 1 .. Len(s) - 1 /\ l \in 1 .. Len(s) - 1
      BY <1>1, <1>8, <2>1, <2>4, <2>6
    <3> QED
      BY <2>2, <2>3, <2>4, <2>6, <3>1
  <2> QED
    BY <2>5, <2>6
<1>16. head \notin AtHand /\ head \notin Range(docs) /\ head \notin Range(results) /\ head \in Created
  BY <1>0, <1>11 DEF InOnePlace, RecordsExist
<1> HIDE DEF head, s
<1>17. /\ Range(results') \subseteq Range(results) \cup {head} /\ IsInjective(results')
       /\ warned' = 0 => Range(results') = Range(results) \cup {head}
  <2>1. CASE results' = Append(results, head)
    BY <1>0, <1>1, <1>3, <1>16, <2>1, RangeOfAppend, InjectiveAppend DEF InOnePlace
  <2>2. CASE results' = results /\ (out_of_memory["orchestrator"] \/ warned' # 0)
    <3>1. warned' # 0
      <4>1. "orchestrator" \in Stores
        BY DEF Stores
      <4>2. warned = 0 => ~ out_of_memory["orchestrator"]
        BY <1>0, <4>1 DEF NoneDropped
      <4> QED
        BY <1>4, <2>2, <4>2 DEF Added
    <3> QED
      BY <1>0, <2>2, <3>1 DEF InOnePlace
  <2> QED
    BY <1>4, <2>1, <2>2 DEF Added
<1>18. Range(docs') = Range(docs) /\ IsInjective(docs')
  BY <1>0, <1>2 DEF InOnePlace
<1>19. RecordsExist'
  BY <1>0, <1>2, <1>7, <1>12, <1>16, <1>17, <1>18 DEF RecordsExist
<1>20. InOnePlace'
  BY <1>0, <1>7, <1>12, <1>13, <1>15, <1>16, <1>17, <1>18 DEF InOnePlace
<1>21. Pending' \subseteq Pending /\ Pending \subseteq Pending' \cup {head} /\ head \in Pending /\ head \notin Pending'
  BY <1>7, <1>11, <1>12, <1>13, <1>14, <1>16, <1>18 DEF Pending
<1>22. NoneDropped'
  <2>1. warned' = 0 => warned = 0 /\ out_of_memory' = out_of_memory
    BY <1>4 DEF Added
  <2> QED
    BY <1>0, <1>7, <1>17, <1>21, <2>1 DEF NoneDropped
<1>23. StoppedInTurn'
  BY <1>0, <1>2 DEF StoppedInTurn, At, Over, HandedOver
<1>24. LastComesLast'
  <2>1. \A i \in DOMAIN inbox : inbox'[i].last = inbox[i].last
    BY <1>1
  <2>2. HandedOver' <=> HandedOver
    BY <1>2 DEF HandedOver
  <2>3. (opened = ~ At("main", "done"))'
    BY <1>0, <1>2 DEF LastComesLast, At
  <2>4. ~ complete
    BY <1>0, <1>1 DEF LastComesLast
  <2>5. HandedOver => inbox' # <<>> /\ inbox'[Len(inbox')].last
    <3>1. Len(inbox) \in DOMAIN inbox /\ inbox' # <<>>
      BY <1>0, <1>1, HeadOfInbox
    <3> QED
      BY <1>0, <1>1, <2>1, <2>4, <3>1 DEF LastComesLast
  <2> QED
    BY <1>0, <1>1, <1>2, <2>1, <2>2, <2>3, <2>4, <2>5 DEF LastComesLast
<1>25. LinesAreCounted'
  <2>1. Created' \ Pending' = (Created \ Pending) \cup {head} /\ head \notin Created \ Pending
    BY <1>7, <1>16, <1>21
  <2>2. Cardinality(Created' \ Pending') = Cardinality(Created \ Pending) + 1 /\ Cardinality(Created \ Pending) \in Nat
    BY <1>0, <2>1, Finite, FS_AddElement
  <2>3. position["orchestrator"] \in Nat
    BY <1>3 DEF Stores
  <2>4. SUFFICES ASSUME Filesystem PROVE LinesAreCounted'
    BY DEF LinesAreCounted
  <2>5. position["orchestrator"] <= Cardinality(Created \ Pending) + 1
    BY <1>0, <2>4 DEF LinesAreCounted
  <2>6. position'["orchestrator"] <= Cardinality(Created' \ Pending') + 1
    BY <1>5, <2>2, <2>3, <2>4, <2>5
  <2>7. Cardinality(Writers') = Cardinality(Writers)
    BY <1>7
  <2> QED
    BY <1>0, <1>2, <1>5, <2>4, <2>6, <2>7 DEF LinesAreCounted
<1> QED
  BY <1>6, <1>7, <1>19, <1>20, <1>22, <1>23, <1>24, <1>25 DEF FlowInv

\* A message without further records has been dealt with.
LEMMA MessageDoneKeeps ==
    ASSUME FlowInv, MessageDone
    PROVE  FlowInv'
<1>0. FlowTypeOK /\ ThreadsAreKnown /\ RecordsExist /\ InOnePlace /\ NoneDropped /\ StoppedInTurn
      /\ LastComesLast /\ LinesAreCounted
  BY DEF FlowInv
<1>1. /\ inbox # <<>> /\ Head(inbox).docs = <<>> /\ inbox' = Tail(inbox) /\ complete' = Head(inbox).last
      /\ UNCHANGED <<docs, out_of_memory, warned, position, opened, results, thread, stop,
                     abandoned, step, resets, failed, origin>>
  BY DEF MessageDone, Arrived
<1>2. inbox \in Seq([docs : Seq(Ids), last : BOOLEAN])
  BY <1>0 DEF FlowTypeOK
<1>3. /\ Len(inbox) \in Nat /\ Len(inbox) > 0 /\ DOMAIN inbox = 1 .. Len(inbox) /\ Head(inbox) = inbox[1]
      /\ DOMAIN inbox' = 1 .. Len(inbox) - 1 /\ \A i \in 1 .. Len(inbox) - 1 : inbox'[i] = inbox[i + 1]
  BY <1>1, <1>2, TailOfSequence
<1>4. inbox' \in Seq([docs : Seq(Ids), last : BOOLEAN]) /\ Len(inbox') = Len(inbox) - 1
  BY <1>1, <1>2
<1>5. inbox[1].docs = <<>> /\ inbox[1].last \in BOOLEAN /\ complete' = inbox[1].last
  BY <1>0, <1>1, <1>3, HeadOfInbox
<1>6. FlowTypeOK'
  BY <1>0, <1>1, <1>4, <1>5, TypedParts, TypedLater DEF FlowVariablesTyped
<1>7. AtHand' = AtHand /\ Writers' = Writers /\ ThreadsAreKnown' /\ Created' = Created
  BY <1>0, <1>1 DEF AtHand, Writers, ThreadsAreKnown, At, Created
<1>8. Sent' = Sent
  <2>1. ASSUME NEW d \in Sent PROVE d \in Sent'
    <3>1. PICK i \in DOMAIN inbox : \E j \in DOMAIN inbox[i].docs : inbox[i].docs[j] = d
      BY <1>0, <2>1, SentMembers
    <3>2. i # 1
      BY <1>5, <3>1
    <3>3. i - 1 \in DOMAIN inbox' /\ inbox'[i - 1] = inbox[i]
      BY <1>3, <3>2
    <3> QED
      BY <3>1, <3>3, SentMembersLater
  <2>2. ASSUME NEW d \in Sent' PROVE d \in Sent
    <3>1. PICK i \in DOMAIN inbox' : \E j \in DOMAIN inbox'[i].docs : inbox'[i].docs[j] = d
      BY <2>2, SentMembersLater
    <3>2. i + 1 \in DOMAIN inbox /\ inbox'[i] = inbox[i + 1]
      BY <1>3
    <3> QED
      BY <1>0, <3>1, <3>2, SentMembers
  <2> QED
    BY <2>1, <2>2
<1>9. SentOnce'
  <2>1. SUFFICES ASSUME NEW i \in DOMAIN inbox', NEW k \in DOMAIN inbox', NEW j \in DOMAIN inbox'[i].docs,
                        NEW l \in DOMAIN inbox'[k].docs, inbox'[i].docs[j] = inbox'[k].docs[l]
                 PROVE  i = k /\ j = l
    BY DEF SentOnce
  <2>2. i + 1 \in DOMAIN inbox /\ inbox'[i] = inbox[i + 1] /\ k + 1 \in DOMAIN inbox /\ inbox'[k] = inbox[k + 1]
    BY <1>3
  <2>3. i + 1 = k + 1 /\ j = l
    BY <1>0, <2>1, <2>2 DEF InOnePlace, SentOnce
  <2> QED
    BY <1>3, <2>3
<1>10. RecordsExist'
  BY <1>0, <1>1, <1>7, <1>8 DEF RecordsExist
<1>11. InOnePlace'
  BY <1>0, <1>1, <1>7, <1>8, <1>9 DEF InOnePlace
<1>12. Pending' = Pending
  BY <1>1, <1>7, <1>8 DEF Pending
<1>13. NoneDropped'
  BY <1>0, <1>1, <1>7, <1>12 DEF NoneDropped
<1>14. StoppedInTurn'
  BY <1>0, <1>1 DEF StoppedInTurn, At, Over, HandedOver
<1>15. LastComesLast'
  <2>1. HandedOver' <=> HandedOver
    BY <1>1 DEF HandedOver
  <2>2. (opened = ~ At("main", "done"))'
    BY <1>0, <1>1 DEF LastComesLast, At
  <2>3. \A i \in DOMAIN inbox : inbox[i].last => i = Len(inbox) /\ HandedOver
    BY <1>0 DEF LastComesLast
  <2>4. \A i \in DOMAIN inbox' : inbox'[i].last => i = Len(inbox') /\ HandedOver'
    <3>1. SUFFICES ASSUME NEW i \in DOMAIN inbox', inbox'[i].last PROVE i = Len(inbox') /\ HandedOver'
      OBVIOUS
    <3>2. i + 1 \in DOMAIN inbox /\ inbox[i + 1].last /\ i \in Int
      BY <1>3, <3>1
    <3> QED
      BY <1>3, <1>4, <2>1, <2>3, <3>2
  <2>5. complete' => inbox' = <<>> /\ HandedOver'
    <3>1. SUFFICES ASSUME complete' PROVE inbox' = <<>> /\ HandedOver'
      OBVIOUS
    <3>2. 1 \in DOMAIN inbox /\ inbox[1].last
      BY <1>3, <1>5, <3>1
    <3>3. 1 = Len(inbox) /\ HandedOver
      BY <2>3, <3>2
    <3>4. Len(inbox') = 0
      <4>1. Len(inbox') = 1 - 1
        BY <1>4, <3>3
      <4> QED
        BY <4>1
    <3> QED
      BY <1>4, <2>1, <3>3, <3>4, EmptyByLength
  <2>6. HandedOver' => complete' \/ (inbox' # <<>> /\ inbox'[Len(inbox')].last)
    <3>1. SUFFICES ASSUME HandedOver, ~ complete' PROVE inbox' # <<>> /\ inbox'[Len(inbox')].last
      BY <2>1
    <3>2. ~ inbox[1].last
      BY <1>5, <3>1
    <3>3. inbox[Len(inbox)].last
      BY <1>0, <1>1, <3>1 DEF LastComesLast
    <3>4. Len(inbox) # 1
      BY <3>2, <3>3
    <3>5. Len(inbox) - 1 \in 1 .. Len(inbox) - 1 /\ (Len(inbox) - 1) + 1 = Len(inbox)
      BY <1>3, <3>4
    <3>6. inbox'[Len(inbox')] = inbox[Len(inbox)]
      BY <1>3, <1>4, <3>5
    <3> QED
      BY <1>3, <1>4, <3>3, <3>5, <3>6
  <2> QED
    BY <1>0, <1>1, <2>2, <2>4, <2>5, <2>6 DEF LastComesLast
<1>16. LinesAreCounted'
  BY <1>0, <1>1, <1>7, <1>12, LinesStay
<1> QED
  BY <1>6, <1>7, <1>10, <1>11, <1>13, <1>14, <1>15, <1>16 DEF FlowInv

-----------------------------------------------------------------------------
LEMMA FlowNextKeeps == FlowInv /\ [FlowNext]_flowVars => FlowInv'
<1> SUFFICES ASSUME FlowInv, [FlowNext]_flowVars PROVE FlowInv'
  OBVIOUS
<1>0. FlowTypeOK /\ "main" \in Threads /\ Devices \subseteq Threads /\ "main" \notin Devices
  BY FlowConstants DEF FlowInv, Threads
<1>1. CASE \E d \in Devices : PollStep(d)
  <2>1. PICK d \in Devices : PollStep(d)
    BY <1>1
  <2>2. CASE _collect(d)
    <3>1. thread[d].pc = "ask" /\ d # "main" /\ d \in Threads
      BY <1>0, <2>2 DEF _collect, At
    <3> QED
      BY <1>0, <2>2, <3>1, CollectMoves, CreateKeeps, RestKeeps
  <2>3. CASE AddInMemory(d)
    BY <1>0, <2>3, AddKeeps
  <2>4. CASE AddToFile(d)
    BY <1>0, <2>4, LineKeeps
  <2>5. CASE _poll_loop(d)
    BY <1>0, <2>5, PollMoves, RestKeeps
  <2> QED
    BY <2>1, <2>2, <2>3, <2>4, <2>5 DEF PollStep
<1>2. CASE CoordinatorStep
  BY <1>0, <1>2, StartKeeps, MoveKeeps, LastStepKeeps, StopKeeps, HandOverKeeps, CloseKeeps, AddKeeps, LineKeeps
     DEF CoordinatorStep
<1>3. CASE PostprocessSamples
  <2>1. thread["main"].pc = "run" /\ ~ Busy("main") /\ _put_metric("main")
    BY <1>3 DEF PostprocessSamples, At, Busy
  <2>2. Creates("main")
    BY <1>0, <2>1, PutMoves
  <2> QED
    BY <1>0, <1>3, <2>1, <2>2, CreateKeeps DEF PostprocessSamples
<1>4. CASE ResetRelativeTime
  BY <1>4, ResetKeeps
<1>5. CASE OrchestratorStep
  BY <1>5, BulkKeeps, MessageDoneKeeps DEF OrchestratorStep
<1>6. CASE UNCHANGED flowVars
  <2>1. UNCHANGED <<docs, out_of_memory, warned, position, opened, results, inbox, complete,
              thread, stop, abandoned, step, resets, failed, origin>>
    BY <1>6 DEF flowVars
  <2>2. FlowTypeOK'
    BY <1>0, <2>1 DEF FlowTypeOK
  <2>3. AtHand' = AtHand /\ Writers' = Writers /\ ThreadsAreKnown'
    BY <2>1 DEF FlowInv, AtHand, Writers, ThreadsAreKnown, At, Created
  <2>4. RecordsExist' /\ InOnePlace' /\ NoneDropped' /\ Pending' = Pending /\ Created' = Created
    BY <2>1, <2>3, RecordsStay DEF FlowInv
  <2>5. StoppedInTurn'
    BY <2>1 DEF FlowInv, StoppedInTurn, At, Over, HandedOver
  <2>6. LastComesLast'
    BY <2>1, LastStays DEF FlowInv
  <2>7. LinesAreCounted'
    BY <2>1, <2>3, <2>4, LinesStay DEF FlowInv
  <2> QED
    BY <2>2, <2>3, <2>4, <2>5, <2>6, <2>7 DEF FlowInv
<1> QED
  BY <1>1, <1>2, <1>3, <1>4, <1>5, <1>6 DEF FlowNext

\* The larger of the two positions
LEMMA LengthOfFile ==
    ASSUME position \in [Stores -> Nat], position["orchestrator"] <= position["coordinator"]
    PROVE  FileLength = position["coordinator"] - 1
<1>1. Range(position) = {position["coordinator"], position["orchestrator"]}
  BY DEF Range, Stores
<1>2. position["coordinator"] \in Nat /\ position["orchestrator"] \in Nat
  BY DEF Stores
<1>3. \A y \in Range(position) : position["coordinator"] >= y
  BY <1>1, <1>2
<1>4. \A x \in Range(position) : (\A y \in Range(position) : x >= y) => x = position["coordinator"]
  BY <1>1, <1>2
<1>5. Max(Range(position)) = position["coordinator"]
  BY <1>1, <1>3, <1>4 DEF Max
<1> QED
  BY <1>5 DEF FileLength

LEMMA FlowInvImplies == FlowInv => RecordsArrive
<1> SUFFICES ASSUME FlowInv PROVE RecordsArrive
  OBVIOUS
<1>0. FlowTypeOK /\ ThreadsAreKnown /\ RecordsExist /\ InOnePlace /\ NoneDropped /\ StoppedInTurn
      /\ LastComesLast /\ LinesAreCounted
  BY DEF FlowInv
<1>1. CountedAtMostOnce
  BY <1>0 DEF CountedAtMostOnce, InOnePlace
<1>2. NoSilentLoss
  <2>1. SUFFICES ASSUME complete, warned = 0, NEW d \in Created PROVE d \in Range(results) \/ origin[d] \in abandoned
    BY DEF NoSilentLoss
  <2>2. inbox = <<>> /\ HandedOver
    BY <1>0, <2>1 DEF LastComesLast
  <2>3. Sent = {}
    BY <2>2 DEF Sent
  <2>4. d \in AtHand \/ d \in Range(docs) \/ d \in Range(results)
    BY <1>0, <2>1, <2>3 DEF NoneDropped, Pending
  <2>5. ASSUME d \in AtHand PROVE origin[d] \in abandoned
    <3>1. PICK t \in Threads : thread[t].pc = "add" /\ thread[t].doc = d
      BY <2>5 DEF AtHand, At
    <3>2. origin[d] = t
      BY <1>0, <3>1, OwnRecord
    <3>3. t \in Devices
      BY <2>2, <3>1 DEF HandedOver, Threads
    <3> QED
      BY <1>0, <2>2, <3>1, <3>2, <3>3 DEF StoppedInTurn, HandedOver, Over, At
  <2> QED
    BY <1>0, <2>2, <2>4, <2>5 DEF StoppedInTurn
<1>3. FailsOnlyAfterHandOver
  <2>1. SUFFICES ASSUME failed, ~ complete PROVE \E i \in DOMAIN inbox : inbox[i].last
    BY DEF FailsOnlyAfterHandOver
  <2>2. HandedOver
    BY <1>0, <2>1 DEF LastComesLast, At, HandedOver
  <2>3. inbox # <<>> /\ inbox[Len(inbox)].last
    BY <1>0, <2>1, <2>2 DEF LastComesLast
  <2>4. Len(inbox) \in DOMAIN inbox
    BY <1>0, <2>3, HeadOfInbox
  <2> QED
    BY <2>3, <2>4
<1>4. FileHasEachRecordOnce
  <2>1. SUFFICES ASSUME Filesystem, complete, abandoned = {} PROVE FileLength = Len(origin)
    BY DEF FileHasEachRecordOnce
  <2>2. /\ position \in [Stores -> Nat] /\ position["coordinator"] \in Nat /\ position["orchestrator"] \in Nat
        /\ Len(origin) \in Nat
    BY <1>0 DEF FlowTypeOK, Stores
  <2>3. position["coordinator"] = Len(origin) + 1
    <3>1. CASE ~ opened
      BY <1>0, <2>1, <3>1 DEF LinesAreCounted
    <3>2. CASE opened
      <4>1. thread["main"].pc = "close" /\ \A d \in Devices : thread[d].pc = "ended"
        BY <1>0, <2>1, <3>2 DEF LastComesLast, HandedOver, StoppedInTurn, Over, At
      <4>2. Writers = {}
        BY <4>1 DEF Writers, Threads
      <4>3. Cardinality(Writers) = 0
        BY <4>2, FS_EmptySet
      <4>4. position["coordinator"] + Cardinality(Writers) = Len(origin) + 1
        BY <1>0, <2>1, <3>2 DEF LinesAreCounted
      <4> QED
        BY <2>2, <4>3, <4>4
    <3> QED
      BY <3>1, <3>2
  <2>4. position["orchestrator"] <= Cardinality(Created \ Pending) + 1
    BY <1>0, <2>1 DEF LinesAreCounted
  <2>5. Cardinality(Created \ Pending) \in Nat /\ Cardinality(Created \ Pending) <= Len(origin)
    BY <1>0, Finite
  <2>6. position["orchestrator"] <= position["coordinator"]
    BY <2>2, <2>3, <2>4, <2>5
  <2>7. FileLength = position["coordinator"] - 1
    BY <2>2, <2>6, LengthOfFile
  <2> QED
    BY <2>2, <2>3, <2>7
<1> QED
  BY <1>0, <1>1, <1>2, <1>3, <1>4 DEF RecordsArrive

\* Every record arrives once, for any devices, any number of steps and any number of records:
\* none is counted twice or lost without a warning, and the two stores share one file without
\* a line too many.
THEOREM RecordsDoArrive == FlowSpec => []RecordsArrive
<1>1. FlowInit => FlowInv
  BY FlowInitOK
<1>2. FlowInv /\ [FlowNext]_flowVars => FlowInv'
  BY FlowNextKeeps
<1>3. FlowInv => RecordsArrive
  BY FlowInvImplies
<1> QED
  BY <1>1, <1>2, <1>3, PTL DEF FlowSpec
=============================================================================
