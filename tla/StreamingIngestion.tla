------------------------- MODULE StreamingIngestion -------------------------
(***************************************************************************)
(* Streaming ingestion: a producer process downloads a corpus and writes   *)
(* it chunk by chunk to files, which the load generating processes consume *)
(* (osbenchmark/workload/ingestion_manager.py, Slice in osbenchmark/       *)
(* workload/params.py, S3DataProducer in osbenchmark/cloud_provider/       *)
(* vendors/s3_data_producer.py).                                           *)
(*                                                                         *)
(* The processes share two counters and two condition variables.  The      *)
(* consumers hold the lock of load_empty while they claim a chunk; the     *)
(* producer changes wr_count and reads rd_index without any lock.          *)
(***************************************************************************)
EXTENDS Integers, FiniteSets

CONSTANTS
    Consumers,      \* processes with a Slice of the corpus
    NumChunks,      \* chunks with data; a file without any marks the end
    Plimsoll,       \* the backlog at which the producer stops
    Ballast,        \* the backlog at which it is told to go on
    PromptOpen      \* have all consumers opened their slice before the stream ends?

ASSUME StreamAssumption ==
    /\ IsFiniteSet(Consumers) /\ Consumers # {}
    /\ NumChunks \in Nat /\ Plimsoll \in Nat /\ Ballast \in Nat
    /\ Ballast <= Plimsoll     \* ballast = plimsoll/2
    /\ PromptOpen \in BOOLEAN

Nobody == "nobody"
ASSUME NobodyAssumption == Nobody \notin Consumers

VARIABLES
    \* IngestionManager
    rd_index, wr_count,
    starter,            \* who has set producer_started, or Nobody
    load_empty,         \* who holds the lock of load_empty, or Nobody
    empty_waiters,      \* consumers that wait for load_empty to be notified
    \* the producer
    producer, chunk_id,
    \* a consumer: where it is, and the chunk it has claimed
    consumer, rd_idx,
    \* the chunk files
    files

managerVars == <<rd_index, wr_count, starter, load_empty, empty_waiters>>
producerVars == <<producer, chunk_id>>
consumerVars == <<consumer, rd_idx>>
streamVars == <<managerVars, producerVars, consumerVars, files>>

\* "blocked" is inside load_full.wait()
ProducerStates == {"off", "write", "look", "notify", "publish", "backlog", "full", "blocked",
                   "end", "done"}
\* "open" is before the wait of open(); "waiting" is inside load_empty.wait()
ConsumerStates == {"new", "open", "waiting", "woken", "next", "check", "claim", "ballast", "reading",
                   "closing", "closed"}

\* Producer, consumers, conditions and the shared indices of IngestionManager keep their types.
StreamTypeOK ==
    /\ rd_index \in 0 .. NumChunks
    /\ wr_count \in 0 .. NumChunks + 1
    /\ starter \in Consumers \union {Nobody}
    /\ load_empty \in Consumers \union {Nobody}
    /\ empty_waiters = {c \in Consumers : consumer[c] = "waiting"}
    /\ producer \in ProducerStates
    /\ chunk_id \in 0 .. NumChunks
    /\ consumer \in [Consumers -> ConsumerStates]
    /\ rd_idx \in [Consumers -> 0 .. NumChunks]
    /\ files \subseteq 0 .. NumChunks

StreamInit ==
    /\ rd_index = 0 /\ wr_count = 0
    /\ starter = Nobody /\ load_empty = Nobody /\ empty_waiters = {}
    /\ producer = "off" /\ chunk_id = 0
    /\ consumer = [c \in Consumers |-> "new"]
    /\ rd_idx = [c \in Consumers |-> 0]
    /\ files = {}

-----------------------------------------------------------------------------
(* The producer: generate_chunked_data *)

ProducerGoes(from, to) == producer = from /\ producer' = to

\* _output_chunk, of data as long as there is any
WriteChunk ==
    /\ ProducerGoes("write", IF chunk_id < NumChunks THEN "look" ELSE "publish")
    /\ files' = files \union {chunk_id}
    /\ UNCHANGED <<managerVars, chunk_id, consumerVars>>

\* Are the consumers waiting for this very chunk?
LookForReaders ==
    /\ ProducerGoes("look", IF rd_index = chunk_id THEN "notify" ELSE "publish")
    /\ UNCHANGED <<managerVars, chunk_id, consumerVars, files>>

\* load_empty.notify_all(), under the lock
NotifyAll ==
    /\ load_empty = Nobody
    /\ empty_waiters' = {}
    /\ consumer' = [c \in Consumers |-> IF c \in empty_waiters THEN "woken" ELSE consumer[c]]
    /\ UNCHANGED <<rd_index, wr_count, starter, load_empty, rd_idx, files>>

NotifyReaders ==
    /\ ProducerGoes("notify", "publish")
    /\ NotifyAll
    /\ UNCHANGED chunk_id

\* chunk_id += 1, and wr_count with it; the marker is the last chunk.
Publish ==
    /\ wr_count' = chunk_id + 1
    /\ IF chunk_id < NumChunks
       THEN chunk_id' = chunk_id + 1 /\ ProducerGoes("publish", "backlog")
       ELSE UNCHANGED chunk_id /\ ProducerGoes("publish", "end")
    /\ UNCHANGED <<rd_index, starter, load_empty, empty_waiters, consumerVars, files>>

\* Mutant: one chunk too many.
CheckBacklogTooLate ==
    /\ ProducerGoes("backlog", IF chunk_id - rd_index > Plimsoll + 1 THEN "full" ELSE "write")
    /\ UNCHANGED <<managerVars, chunk_id, consumerVars, files>>

\* Is the backlog too large?
CheckBacklog ==
    /\ ProducerGoes("backlog", IF chunk_id - rd_index > Plimsoll THEN "full" ELSE "write")
    /\ UNCHANGED <<managerVars, chunk_id, consumerVars, files>>

\* load_full.wait(), whatever the backlog is by now
WaitForReaders ==
    /\ ProducerGoes("full", "blocked")
    /\ UNCHANGED <<managerVars, chunk_id, consumerVars, files>>

\* Mutant: the readers are not told.
EndStreamSilently ==
    /\ PromptOpen => \A c \in Consumers : consumer[c] \notin {"new", "open"}
    /\ ProducerGoes("end", "done")
    /\ UNCHANGED <<managerVars, chunk_id, consumerVars, files>>

\* The last notify_all.  PromptOpen is about speed: the stream does not end
\* before everybody has opened it.
EndStream ==
    /\ PromptOpen => \A c \in Consumers : consumer[c] \notin {"new", "open"}
    /\ ProducerGoes("end", "done")
    /\ NotifyAll
    /\ UNCHANGED chunk_id

ProducerStep ==
    WriteChunk \/ LookForReaders \/ NotifyReaders \/ Publish \/ CheckBacklog \/ WaitForReaders
    \/ EndStream

-----------------------------------------------------------------------------
(* The consumers: Slice *)

ConsumerGoes(c, from, to) == consumer[c] = from /\ consumer' = [consumer EXCEPT ![c] = to]

\* __init__: the first one starts the producer.
Create(c) ==
    /\ ConsumerGoes(c, "new", "open")
    /\ IF starter = Nobody
       THEN starter' = c /\ producer' = "write"
       ELSE UNCHANGED <<starter, producer>>
    /\ UNCHANGED <<rd_index, wr_count, load_empty, empty_waiters, chunk_id, rd_idx, files>>

\* open: waits once, whatever there is to read.
OpenWaits(c) ==
    /\ load_empty = Nobody
    /\ ConsumerGoes(c, "open", "waiting")
    /\ empty_waiters' = empty_waiters \union {c}
    /\ UNCHANGED <<rd_index, wr_count, starter, load_empty, producerVars, rd_idx, files>>

\* Mutant: does not exclude anybody.
LockShared(c) ==
    /\ load_empty' = c
    /\ consumer[c] \in {"woken", "next"}
    /\ consumer' = [consumer EXCEPT ![c] = "check"]
    /\ UNCHANGED <<rd_index, wr_count, starter, empty_waiters, producerVars, rd_idx, files>>

\* wait() returns, or _open_next is called: take the lock of load_empty.
Lock(c) ==
    /\ load_empty = Nobody
    /\ load_empty' = c
    /\ consumer[c] \in {"woken", "next"}
    /\ consumer' = [consumer EXCEPT ![c] = "check"]
    /\ UNCHANGED <<rd_index, wr_count, starter, empty_waiters, producerVars, rd_idx, files>>

\* Mutant: takes an empty queue for the end.
NothingToReadEnds(c) ==
    /\ rd_index = wr_count
    /\ ConsumerGoes(c, "check", "closing")
    /\ load_empty' = Nobody
    /\ UNCHANGED <<rd_index, wr_count, starter, empty_waiters, producerVars, rd_idx, files>>

\* while rd_index == wr_count: load_empty.wait()
NothingToRead(c) ==
    /\ rd_index = wr_count
    /\ ConsumerGoes(c, "check", "waiting")
    /\ empty_waiters' = empty_waiters \union {c}
    /\ load_empty' = Nobody
    /\ UNCHANGED <<rd_index, wr_count, starter, producerVars, rd_idx, files>>

\* The next file is empty: the end.
EndReached(c) ==
    /\ rd_index # wr_count
    /\ rd_index = NumChunks
    /\ ConsumerGoes(c, "check", "closing")
    /\ load_empty' = Nobody
    /\ UNCHANGED <<rd_index, wr_count, starter, empty_waiters, producerVars, rd_idx, files>>

\* Mutant: claims the end marker, too.
ReadIndexOfMarker(c) ==
    /\ rd_index # wr_count
    /\ ConsumerGoes(c, "check", "claim")
    /\ rd_idx' = [rd_idx EXCEPT ![c] = rd_index]
    /\ UNCHANGED <<managerVars, producerVars, files>>

\* rd_idx = rd_index
ReadIndex(c) ==
    /\ rd_index # wr_count
    /\ rd_index < NumChunks
    /\ ConsumerGoes(c, "check", "claim")
    /\ rd_idx' = [rd_idx EXCEPT ![c] = rd_index]
    /\ UNCHANGED <<managerVars, producerVars, files>>

\* rd_index += 1
Claim(c) ==
    /\ ConsumerGoes(c, "claim", "ballast")
    /\ rd_index' = rd_index + 1
    /\ UNCHANGED <<wr_count, starter, load_empty, empty_waiters, producerVars, rd_idx, files>>

\* load_full.notify() if the backlog is small; then leave the lock and open the
\* file.
NotifyProducer(c) ==
    /\ ConsumerGoes(c, "ballast", "reading")
    /\ producer' = IF wr_count - rd_idx[c] < Ballast /\ producer = "blocked" THEN "write" ELSE producer
    /\ load_empty' = Nobody
    /\ UNCHANGED <<rd_index, wr_count, starter, empty_waiters, chunk_id, rd_idx, files>>

\* _fill_bulk at the end of the file
FinishChunk(c) ==
    /\ ConsumerGoes(c, "reading", "next")
    /\ files' = files \ {rd_idx[c]}
    /\ UNCHANGED <<managerVars, producerVars, rd_idx>>

\* close: the one that started the producer waits for its end.
Close(c) ==
    /\ starter = c => producer = "done"
    /\ ConsumerGoes(c, "closing", "closed")
    /\ UNCHANGED <<managerVars, producerVars, rd_idx, files>>

ConsumerStep(c) ==
    \/ Create(c) \/ OpenWaits(c) \/ Lock(c) \/ NothingToRead(c) \/ EndReached(c) \/ ReadIndex(c)
    \/ Claim(c) \/ NotifyProducer(c) \/ FinishChunk(c) \/ Close(c)

-----------------------------------------------------------------------------
StreamNext == ProducerStep \/ \E c \in Consumers : ConsumerStep(c)

StreamSpec == StreamInit /\ [][StreamNext]_streamVars

\* Both kinds of processes run; a lock that is free again and again is granted.
StreamFairSpec ==
    /\ StreamSpec
    /\ SF_streamVars(ProducerStep)
    /\ \A c \in Consumers : SF_streamVars(ConsumerStep(c))

-----------------------------------------------------------------------------
(* Correctness *)

Claimed(c) == consumer[c] \in {"claim", "ballast", "reading"}

\* Every claimed chunk has been written, has not been removed, and belongs to
\* one consumer, although the producer takes no lock.
ChunkHasOneReader ==
    \A c \in Consumers : Claimed(c) =>
        /\ rd_idx[c] \in files
        /\ \A other \in Consumers \ {c} : Claimed(other) => rd_idx[other] # rd_idx[c]

\* The files on disk are the unread ones and those being read, and the
\* unread ones exceed Plimsoll by at most one.
BacklogBounded ==
    /\ wr_count - rd_index <= Plimsoll + 1
    /\ Cardinality(files) <= Plimsoll + 1 + Cardinality(Consumers)

\* A consumer stops only when every chunk has been claimed: nobody takes an
\* empty queue for the end of the stream.
EndMeansEverythingRead ==
    \A c \in Consumers : consumer[c] \in {"closing", "closed"} =>
        /\ rd_index = NumChunks
        /\ files \subseteq {rd_idx[d] : d \in {d \in Consumers : Claimed(d)}} \union {NumChunks}

\* Have all consumers come to the end?
StreamRead == \A c \in Consumers : consumer[c] = "closed"

\* _output_chunk: "It will be processed later by one ingestion client."
ChunkProcessedLater ==
    \A i \in 0 .. NumChunks - 1 : [](i \in files => <>(i \notin files))

(***************************************************************************)
(* The chunks of a stream are read once: each has one reader, no more of   *)
(* them than the backlog allows wait on disk, and a reader that finds the  *)
(* end leaves none behind.                                                 *)
(***************************************************************************)
ChunksAreReadOnce == StreamTypeOK /\ ChunkHasOneReader /\ BacklogBounded /\ EndMeansEverythingRead
=============================================================================
