--------------------------- MODULE IngestionProofs --------------------------
(***************************************************************************)
(* What holds before and while documents are sent: of StreamingIngestion   *)
(* for any number of consumers, any number of chunks and any backlog       *)
(* limits, and of WorkloadPreparation for any number of hosts, executors,  *)
(* processors and tasks, and any number of failures and crashes.           *)
(***************************************************************************)
EXTENDS StreamingIngestion, WorkloadPreparation, FiniteSetTheorems, TLAPS

-----------------------------------------------------------------------------
(***************************************************************************)
(* The stream of a corpus (StreamingIngestion)                             *)
(***************************************************************************)
(* The inductive invariant *)

InLock(c) == consumer[c] \in {"check", "claim", "ballast"}
Reads(c) == consumer[c] \in {"ballast", "reading"}
Unpublished == producer \in {"look", "notify", "publish"}

\* A consumer claims a chunk under the lock of load_empty, and nobody else is
\* between the check and the end of the claim.
LockIsHeld == \A c \in Consumers : InLock(c) <=> load_empty = c

\* wr_count is the number of chunks that the producer has published.
CountersAgree ==
    /\ rd_index <= wr_count
    /\ starter = Nobody => producer = "off"
    /\ producer = "off" => chunk_id = 0
    /\ producer \in {"look", "notify"} => chunk_id < NumChunks
    /\ IF producer \in {"end", "done"} THEN chunk_id = NumChunks /\ wr_count = NumChunks + 1
                                       ELSE wr_count = chunk_id

\* The producer passes the check only with a backlog of Plimsoll, and is woken
\* only with less.
BacklogChecked ==
    /\ wr_count - rd_index <= Plimsoll + 1
    /\ producer = "write" \/ Unpublished => chunk_id - rd_index <= Plimsoll

\* The index a consumer has read stays the next one until it has claimed it.
ClaimsAreApart ==
    /\ \A c \in Consumers : consumer[c] = "claim" => rd_idx[c] = rd_index /\ rd_index < wr_count /\ rd_index < NumChunks
    /\ \A c \in Consumers : Reads(c) => rd_idx[c] < rd_index
    /\ \A c, d \in Consumers : Reads(c) /\ Reads(d) /\ c # d => rd_idx[c] # rd_idx[d]
    /\ \A c \in Consumers : consumer[c] \in {"closing", "closed"} => rd_index = NumChunks

\* On disk are the chunks that nobody has claimed, the one that is about to be
\* published and those being read.
OnDisk(i) ==
    \/ rd_index <= i /\ i < wr_count
    \/ Unpublished /\ i = chunk_id
    \/ \E c \in Consumers : Reads(c) /\ rd_idx[c] = i

FilesAreNeeded == \A i \in 0 .. NumChunks : i \in files <=> OnDisk(i)

StreamInv ==
    StreamTypeOK /\ LockIsHeld /\ CountersAgree /\ BacklogChecked /\ ClaimsAreApart /\ FilesAreNeeded


-----------------------------------------------------------------------------
\* Before anything has started there is nothing on disk and nothing to claim.
LEMMA StreamInitially == StreamInit => StreamInv
<1> SUFFICES ASSUME StreamInit PROVE StreamInv
  OBVIOUS
<1> USE StreamAssumption, NobodyAssumption DEF StreamInit, InLock, Reads, Unpublished
<1>1. StreamTypeOK
  BY DEF StreamTypeOK, ProducerStates, ConsumerStates
<1>2. LockIsHeld
  BY DEF LockIsHeld
<1>3. CountersAgree /\ BacklogChecked
  BY DEF CountersAgree, BacklogChecked
<1>4. ClaimsAreApart
  BY DEF ClaimsAreApart
<1>5. FilesAreNeeded
  BY DEF FilesAreNeeded, OnDisk
<1> QED BY <1>1, <1>2, <1>3, <1>4, <1>5 DEF StreamInv

\* WriteChunk: The chunk that is written is on disk before it is published, and the backlog has been checked.
LEMMA WriteChunkKeeps ==
    ASSUME StreamInv, WriteChunk
    PROVE  StreamInv'
<1> USE StreamAssumption, NobodyAssumption DEF WriteChunk, ProducerGoes, managerVars, consumerVars
<1>1. StreamTypeOK'
  BY DEF StreamInv, StreamTypeOK, CountersAgree, ClaimsAreApart, ProducerStates, ConsumerStates
<1>2. LockIsHeld'
  BY DEF StreamInv, StreamTypeOK, LockIsHeld, InLock
<1>3. CountersAgree'
  BY DEF StreamInv, StreamTypeOK, CountersAgree, ClaimsAreApart
<1>4. BacklogChecked'
  BY DEF StreamInv, StreamTypeOK, CountersAgree, BacklogChecked, ClaimsAreApart, Unpublished, Reads
<1>5. ClaimsAreApart'
  BY DEF StreamInv, StreamTypeOK, LockIsHeld, InLock, CountersAgree, ClaimsAreApart, Reads
<1>6. FilesAreNeeded'
  BY DEF StreamInv, StreamTypeOK, CountersAgree, ClaimsAreApart, FilesAreNeeded, OnDisk, Unpublished, Reads
<1> QED BY <1>1, <1>2, <1>3, <1>4, <1>5, <1>6 DEF StreamInv

\* LookForReaders: Looking at rd_index without the lock changes nothing but the producer's next step.
LEMMA LookForReadersKeeps ==
    ASSUME StreamInv, LookForReaders
    PROVE  StreamInv'
<1> USE StreamAssumption, NobodyAssumption DEF LookForReaders, ProducerGoes, managerVars, consumerVars
<1>1. StreamTypeOK'
  BY DEF StreamInv, StreamTypeOK, CountersAgree, ClaimsAreApart, ProducerStates, ConsumerStates
<1>2. LockIsHeld'
  BY DEF StreamInv, StreamTypeOK, LockIsHeld, InLock
<1>3. CountersAgree'
  BY DEF StreamInv, StreamTypeOK, CountersAgree, ClaimsAreApart
<1>4. BacklogChecked'
  BY DEF StreamInv, StreamTypeOK, CountersAgree, BacklogChecked, ClaimsAreApart, Unpublished, Reads
<1>5. ClaimsAreApart'
  BY DEF StreamInv, StreamTypeOK, LockIsHeld, InLock, CountersAgree, ClaimsAreApart, Reads
<1>6. FilesAreNeeded'
  BY DEF StreamInv, StreamTypeOK, CountersAgree, ClaimsAreApart, FilesAreNeeded, OnDisk, Unpublished, Reads
<1> QED BY <1>1, <1>2, <1>3, <1>4, <1>5, <1>6 DEF StreamInv

\* NotifyReaders: Readers that are woken have to take the lock again.
LEMMA NotifyReadersKeeps ==
    ASSUME StreamInv, NotifyReaders
    PROVE  StreamInv'
<1> USE StreamAssumption, NobodyAssumption DEF NotifyReaders, NotifyAll, ProducerGoes
<1>1. StreamTypeOK'
  BY DEF StreamInv, StreamTypeOK, CountersAgree, ClaimsAreApart, ProducerStates, ConsumerStates
<1>2. LockIsHeld'
  BY DEF StreamInv, StreamTypeOK, LockIsHeld, InLock
<1>3. CountersAgree'
  BY DEF StreamInv, StreamTypeOK, CountersAgree, ClaimsAreApart
<1>4. BacklogChecked'
  BY DEF StreamInv, StreamTypeOK, CountersAgree, BacklogChecked, ClaimsAreApart, Unpublished, Reads
<1>5. ClaimsAreApart'
  BY DEF StreamInv, StreamTypeOK, LockIsHeld, InLock, CountersAgree, ClaimsAreApart, Reads
<1>6. FilesAreNeeded'
  BY DEF StreamInv, StreamTypeOK, CountersAgree, ClaimsAreApart, FilesAreNeeded, OnDisk, Unpublished, Reads
<1> QED BY <1>1, <1>2, <1>3, <1>4, <1>5, <1>6 DEF StreamInv

\* Publish: A chunk that is published is on disk, and raises a checked backlog by one.
LEMMA PublishKeeps ==
    ASSUME StreamInv, Publish
    PROVE  StreamInv'
<1> USE StreamAssumption, NobodyAssumption DEF Publish, ProducerGoes, consumerVars
<1>1. StreamTypeOK'
  BY DEF StreamInv, StreamTypeOK, CountersAgree, ClaimsAreApart, ProducerStates, ConsumerStates
<1>2. LockIsHeld'
  BY DEF StreamInv, StreamTypeOK, LockIsHeld, InLock
<1>3. CountersAgree'
  BY DEF StreamInv, StreamTypeOK, CountersAgree, ClaimsAreApart
<1>4. BacklogChecked'
  BY DEF StreamInv, StreamTypeOK, CountersAgree, BacklogChecked, ClaimsAreApart, Unpublished, Reads
<1>5. ClaimsAreApart'
  BY DEF StreamInv, StreamTypeOK, LockIsHeld, InLock, CountersAgree, ClaimsAreApart, Reads
<1>6. FilesAreNeeded'
  BY DEF StreamInv, StreamTypeOK, CountersAgree, ClaimsAreApart, FilesAreNeeded, OnDisk, Unpublished, Reads
<1> QED BY <1>1, <1>2, <1>3, <1>4, <1>5, <1>6 DEF StreamInv

\* CheckBacklog: rd_index may have grown since, which only makes the backlog smaller.
LEMMA CheckBacklogKeeps ==
    ASSUME StreamInv, CheckBacklog
    PROVE  StreamInv'
<1> USE StreamAssumption, NobodyAssumption DEF CheckBacklog, ProducerGoes, managerVars, consumerVars
<1>1. StreamTypeOK'
  BY DEF StreamInv, StreamTypeOK, CountersAgree, ClaimsAreApart, ProducerStates, ConsumerStates
<1>2. LockIsHeld'
  BY DEF StreamInv, StreamTypeOK, LockIsHeld, InLock
<1>3. CountersAgree'
  BY DEF StreamInv, StreamTypeOK, CountersAgree, ClaimsAreApart
<1>4. BacklogChecked'
  BY DEF StreamInv, StreamTypeOK, CountersAgree, BacklogChecked, ClaimsAreApart, Unpublished, Reads
<1>5. ClaimsAreApart'
  BY DEF StreamInv, StreamTypeOK, LockIsHeld, InLock, CountersAgree, ClaimsAreApart, Reads
<1>6. FilesAreNeeded'
  BY DEF StreamInv, StreamTypeOK, CountersAgree, ClaimsAreApart, FilesAreNeeded, OnDisk, Unpublished, Reads
<1> QED BY <1>1, <1>2, <1>3, <1>4, <1>5, <1>6 DEF StreamInv

\* WaitForReaders: A producer that waits publishes nothing.
LEMMA WaitForReadersKeeps ==
    ASSUME StreamInv, WaitForReaders
    PROVE  StreamInv'
<1> USE StreamAssumption, NobodyAssumption DEF WaitForReaders, ProducerGoes, managerVars, consumerVars
<1>1. StreamTypeOK'
  BY DEF StreamInv, StreamTypeOK, CountersAgree, ClaimsAreApart, ProducerStates, ConsumerStates
<1>2. LockIsHeld'
  BY DEF StreamInv, StreamTypeOK, LockIsHeld, InLock
<1>3. CountersAgree'
  BY DEF StreamInv, StreamTypeOK, CountersAgree, ClaimsAreApart
<1>4. BacklogChecked'
  BY DEF StreamInv, StreamTypeOK, CountersAgree, BacklogChecked, ClaimsAreApart, Unpublished, Reads
<1>5. ClaimsAreApart'
  BY DEF StreamInv, StreamTypeOK, LockIsHeld, InLock, CountersAgree, ClaimsAreApart, Reads
<1>6. FilesAreNeeded'
  BY DEF StreamInv, StreamTypeOK, CountersAgree, ClaimsAreApart, FilesAreNeeded, OnDisk, Unpublished, Reads
<1> QED BY <1>1, <1>2, <1>3, <1>4, <1>5, <1>6 DEF StreamInv

\* EndStream: The last notification comes after the marker has been published.
LEMMA EndStreamKeeps ==
    ASSUME StreamInv, EndStream
    PROVE  StreamInv'
<1> USE StreamAssumption, NobodyAssumption DEF EndStream, NotifyAll, ProducerGoes
<1>1. StreamTypeOK'
  BY DEF StreamInv, StreamTypeOK, CountersAgree, ClaimsAreApart, ProducerStates, ConsumerStates
<1>2. LockIsHeld'
  BY DEF StreamInv, StreamTypeOK, LockIsHeld, InLock
<1>3. CountersAgree'
  BY DEF StreamInv, StreamTypeOK, CountersAgree, ClaimsAreApart
<1>4. BacklogChecked'
  BY DEF StreamInv, StreamTypeOK, CountersAgree, BacklogChecked, ClaimsAreApart, Unpublished, Reads
<1>5. ClaimsAreApart'
  BY DEF StreamInv, StreamTypeOK, LockIsHeld, InLock, CountersAgree, ClaimsAreApart, Reads
<1>6. FilesAreNeeded'
  BY DEF StreamInv, StreamTypeOK, CountersAgree, ClaimsAreApart, FilesAreNeeded, OnDisk, Unpublished, Reads
<1> QED BY <1>1, <1>2, <1>3, <1>4, <1>5, <1>6 DEF StreamInv

\* Create: Only the first consumer starts the producer, with an empty backlog.
LEMMA CreateKeeps ==
    ASSUME StreamInv, NEW c \in Consumers, Create(c)
    PROVE  StreamInv'
<1> USE StreamAssumption, NobodyAssumption DEF Create, ConsumerGoes
<1>1. StreamTypeOK'
  BY DEF StreamInv, StreamTypeOK, CountersAgree, ClaimsAreApart, ProducerStates, ConsumerStates
<1>2. LockIsHeld'
  BY DEF StreamInv, StreamTypeOK, LockIsHeld, InLock
<1>3. CountersAgree'
  BY DEF StreamInv, StreamTypeOK, CountersAgree, ClaimsAreApart
<1>4. BacklogChecked'
  BY DEF StreamInv, StreamTypeOK, CountersAgree, BacklogChecked, ClaimsAreApart, Unpublished, Reads
<1>5. ClaimsAreApart'
  BY DEF StreamInv, StreamTypeOK, LockIsHeld, InLock, CountersAgree, ClaimsAreApart, Reads
<1>6. FilesAreNeeded'
  BY DEF StreamInv, StreamTypeOK, CountersAgree, ClaimsAreApart, FilesAreNeeded, OnDisk, Unpublished, Reads
<1> QED BY <1>1, <1>2, <1>3, <1>4, <1>5, <1>6 DEF StreamInv

\* OpenWaits: A consumer that waits has claimed nothing.
LEMMA OpenWaitsKeeps ==
    ASSUME StreamInv, NEW c \in Consumers, OpenWaits(c)
    PROVE  StreamInv'
<1> USE StreamAssumption, NobodyAssumption DEF OpenWaits, ConsumerGoes, producerVars
<1>1. StreamTypeOK'
  BY DEF StreamInv, StreamTypeOK, CountersAgree, ClaimsAreApart, ProducerStates, ConsumerStates
<1>2. LockIsHeld'
  BY DEF StreamInv, StreamTypeOK, LockIsHeld, InLock
<1>3. CountersAgree'
  BY DEF StreamInv, StreamTypeOK, CountersAgree, ClaimsAreApart
<1>4. BacklogChecked'
  BY DEF StreamInv, StreamTypeOK, CountersAgree, BacklogChecked, ClaimsAreApart, Unpublished, Reads
<1>5. ClaimsAreApart'
  BY DEF StreamInv, StreamTypeOK, LockIsHeld, InLock, CountersAgree, ClaimsAreApart, Reads
<1>6. FilesAreNeeded'
  BY DEF StreamInv, StreamTypeOK, CountersAgree, ClaimsAreApart, FilesAreNeeded, OnDisk, Unpublished, Reads
<1> QED BY <1>1, <1>2, <1>3, <1>4, <1>5, <1>6 DEF StreamInv

\* Lock: The lock is free before it is taken.
LEMMA LockKeeps ==
    ASSUME StreamInv, NEW c \in Consumers, Lock(c)
    PROVE  StreamInv'
<1> USE StreamAssumption, NobodyAssumption DEF Lock, producerVars
<1>1. StreamTypeOK'
  BY DEF StreamInv, StreamTypeOK, CountersAgree, ClaimsAreApart, ProducerStates, ConsumerStates
<1>2. LockIsHeld'
  BY DEF StreamInv, StreamTypeOK, LockIsHeld, InLock
<1>3. CountersAgree'
  BY DEF StreamInv, StreamTypeOK, CountersAgree, ClaimsAreApart
<1>4. BacklogChecked'
  BY DEF StreamInv, StreamTypeOK, CountersAgree, BacklogChecked, ClaimsAreApart, Unpublished, Reads
<1>5. ClaimsAreApart'
  BY DEF StreamInv, StreamTypeOK, LockIsHeld, InLock, CountersAgree, ClaimsAreApart, Reads
<1>6. FilesAreNeeded'
  BY DEF StreamInv, StreamTypeOK, CountersAgree, ClaimsAreApart, FilesAreNeeded, OnDisk, Unpublished, Reads
<1> QED BY <1>1, <1>2, <1>3, <1>4, <1>5, <1>6 DEF StreamInv

\* NothingToRead: Waiting gives the lock back.
LEMMA NothingToReadKeeps ==
    ASSUME StreamInv, NEW c \in Consumers, NothingToRead(c)
    PROVE  StreamInv'
<1> USE StreamAssumption, NobodyAssumption DEF NothingToRead, ConsumerGoes, producerVars
<1>1. StreamTypeOK'
  BY DEF StreamInv, StreamTypeOK, CountersAgree, ClaimsAreApart, ProducerStates, ConsumerStates
<1>2. LockIsHeld'
  BY DEF StreamInv, StreamTypeOK, LockIsHeld, InLock
<1>3. CountersAgree'
  BY DEF StreamInv, StreamTypeOK, CountersAgree, ClaimsAreApart
<1>4. BacklogChecked'
  BY DEF StreamInv, StreamTypeOK, CountersAgree, BacklogChecked, ClaimsAreApart, Unpublished, Reads
<1>5. ClaimsAreApart'
  BY DEF StreamInv, StreamTypeOK, LockIsHeld, InLock, CountersAgree, ClaimsAreApart, Reads
<1>6. FilesAreNeeded'
  BY DEF StreamInv, StreamTypeOK, CountersAgree, ClaimsAreApart, FilesAreNeeded, OnDisk, Unpublished, Reads
<1> QED BY <1>1, <1>2, <1>3, <1>4, <1>5, <1>6 DEF StreamInv

\* EndReached: Only the marker is left: all chunks have been claimed.
LEMMA EndReachedKeeps ==
    ASSUME StreamInv, NEW c \in Consumers, EndReached(c)
    PROVE  StreamInv'
<1> USE StreamAssumption, NobodyAssumption DEF EndReached, ConsumerGoes, producerVars
<1>1. StreamTypeOK'
  BY DEF StreamInv, StreamTypeOK, CountersAgree, ClaimsAreApart, ProducerStates, ConsumerStates
<1>2. LockIsHeld'
  BY DEF StreamInv, StreamTypeOK, LockIsHeld, InLock
<1>3. CountersAgree'
  BY DEF StreamInv, StreamTypeOK, CountersAgree, ClaimsAreApart
<1>4. BacklogChecked'
  BY DEF StreamInv, StreamTypeOK, CountersAgree, BacklogChecked, ClaimsAreApart, Unpublished, Reads
<1>5. ClaimsAreApart'
  BY DEF StreamInv, StreamTypeOK, LockIsHeld, InLock, CountersAgree, ClaimsAreApart, Reads
<1>6. FilesAreNeeded'
  BY DEF StreamInv, StreamTypeOK, CountersAgree, ClaimsAreApart, FilesAreNeeded, OnDisk, Unpublished, Reads
<1> QED BY <1>1, <1>2, <1>3, <1>4, <1>5, <1>6 DEF StreamInv

\* ReadIndex: The next chunk has been published, although wr_count is read without the producer's lock.
LEMMA ReadIndexKeeps ==
    ASSUME StreamInv, NEW c \in Consumers, ReadIndex(c)
    PROVE  StreamInv'
<1> USE StreamAssumption, NobodyAssumption DEF ReadIndex, ConsumerGoes, managerVars, producerVars
<1>1. StreamTypeOK'
  BY DEF StreamInv, StreamTypeOK, CountersAgree, ClaimsAreApart, ProducerStates, ConsumerStates
<1>2. LockIsHeld'
  BY DEF StreamInv, StreamTypeOK, LockIsHeld, InLock
<1>3. CountersAgree'
  BY DEF StreamInv, StreamTypeOK, CountersAgree, ClaimsAreApart
<1>4. BacklogChecked'
  BY DEF StreamInv, StreamTypeOK, CountersAgree, BacklogChecked, ClaimsAreApart, Unpublished, Reads
<1>5. ClaimsAreApart'
  BY DEF StreamInv, StreamTypeOK, LockIsHeld, InLock, CountersAgree, ClaimsAreApart, Reads
<1>6. FilesAreNeeded'
  BY DEF StreamInv, StreamTypeOK, CountersAgree, ClaimsAreApart, FilesAreNeeded, OnDisk, Unpublished, Reads
<1> QED BY <1>1, <1>2, <1>3, <1>4, <1>5, <1>6 DEF StreamInv

\* Claim: Under the lock nobody else has raised rd_index meanwhile, so nobody else reads this chunk.
LEMMA ClaimKeeps ==
    ASSUME StreamInv, NEW c \in Consumers, Claim(c)
    PROVE  StreamInv'
<1> USE StreamAssumption, NobodyAssumption DEF Claim, ConsumerGoes, producerVars
<1>1. StreamTypeOK'
  BY DEF StreamInv, StreamTypeOK, CountersAgree, ClaimsAreApart, ProducerStates, ConsumerStates
<1>2. LockIsHeld'
  BY DEF StreamInv, StreamTypeOK, LockIsHeld, InLock
<1>3. CountersAgree'
  BY DEF StreamInv, StreamTypeOK, CountersAgree, ClaimsAreApart
<1>4. BacklogChecked'
  BY DEF StreamInv, StreamTypeOK, CountersAgree, BacklogChecked, ClaimsAreApart, Unpublished, Reads
<1>5. ClaimsAreApart'
  BY DEF StreamInv, StreamTypeOK, LockIsHeld, InLock, CountersAgree, ClaimsAreApart, Reads
<1>6. FilesAreNeeded'
  BY DEF StreamInv, StreamTypeOK, CountersAgree, ClaimsAreApart, FilesAreNeeded, OnDisk, Unpublished, Reads
<1> QED BY <1>1, <1>2, <1>3, <1>4, <1>5, <1>6 DEF StreamInv

\* NotifyProducer: The producer is woken with less than Ballast chunks, hence with no more than Plimsoll.
LEMMA NotifyProducerKeeps ==
    ASSUME StreamInv, NEW c \in Consumers, NotifyProducer(c)
    PROVE  StreamInv'
<1> USE StreamAssumption, NobodyAssumption DEF NotifyProducer, ConsumerGoes
<1>1. StreamTypeOK'
  BY DEF StreamInv, StreamTypeOK, CountersAgree, ClaimsAreApart, ProducerStates, ConsumerStates
<1>2. LockIsHeld'
  BY DEF StreamInv, StreamTypeOK, LockIsHeld, InLock
<1>3. CountersAgree'
  BY DEF StreamInv, StreamTypeOK, CountersAgree, ClaimsAreApart
<1>4. BacklogChecked'
  BY DEF StreamInv, StreamTypeOK, CountersAgree, BacklogChecked, ClaimsAreApart, Unpublished, Reads
<1>5. ClaimsAreApart'
  BY DEF StreamInv, StreamTypeOK, LockIsHeld, InLock, CountersAgree, ClaimsAreApart, Reads
<1>6. FilesAreNeeded'
  BY DEF StreamInv, StreamTypeOK, CountersAgree, ClaimsAreApart, FilesAreNeeded, OnDisk, Unpublished, Reads
<1> QED BY <1>1, <1>2, <1>3, <1>4, <1>5, <1>6 DEF StreamInv

\* FinishChunk: The file that is removed is neither unread nor anybody else's.
LEMMA FinishChunkKeeps ==
    ASSUME StreamInv, NEW c \in Consumers, FinishChunk(c)
    PROVE  StreamInv'
<1> USE StreamAssumption, NobodyAssumption DEF FinishChunk, ConsumerGoes, managerVars, producerVars
<1>1. StreamTypeOK'
  BY DEF StreamInv, StreamTypeOK, CountersAgree, ClaimsAreApart, ProducerStates, ConsumerStates
<1>2. LockIsHeld'
  BY DEF StreamInv, StreamTypeOK, LockIsHeld, InLock
<1>3. CountersAgree'
  BY DEF StreamInv, StreamTypeOK, CountersAgree, ClaimsAreApart
<1>4. BacklogChecked'
  BY DEF StreamInv, StreamTypeOK, CountersAgree, BacklogChecked, ClaimsAreApart, Unpublished, Reads
<1>5. ClaimsAreApart'
  BY DEF StreamInv, StreamTypeOK, LockIsHeld, InLock, CountersAgree, ClaimsAreApart, Reads
<1>6. FilesAreNeeded'
  BY DEF StreamInv, StreamTypeOK, CountersAgree, ClaimsAreApart, FilesAreNeeded, OnDisk, Unpublished, Reads
<1> QED BY <1>1, <1>2, <1>3, <1>4, <1>5, <1>6 DEF StreamInv

\* Close: A consumer closes after the end was reached.
LEMMA CloseKeeps ==
    ASSUME StreamInv, NEW c \in Consumers, Close(c)
    PROVE  StreamInv'
<1> USE StreamAssumption, NobodyAssumption DEF Close, ConsumerGoes, managerVars, producerVars
<1>1. StreamTypeOK'
  BY DEF StreamInv, StreamTypeOK, CountersAgree, ClaimsAreApart, ProducerStates, ConsumerStates
<1>2. LockIsHeld'
  BY DEF StreamInv, StreamTypeOK, LockIsHeld, InLock
<1>3. CountersAgree'
  BY DEF StreamInv, StreamTypeOK, CountersAgree, ClaimsAreApart
<1>4. BacklogChecked'
  BY DEF StreamInv, StreamTypeOK, CountersAgree, BacklogChecked, ClaimsAreApart, Unpublished, Reads
<1>5. ClaimsAreApart'
  BY DEF StreamInv, StreamTypeOK, LockIsHeld, InLock, CountersAgree, ClaimsAreApart, Reads
<1>6. FilesAreNeeded'
  BY DEF StreamInv, StreamTypeOK, CountersAgree, ClaimsAreApart, FilesAreNeeded, OnDisk, Unpublished, Reads
<1> QED BY <1>1, <1>2, <1>3, <1>4, <1>5, <1>6 DEF StreamInv

\* Steps that change nothing.
LEMMA StreamStutters == ASSUME StreamInv, UNCHANGED streamVars PROVE StreamInv'
BY DEF StreamInv, StreamTypeOK, LockIsHeld, InLock, CountersAgree, BacklogChecked, Unpublished,
       ClaimsAreApart, Reads, FilesAreNeeded, OnDisk, streamVars, managerVars, producerVars, consumerVars

\* Every step of the producer and of a consumer keeps the invariant.
LEMMA StreamStep == StreamInv /\ [StreamNext]_streamVars => StreamInv'
<1> SUFFICES ASSUME StreamInv, [StreamNext]_streamVars PROVE StreamInv'
  OBVIOUS
<1>1. CASE ProducerStep
  BY <1>1, WriteChunkKeeps, LookForReadersKeeps, NotifyReadersKeeps, PublishKeeps, CheckBacklogKeeps,
     WaitForReadersKeeps, EndStreamKeeps DEF ProducerStep
<1>2. ASSUME NEW c \in Consumers, ConsumerStep(c) PROVE StreamInv'
  BY <1>2, CreateKeeps, OpenWaitsKeeps, LockKeeps, NothingToReadKeeps, EndReachedKeeps, ReadIndexKeeps,
     ClaimKeeps, NotifyProducerKeeps, FinishChunkKeeps, CloseKeeps DEF ConsumerStep
<1>3. CASE UNCHANGED streamVars
  BY <1>3, StreamStutters
<1> QED BY <1>1, <1>2, <1>3 DEF StreamNext

-----------------------------------------------------------------------------
(* What follows from it *)

\* The unread chunks are an interval of at most Plimsoll + 1 indices; every
\* other file belongs to a consumer.
LEMMA FilesBounded ==
    ASSUME StreamInv
    PROVE  Cardinality(files) <= Plimsoll + 1 + Cardinality(Consumers)
<1> DEFINE unread == rd_index .. rd_index + Plimsoll
           read == {rd_idx[c] : c \in Consumers}
<1> USE StreamAssumption
<1>1. rd_index \in Int /\ Plimsoll \in Int /\ rd_index + Plimsoll \in Int
  BY DEF StreamInv, StreamTypeOK
<1>2. IsFiniteSet(unread) /\ Cardinality(unread) = Plimsoll + 1
  BY <1>1, FS_Interval
<1>3. IsFiniteSet(read) /\ Cardinality(read) <= Cardinality(Consumers)
  <2> DEFINE f == [c \in Consumers |-> rd_idx[c]]
  <2>1. f \in Surjection(Consumers, read)
    BY DEF Surjection
  <2> QED BY <2>1, FS_Surjection
<1>4. IsFiniteSet(unread \union read)
      /\ Cardinality(unread \union read) = Cardinality(unread) + Cardinality(read) - Cardinality(unread \cap read)
  BY <1>2, <1>3, FS_Union
<1>5. Cardinality(unread \cap read) \in Nat
  <2>1. IsFiniteSet(unread \cap read)
    BY <1>2, FS_Intersection
  <2> QED BY <2>1, FS_CardinalityType
<1>6. files \subseteq unread \union read
  <2> SUFFICES ASSUME NEW i \in files PROVE i \in unread \union read
    OBVIOUS
  <2>1. i \in 0 .. NumChunks /\ OnDisk(i)
    BY DEF StreamInv, StreamTypeOK, FilesAreNeeded
  <2> QED
    BY <2>1, <1>1 DEF StreamInv, StreamTypeOK, CountersAgree, BacklogChecked, OnDisk, Unpublished
<1>7. Cardinality(files) <= Cardinality(unread \union read)
  BY <1>4, <1>6, FS_Subset
<1>8. Cardinality(read) \in Nat /\ Cardinality(Consumers) \in Nat /\ Cardinality(files) \in Nat
  BY <1>3, <1>4, <1>6, FS_CardinalityType, FS_Subset
<1> QED BY <1>2, <1>3, <1>4, <1>5, <1>7, <1>8

\* The invariant implies the three promises.
LEMMA StreamInvImplies == StreamInv => ChunksAreReadOnce
<1> SUFFICES ASSUME StreamInv PROVE ChunksAreReadOnce
  OBVIOUS
<1> USE StreamAssumption
<1>1. ChunkHasOneReader
  BY DEF StreamInv, StreamTypeOK, LockIsHeld, InLock, ClaimsAreApart, FilesAreNeeded, OnDisk, Reads,
         ChunkHasOneReader, Claimed
<1>2. BacklogBounded
  BY FilesBounded DEF StreamInv, BacklogChecked, BacklogBounded
<1>3. EndMeansEverythingRead
  <2> SUFFICES ASSUME NEW c \in Consumers, consumer[c] \in {"closing", "closed"}, NEW i \in files,
                      i # NumChunks
               PROVE  rd_index = NumChunks /\ \E d \in Consumers : Claimed(d) /\ rd_idx[d] = i
    BY DEF EndMeansEverythingRead, StreamInv, ClaimsAreApart
  <2>1. rd_index = NumChunks /\ i \in 0 .. NumChunks /\ OnDisk(i)
    BY DEF StreamInv, StreamTypeOK, ClaimsAreApart, FilesAreNeeded
  <2>2. ~ (rd_index <= i /\ i < wr_count) /\ ~ (Unpublished /\ i = chunk_id)
    BY <2>1 DEF StreamInv, StreamTypeOK, CountersAgree, Unpublished
  <2> QED BY <2>1, <2>2 DEF OnDisk, Reads, Claimed
<1> QED BY <1>1, <1>2, <1>3 DEF StreamInv, ChunksAreReadOnce

(***************************************************************************)
(* Any number of consumers read the chunks of a stream once each: a chunk  *)
(* that is claimed under the lock of load_empty is on disk and nobody      *)
(* else's although S3DataProducer takes no lock, the backlog never exceeds *)
(* plimsoll by more than one chunk, and a Slice ends only after the last.  *)
(***************************************************************************)
THEOREM StreamIsReadOnce == StreamSpec => []ChunksAreReadOnce
<1>1. StreamInit => StreamInv
  BY StreamInitially
<1>2. StreamInv /\ [StreamNext]_streamVars => StreamInv'
  BY StreamStep
<1>3. StreamInv => ChunksAreReadOnce
  BY StreamInvImplies
<1> QED BY <1>1, <1>2, <1>3, PTL DEF StreamSpec

-----------------------------------------------------------------------------
(***************************************************************************)
(* The preparation of the workload (WorkloadPreparation)                   *)
(***************************************************************************)
(* The inductive invariant *)

\* Is a message of one of the types T in mailbox q, and not twice?
Some(q, T) == \E i \in 1 .. Len(q) : q[i].type \in T
Single(q, T) == \A i, j \in 1 .. Len(q) : q[i].type \in T /\ q[j].type \in T => i = j

Orders == {"StartTaskLoop", "DoTask"}
Questions == {"ReadyForWork", "WorkerIdle"}
Idleness == {"WorkerIdle"}
Failure == {"BenchmarkFailure"}
Exit == {"ActorExitRequest"}
Begin == {"PrepareWorkload"}
Ready == {"WorkloadPrepared"}

\* Which task is in a mailbox, and is there a DoTask without one?
Carries(q, t) == \E i \in 1 .. Len(q) : q[i].task = t
HasNothing(q) == \E i \in 1 .. Len(q) : q[i] = DoTask(None)
TasksInOrders(q) == \A i \in 1 .. Len(q) : q[i].task # None => q[i].type = "DoTask"

\* In a round every executor has one turn, which it passes to and fro with its
\* preparator: it has been told something, asks for something, or works.
Told(e) == Some(toExecutor[e], Orders)
Asks(e) == Some(toPreparator[e], Questions)
Works(e) == future[e].thread # "none"
HasTurn(e) == Told(e) \/ Asks(e) \/ Works(e)
Active(h) == {e \in Children(h) : HasTurn(e)}

TurnOf(e) ==
    /\ Single(toExecutor[e], Orders) /\ Single(toPreparator[e], Questions) /\ TasksInOrders(toExecutor[e])
    /\ ~(Told(e) /\ Asks(e)) /\ ~(Told(e) /\ Works(e)) /\ ~(Asks(e) /\ Works(e))
    /\ HasTurn(e) => status[HostOf[e]] = "PROCESSOR_RUNNING"
    /\ future[e].task = None <=> future[e].thread = "none"
    /\ wakeup[e] => Works(e)
OneTurn == \A e \in Executors : TurnOf(e)

\* A preparator begins once, and runs a processor only between the beginning and
\* the end; the responses and the executors that still have their turn are
\* never more than all of them.
RoundOf(h) ==
    /\ Single(fromCoordinator[h], Begin)
    /\ Some(fromCoordinator[h], Begin) => status[h] = "INITIALIZING"
    /\ status[h] = "INITIALIZING" <=> processor[h] = 0
    /\ status[h] # "PROCESSOR_RUNNING" => responses[h] = 0
    /\ responses[h] + Cardinality(Active(h)) <= Cardinality(Children(h))
RoundsCounted == \A h \in Hosts : RoundOf(h)

\* An executor is told that there is nothing to do only when the list is empty.
Given(e, t) == Carries(toExecutor[e], t)
Idles(e) == Some(toPreparator[e], Idleness) \/ HasNothing(toExecutor[e])
NothingLeft(h) == responses[h] > 0 \/ \E e \in Children(h) : Idles(e)

\* Where the tasks of the current processor are
Placed(h, t) ==
    /\ t.number <= tasks[h] => t \notin executed[h]
    /\ \A e \in Children(h) :
          /\ Given(e, t) => tasks[h] < t.number /\ t \notin executed[h]
          /\ future[e].task = t => tasks[h] < t.number /\ (t \in executed[h] <=> future[e].thread = "done")
          /\ \A f \in Children(h) :
                /\ Given(e, t) => future[f].task # t
                /\ e # f => ~(Given(e, t) /\ Given(f, t))
                /\ e # f => ~(future[e].task = t /\ future[f].task = t)
    /\ \/ t.number <= tasks[h] \/ t \in executed[h]
       \/ \E e \in Children(h) : Given(e, t) \/ future[e].task = t
TaskPlaces(h) == \A t \in TasksOf(h, processor[h]) : Placed(h, t)

\* What an executor has to do belongs to the current processor.
Current(e) ==
    LET h == HostOf[e] IN
    /\ \A t \in Tasks \ {None} : Given(e, t) => t \in TasksOf(h, processor[h])
    /\ future[e].task # None => future[e].task \in TasksOf(h, processor[h])

TasksInOrder(h) ==
    /\ \A p \in 1 .. processor[h] - 1 : TasksOf(h, p) \subseteq executed[h]
    /\ \A t \in executed[h] : t.processor <= processor[h]
    /\ status[h] = "PROCESSOR_RUNNING" =>
          /\ tasks[h] <= TaskCount[h][processor[h]]
          /\ NothingLeft(h) => tasks[h] = 0
          /\ TaskPlaces(h)
    /\ status[h] = "PROCESSOR_COMPLETE" /\ failures = 0 => AllTasks(h) \subseteq executed[h]

TasksInv == (\A e \in Executors : Current(e)) /\ (\A h \in Hosts : TasksInOrder(h))

\* A failure leaves a host that will never report that it is prepared: it has
\* not begun, or has an executor that neither has its turn nor has answered, or
\* one with a failed task.
Stuck(h) ==
    \/ status[h] = "INITIALIZING" /\ ~Some(fromCoordinator[h], Begin)
    \/ /\ status[h] = "PROCESSOR_RUNNING"
       /\ \/ responses[h] + Cardinality(Active(h)) < Cardinality(Children(h))
          \/ \E e \in Children(h) : future[e].thread = "failed"

Unprepared == {h \in Hosts : status[h] # "PROCESSOR_COMPLETE"}
Reporting == {h \in Hosts : Some(toCoordinator[h], Ready)}
Answers == prepared + Cardinality(Reporting) + Cardinality(Unprepared)

HostsCounted ==
    /\ \A h \in Hosts : Single(toCoordinator[h], Ready) /\ (h \in Reporting => h \notin Unprepared)
    /\ Answers <= Cardinality(Hosts)
    /\ failures > 0 => Answers < Cardinality(Hosts) \/ \E h \in Unprepared : Stuck(h)

\* Where a failure is reported, there was one; who exits has been told so after
\* all hosts have been prepared.
FailuresKnown ==
    /\ "BenchmarkFailure" \in reports => failures > 0
    /\ \A h \in Hosts : Some(toCoordinator[h], Failure) => failures > 0
    /\ \A e \in Executors : Some(toExecutor[e], Failure) \/ Some(toPreparator[e], Failure) => failures > 0
    /\ \A e \in Executors : future[e].thread = "failed" => failures > 0
ExitsKnown ==
    /\ \A h \in Hosts : Some(fromCoordinator[h], Exit) => "PreparationComplete" \in reports
    /\ \A e \in Executors : Some(toExecutor[e], Exit) => "PreparationComplete" \in reports
    /\ "PreparationComplete" \in reports => Unprepared = {} /\ failures = 0

PreparationInv ==
    PreparationTypeOK /\ OneTurn /\ RoundsCounted /\ TasksInv /\ HostsCounted /\ FailuresKnown /\ ExitsKnown

-----------------------------------------------------------------------------
(* Mailboxes *)

\* What a new message adds to a mailbox.
LEMMA Pushed ==
    ASSUME NEW q \in Seq(Messages), NEW m \in Messages
    PROVE  /\ Append(q, m) \in Seq(Messages)
           /\ \A T : Some(Append(q, m), T) <=> Some(q, T) \/ m.type \in T
           /\ \A T : Single(q, T) /\ (m.type \in T => ~Some(q, T)) => Single(Append(q, m), T)
           /\ \A t : Carries(Append(q, m), t) <=> Carries(q, t) \/ m.task = t
           /\ HasNothing(Append(q, m)) <=> HasNothing(q) \/ m = DoTask(None)
           /\ TasksInOrders(q) /\ (m.task # None => m.type = "DoTask") => TasksInOrders(Append(q, m))
<1> DEFINE a == Append(q, m)
<1>1. Len(a) = Len(q) + 1 /\ Len(q) \in Nat /\ a[Len(q) + 1] = m
        /\ \A i \in 1 .. Len(q) : a[i] = q[i]
  OBVIOUS
<1>2. a \in Seq(Messages)
  OBVIOUS
<1> HIDE DEF a
<1>3. ASSUME NEW T PROVE Some(a, T) <=> Some(q, T) \/ m.type \in T
  BY <1>1 DEF Some
<1>4. ASSUME NEW T, Single(q, T), m.type \in T => ~Some(q, T) PROVE Single(a, T)
  BY <1>1, <1>4 DEF Single, Some
<1>5. ASSUME NEW t PROVE Carries(a, t) <=> Carries(q, t) \/ m.task = t
  BY <1>1 DEF Carries
<1>6. HasNothing(a) <=> HasNothing(q) \/ m = DoTask(None)
  BY <1>1 DEF HasNothing
<1>7. TasksInOrders(q) /\ (m.task # None => m.type = "DoTask") => TasksInOrders(a)
  BY <1>1 DEF TasksInOrders
<1> QED
  BY <1>2, <1>3, <1>4, <1>5, <1>6, <1>7 DEF a

\* What handling the first message takes from a mailbox.
LEMMA Handled ==
    ASSUME NEW q \in Seq(Messages), q # <<>>
    PROVE  /\ Tail(q) \in Seq(Messages) /\ Head(q) \in Messages
           /\ \A T : Some(q, T) <=> Some(Tail(q), T) \/ Head(q).type \in T
           /\ \A T : Single(q, T) => Single(Tail(q), T) /\ (Head(q).type \in T => ~Some(Tail(q), T))
           /\ \A t : Carries(q, t) <=> Carries(Tail(q), t) \/ Head(q).task = t
           /\ HasNothing(q) <=> HasNothing(Tail(q)) \/ Head(q) = DoTask(None)
           /\ TasksInOrders(q) => TasksInOrders(Tail(q)) /\ (Head(q).task # None => Head(q).type = "DoTask")
<1> DEFINE r == Tail(q)
<1>1. Len(q) \in Nat /\ Len(q) > 0 /\ Len(r) = Len(q) - 1 /\ Head(q) = q[1]
        /\ \A i \in 1 .. Len(r) : r[i] = q[i + 1]
  OBVIOUS
<1>2. r \in Seq(Messages) /\ Head(q) \in Messages
  OBVIOUS
<1> HIDE DEF r
<1>3. \A i \in 1 .. Len(q) : i = 1 \/ (i - 1 \in 1 .. Len(r) /\ r[i - 1] = q[i])
  BY <1>1
<1>4. ASSUME NEW T PROVE Some(q, T) <=> Some(r, T) \/ Head(q).type \in T
  BY <1>1, <1>3 DEF Some
<1>5. ASSUME NEW T, Single(q, T) PROVE Single(r, T) /\ (Head(q).type \in T => ~Some(r, T))
  BY <1>1, <1>5 DEF Single, Some
<1>6. ASSUME NEW t PROVE Carries(q, t) <=> Carries(r, t) \/ Head(q).task = t
  BY <1>1, <1>3 DEF Carries
<1>7. HasNothing(q) <=> HasNothing(r) \/ Head(q) = DoTask(None)
  BY <1>1, <1>3 DEF HasNothing
<1>8. TasksInOrders(q) => TasksInOrders(r) /\ (Head(q).task # None => Head(q).type = "DoTask")
  BY <1>1 DEF TasksInOrders
<1> QED
  BY <1>2, <1>4, <1>5, <1>6, <1>7, <1>8 DEF r

\* A task is only in an order, and there is only one order: without it there is none.
LEMMA NoOrderNoTask ==
    ASSUME NEW q \in Seq(Messages), TasksInOrders(q), ~Some(q, Orders)
    PROVE  ~HasNothing(q) /\ \A t : t # None => ~Carries(q, t)
BY DEF TasksInOrders, Some, Orders, HasNothing, Carries, DoTask

\* The messages there are
LEMMA MessagesTyped ==
    /\ \A type \in Types : Msg(type) \in Messages /\ Msg(type).type = type /\ Msg(type).task = None
                              /\ (type # "DoTask" => Msg(type) # DoTask(None))
    /\ \A t \in Tasks : DoTask(t) \in Messages /\ DoTask(t).type = "DoTask" /\ DoTask(t).task = t
                          /\ (t # None => DoTask(t) # DoTask(None))
    /\ None \in Tasks
BY DEF Msg, DoTask, Messages, Tasks, Types

\* The two ways a mailbox changes, in an array of them
LEMMA PoppedAt ==
    ASSUME NEW S, NEW c \in [S -> Seq(Messages)], NEW k \in S, c[k] # <<>>
    PROVE  /\ Popped(c, k) \in [S -> Seq(Messages)]
           /\ \A j \in S : Popped(c, k)[j] = IF j = k THEN Tail(c[k]) ELSE c[j]
<1>1. Tail(c[k]) \in Seq(Messages)
  OBVIOUS
<1> QED
  BY <1>1 DEF Popped
LEMMA SentAt ==
    ASSUME NEW S, NEW c \in [S -> Seq(Messages)], NEW k \in S, NEW m \in Messages
    PROVE  /\ Sent(c, k, m) \in [S -> Seq(Messages)]
           /\ \A j \in S : Sent(c, k, m)[j] = IF j = k THEN Append(c[k], m) ELSE c[j]
<1>1. Append(c[k], m) \in Seq(Messages)
  OBVIOUS
<1> QED
  BY <1>1 DEF Sent

\* Which types of message are which
LEMMA TypesApart ==
    /\ "StartTaskLoop" \in Orders /\ "DoTask" \in Orders
    /\ \A type \in Orders : type \notin Failure /\ type \notin Exit
    /\ "ReadyForWork" \in Questions /\ "WorkerIdle" \in Questions /\ "WorkerIdle" \in Idleness
    /\ \A type \in Questions : type \notin Failure
    /\ \A type : type \in Idleness <=> type = "WorkerIdle"
    /\ \A type : type \in Failure <=> type = "BenchmarkFailure"
    /\ \A type : type \in Exit <=> type = "ActorExitRequest"
    /\ \A type : type \in Begin <=> type = "PrepareWorkload"
    /\ \A type : type \in Ready <=> type = "WorkloadPrepared"
BY DEF Orders, Questions, Idleness, Failure, Exit, Begin, Ready

\* What is true of all mailboxes
MailOK ==
    /\ toExecutor \in [Executors -> Seq(Messages)] /\ toPreparator \in [Executors -> Seq(Messages)]
    /\ fromCoordinator \in [Hosts -> Seq(Messages)] /\ toCoordinator \in [Hosts -> Seq(Messages)]
    /\ \A e \in Executors : /\ Single(toExecutor[e], Orders) /\ Single(toPreparator[e], Questions)
                             /\ TasksInOrders(toExecutor[e])
    /\ \A h \in Hosts : Single(fromCoordinator[h], Begin) /\ Single(toCoordinator[h], Ready)

\* The messages to an executor and what they say
SameOrders(f) ==
    /\ toExecutor'[f] \in Seq(Messages) /\ Single(toExecutor'[f], Orders) /\ TasksInOrders(toExecutor'[f])
    /\ Told(f)' <=> Told(f)
    /\ HasNothing(toExecutor'[f]) <=> HasNothing(toExecutor[f])
    /\ \A t \in Tasks \ {None} : Given(f, t)' <=> Given(f, t)

\* e's order is taken from its mailbox.
TakesOrder(e) ==
    /\ toExecutor' \in [Executors -> Seq(Messages)]
    /\ \A f \in Executors \ {e} : toExecutor'[f] = toExecutor[f]
    /\ Single(toExecutor'[e], Orders) /\ TasksInOrders(toExecutor'[e])
    /\ Told(e) /\ ~Told(e)' /\ ~HasNothing(toExecutor'[e])
    /\ \A t \in Tasks \ {None} : ~Given(e, t)' /\ (Given(e, t) <=> t = Head(toExecutor[e]).task)
    /\ HasNothing(toExecutor[e]) <=> Head(toExecutor[e]) = DoTask(None)
    /\ Head(toExecutor[e]) \in Messages
    /\ Head(toExecutor[e]).task # None => Head(toExecutor[e]).type = "DoTask"
    /\ Some(toExecutor'[e], Failure) <=> Some(toExecutor[e], Failure)
    /\ Some(toExecutor'[e], Exit) <=> Some(toExecutor[e], Exit)

LEMMA OrderTaken ==
    ASSUME MailOK, NEW e \in Executors, toExecutor[e] # <<>>, Head(toExecutor[e]).type \in Orders,
           toExecutor' = Popped(toExecutor, e)
    PROVE  TakesOrder(e)
<1> DEFINE q == toExecutor[e]
<1>0. toExecutor \in [Executors -> Seq(Messages)]
  BY DEF MailOK
<1>1. q \in Seq(Messages) /\ Single(q, Orders) /\ TasksInOrders(q)
  BY DEF MailOK
<1>2. toExecutor' \in [Executors -> Seq(Messages)] /\ \A j \in Executors : toExecutor'[j] = IF j = e THEN Tail(q) ELSE toExecutor[j]
  BY <1>0, PoppedAt
<1>3. Tail(q) \in Seq(Messages) /\ Head(q) \in Messages /\ Single(Tail(q), Orders) /\ TasksInOrders(Tail(q))
        /\ ~Some(Tail(q), Orders) /\ Some(q, Orders) /\ (Head(q).task # None => Head(q).type = "DoTask")
  BY <1>1, Handled
<1>4. ~HasNothing(Tail(q)) /\ \A t : t # None => ~Carries(Tail(q), t)
  BY <1>3, NoOrderNoTask
<1>5. Some(Tail(q), Failure) <=> Some(q, Failure)
  BY <1>1, Handled, TypesApart
<1>6. Some(Tail(q), Exit) <=> Some(q, Exit)
  BY <1>1, Handled, TypesApart
<1>7. /\ \A t : t # None => (Carries(q, t) <=> t = Head(q).task)
      /\ HasNothing(q) <=> Head(q) = DoTask(None)
  BY <1>1, <1>4, Handled
<1> HIDE DEF q
<1> QED
  BY <1>2, <1>3, <1>4, <1>5, <1>6, <1>7 DEF q, Told, Given, TakesOrder

\* Another message is taken from it.
TakesOther(e) ==
    /\ toExecutor' \in [Executors -> Seq(Messages)]
    /\ \A f \in Executors \ {e} : toExecutor'[f] = toExecutor[f]
    /\ SameOrders(e)
    /\ Some(toExecutor'[e], Failure) => Some(toExecutor[e], Failure)
    /\ Some(toExecutor'[e], Exit) => Some(toExecutor[e], Exit)
    /\ Head(toExecutor[e]).type \in Failure => Some(toExecutor[e], Failure)
    /\ Head(toExecutor[e]).type \in Exit => Some(toExecutor[e], Exit)

LEMMA OtherTaken ==
    ASSUME MailOK, NEW e \in Executors, toExecutor[e] # <<>>, Head(toExecutor[e]).type \notin Orders,
           toExecutor' = Popped(toExecutor, e)
    PROVE  TakesOther(e)
<1> DEFINE q == toExecutor[e]
<1>0. toExecutor \in [Executors -> Seq(Messages)]
  BY DEF MailOK
<1>1. q \in Seq(Messages) /\ Single(q, Orders) /\ TasksInOrders(q)
  BY DEF MailOK
<1>2. toExecutor' \in [Executors -> Seq(Messages)] /\ \A j \in Executors : toExecutor'[j] = IF j = e THEN Tail(q) ELSE toExecutor[j]
  BY <1>0, PoppedAt
<1>3. Tail(q) \in Seq(Messages) /\ Head(q) \in Messages /\ Single(Tail(q), Orders) /\ TasksInOrders(Tail(q))
        /\ (Some(Tail(q), Orders) <=> Some(q, Orders)) /\ (Head(q).task # None => Head(q).type = "DoTask")
  BY <1>1, Handled
<1>4. Head(q).type # "DoTask" /\ Head(q).task = None /\ Head(q) # DoTask(None)
  BY <1>3, TypesApart DEF DoTask
<1>5. (HasNothing(Tail(q)) <=> HasNothing(q)) /\ \A t \in Tasks \ {None} : Carries(Tail(q), t) <=> Carries(q, t)
  BY <1>1, <1>4, Handled
<1>6. Some(q, Failure) <=> Some(Tail(q), Failure) \/ Head(q).type \in Failure
  BY <1>1, Handled
<1>7. Some(q, Exit) <=> Some(Tail(q), Exit) \/ Head(q).type \in Exit
  BY <1>1, Handled
<1> HIDE DEF q
<1> QED
  BY <1>2, <1>3, <1>5, <1>6, <1>7 DEF q, Told, Given, SameOrders, TakesOther

\* An order is added to a mailbox without one.
LEMMA OrderPushed ==
    ASSUME NEW q \in Seq(Messages), TasksInOrders(q), NEW m \in Messages, m.type \in Orders, ~Some(q, Orders),
           m.task # None => m.type = "DoTask"
    PROVE  /\ Append(q, m) \in Seq(Messages)
           /\ Single(Append(q, m), Orders) /\ TasksInOrders(Append(q, m)) /\ Some(Append(q, m), Orders)
           /\ HasNothing(Append(q, m)) <=> m = DoTask(None)
           /\ \A t \in Tasks \ {None} : Carries(Append(q, m), t) <=> m.task = t
           /\ Some(Append(q, m), Failure) <=> Some(q, Failure)
           /\ Some(Append(q, m), Exit) <=> Some(q, Exit)
<1>1. Single(q, Orders)
  BY DEF Single, Some
<1>2. ~HasNothing(q) /\ \A t : t # None => ~Carries(q, t)
  BY NoOrderNoTask
<1>3. Some(Append(q, m), Failure) <=> Some(q, Failure)
  BY Pushed, TypesApart
<1>4. Some(Append(q, m), Exit) <=> Some(q, Exit)
  BY Pushed, TypesApart
<1> QED
  BY <1>1, <1>2, <1>3, <1>4, Pushed

\* Another message is added.
LEMMA OtherPushed ==
    ASSUME NEW q \in Seq(Messages), TasksInOrders(q), Single(q, Orders), NEW m \in Messages,
           m.type \notin Orders, m.task = None
    PROVE  /\ Append(q, m) \in Seq(Messages)
           /\ Single(Append(q, m), Orders) /\ TasksInOrders(Append(q, m))
           /\ Some(Append(q, m), Orders) <=> Some(q, Orders)
           /\ HasNothing(Append(q, m)) <=> HasNothing(q)
           /\ \A t \in Tasks \ {None} : Carries(Append(q, m), t) <=> Carries(q, t)
           /\ Some(Append(q, m), Failure) <=> Some(q, Failure) \/ m.type \in Failure
           /\ Some(Append(q, m), Exit) <=> Some(q, Exit) \/ m.type \in Exit
<1>1. m # DoTask(None)
  BY TypesApart DEF DoTask
<1>2. Single(Append(q, m), Orders) /\ TasksInOrders(Append(q, m))
  BY Pushed
<1> QED
  BY <1>1, <1>2, Pushed

\* e's question is taken from its preparator's mailbox.
TakesQuestion(e) ==
    /\ toPreparator' \in [Executors -> Seq(Messages)]
    /\ \A f \in Executors \ {e} : toPreparator'[f] = toPreparator[f]
    /\ Single(toPreparator'[e], Questions)
    /\ Asks(e) /\ ~Asks(e)'
    /\ Some(toPreparator[e], Idleness) <=> Head(toPreparator[e]).type = "WorkerIdle"
    /\ ~Some(toPreparator'[e], Idleness)
    /\ Some(toPreparator'[e], Failure) <=> Some(toPreparator[e], Failure)

LEMMA QuestionTaken ==
    ASSUME MailOK, NEW e \in Executors, toPreparator[e] # <<>>, Head(toPreparator[e]).type \in Questions,
           toPreparator' = Popped(toPreparator, e)
    PROVE  TakesQuestion(e)
<1> DEFINE q == toPreparator[e]
<1>0. toPreparator \in [Executors -> Seq(Messages)]
  BY DEF MailOK
<1>1. q \in Seq(Messages) /\ Single(q, Questions)
  BY DEF MailOK
<1>2. toPreparator' \in [Executors -> Seq(Messages)]
        /\ \A j \in Executors : toPreparator'[j] = IF j = e THEN Tail(q) ELSE toPreparator[j]
  BY <1>0, PoppedAt
<1>3. Single(Tail(q), Questions) /\ ~Some(Tail(q), Questions) /\ Some(q, Questions)
  BY <1>1, Handled
<1>4. ~Some(Tail(q), Idleness)
  BY <1>3 DEF Some, Questions, Idleness
<1>5. Some(q, Idleness) <=> Head(q).type = "WorkerIdle"
  BY <1>1, <1>4, Handled, TypesApart
<1>6. Some(Tail(q), Failure) <=> Some(q, Failure)
  BY <1>1, Handled, TypesApart
<1> HIDE DEF q
<1> QED
  BY <1>2, <1>3, <1>4, <1>5, <1>6 DEF q, Asks, TakesQuestion

\* e asks.
Asked(e, type) ==
    /\ toPreparator' \in [Executors -> Seq(Messages)]
    /\ \A f \in Executors \ {e} : toPreparator'[f] = toPreparator[f]
    /\ Single(toPreparator'[e], Questions)
    /\ Asks(e)'
    /\ Some(toPreparator'[e], Idleness) <=> type = "WorkerIdle"
    /\ Some(toPreparator'[e], Failure) <=> Some(toPreparator[e], Failure)

LEMMA QuestionSent ==
    ASSUME MailOK, NEW e \in Executors, NEW type \in Questions, ~Asks(e),
           toPreparator' = Sent(toPreparator, e, Msg(type))
    PROVE  Asked(e, type)
<1> DEFINE q == toPreparator[e]
           m == Msg(type)
<1>0. toPreparator \in [Executors -> Seq(Messages)]
  BY DEF MailOK
<1>1. q \in Seq(Messages) /\ Single(q, Questions) /\ ~Some(q, Questions)
  BY DEF MailOK, Asks
<1>2. m \in Messages /\ m.type = type
  BY MessagesTyped DEF Questions, Types
<1>3. toPreparator' \in [Executors -> Seq(Messages)]
        /\ \A j \in Executors : toPreparator'[j] = IF j = e THEN Append(q, m) ELSE toPreparator[j]
  BY <1>0, <1>2, SentAt
<1>4. ~Some(q, Idleness)
  BY <1>1 DEF Some, Questions, Idleness
<1> HIDE DEF q, m
<1>5. Single(Append(q, m), Questions) /\ Some(Append(q, m), Questions)
  BY <1>1, <1>2, Pushed
<1>6. Some(Append(q, m), Idleness) <=> type = "WorkerIdle"
  BY <1>1, <1>2, <1>4, Pushed, TypesApart
<1>7. Some(Append(q, m), Failure) <=> Some(q, Failure)
  BY <1>1, <1>2, Pushed, TypesApart
<1> QED
  BY <1>3, <1>5, <1>6, <1>7 DEF q, Asks, Asked

\* e's failure is taken from the mailbox.
TakesFailure(e) ==
    /\ toPreparator' \in [Executors -> Seq(Messages)]
    /\ \A f \in Executors \ {e} : toPreparator'[f] = toPreparator[f]
    /\ Single(toPreparator'[e], Questions)
    /\ Asks(e)' <=> Asks(e)
    /\ Some(toPreparator'[e], Idleness) <=> Some(toPreparator[e], Idleness)
    /\ Some(toPreparator[e], Failure)

LEMMA FailureTaken ==
    ASSUME MailOK, NEW e \in Executors, toPreparator[e] # <<>>, Head(toPreparator[e]).type = "BenchmarkFailure",
           toPreparator' = Popped(toPreparator, e)
    PROVE  TakesFailure(e)
<1> DEFINE q == toPreparator[e]
<1>0. toPreparator \in [Executors -> Seq(Messages)]
  BY DEF MailOK
<1>1. q \in Seq(Messages) /\ Single(q, Questions) /\ Head(q).type \notin Questions
  BY DEF MailOK, Questions
<1>2. toPreparator' \in [Executors -> Seq(Messages)]
        /\ \A j \in Executors : toPreparator'[j] = IF j = e THEN Tail(q) ELSE toPreparator[j]
  BY <1>0, PoppedAt
<1>3. Single(Tail(q), Questions) /\ (Some(Tail(q), Questions) <=> Some(q, Questions))
  BY <1>1, Handled
<1>4. Some(Tail(q), Idleness) <=> Some(q, Idleness)
  BY <1>1, Handled, TypesApart
<1>5. Some(q, Failure)
  BY <1>1, Handled, TypesApart
<1> HIDE DEF q
<1> QED
  BY <1>2, <1>3, <1>4, <1>5 DEF q, Asks, TakesFailure

\* e sends a failure.
SendsFailure(e) ==
    /\ toPreparator' \in [Executors -> Seq(Messages)]
    /\ \A f \in Executors \ {e} : toPreparator'[f] = toPreparator[f]
    /\ Single(toPreparator'[e], Questions)
    /\ Asks(e)' <=> Asks(e)
    /\ Some(toPreparator'[e], Idleness) <=> Some(toPreparator[e], Idleness)

LEMMA FailureSent ==
    ASSUME MailOK, NEW e \in Executors, toPreparator' = Sent(toPreparator, e, Msg("BenchmarkFailure"))
    PROVE  SendsFailure(e)
<1> DEFINE q == toPreparator[e]
           m == Msg("BenchmarkFailure")
<1>0. toPreparator \in [Executors -> Seq(Messages)]
  BY DEF MailOK
<1>1. q \in Seq(Messages) /\ Single(q, Questions)
  BY DEF MailOK
<1>2. m \in Messages /\ m.type = "BenchmarkFailure" /\ m.type \notin Questions
  BY MessagesTyped DEF Questions, Types
<1>3. toPreparator' \in [Executors -> Seq(Messages)]
        /\ \A j \in Executors : toPreparator'[j] = IF j = e THEN Append(q, m) ELSE toPreparator[j]
  BY <1>0, <1>2, SentAt
<1> HIDE DEF q, m
<1>4. Single(Append(q, m), Questions) /\ (Some(Append(q, m), Questions) <=> Some(q, Questions))
  BY <1>1, <1>2, Pushed
<1>5. Some(Append(q, m), Idleness) <=> Some(q, Idleness)
  BY <1>1, <1>2, Pushed, TypesApart
<1> QED
  BY <1>3, <1>4, <1>5 DEF q, Asks, SendsFailure

\* e is sent order m.
SendsOrder(e, m) ==
    /\ toExecutor' \in [Executors -> Seq(Messages)]
    /\ \A f \in Executors \ {e} : toExecutor'[f] = toExecutor[f]
    /\ Single(toExecutor'[e], Orders) /\ TasksInOrders(toExecutor'[e]) /\ Told(e)'
    /\ HasNothing(toExecutor'[e]) <=> m = DoTask(None)
    /\ \A t \in Tasks \ {None} : ~Given(e, t) /\ (Given(e, t)' <=> m.task = t)
    /\ Some(toExecutor'[e], Failure) <=> Some(toExecutor[e], Failure)
    /\ Some(toExecutor'[e], Exit) <=> Some(toExecutor[e], Exit)

LEMMA OrderSent ==
    ASSUME MailOK, NEW e \in Executors, NEW m \in Messages, m.type \in Orders, ~Told(e),
           m.task # None => m.type = "DoTask", toExecutor' = Sent(toExecutor, e, m)
    PROVE  SendsOrder(e, m)
<1> DEFINE q == toExecutor[e]
<1>0. toExecutor \in [Executors -> Seq(Messages)]
  BY DEF MailOK
<1>1. q \in Seq(Messages) /\ TasksInOrders(q) /\ ~Some(q, Orders)
  BY DEF MailOK, Told
<1>2. toExecutor' \in [Executors -> Seq(Messages)] /\ \A j \in Executors : toExecutor'[j] = IF j = e THEN Append(q, m) ELSE toExecutor[j]
  BY <1>0, SentAt
<1>3. \A t : t # None => ~Carries(q, t)
  BY <1>1, NoOrderNoTask
<1> HIDE DEF q
<1>4. /\ Single(Append(q, m), Orders) /\ TasksInOrders(Append(q, m)) /\ Some(Append(q, m), Orders)
      /\ HasNothing(Append(q, m)) <=> m = DoTask(None)
      /\ \A t \in Tasks \ {None} : Carries(Append(q, m), t) <=> m.task = t
      /\ Some(Append(q, m), Failure) <=> Some(q, Failure)
      /\ Some(Append(q, m), Exit) <=> Some(q, Exit)
  BY <1>1, OrderPushed
<1> QED
  BY <1>2, <1>3, <1>4 DEF q, Told, Given, SendsOrder

\* The coordinator is sent a message by the preparator of h.
Tells(h, type) ==
    /\ toCoordinator' \in [Hosts -> Seq(Messages)]
    /\ \A g \in Hosts \ {h} : toCoordinator'[g] = toCoordinator[g]
    /\ \A g \in Hosts : Single(toCoordinator'[g], Ready)
    /\ Some(toCoordinator'[h], Ready) <=> Some(toCoordinator[h], Ready) \/ type = "WorkloadPrepared"
    /\ Some(toCoordinator'[h], Failure) <=> Some(toCoordinator[h], Failure) \/ type = "BenchmarkFailure"

LEMMA CoordinatorTold ==
    ASSUME MailOK, NEW h \in Hosts, NEW type \in {"BenchmarkFailure", "WorkloadPrepared"},
           toCoordinator' = Sent(toCoordinator, h, Msg(type)),
           type = "WorkloadPrepared" => ~Some(toCoordinator[h], Ready)
    PROVE  Tells(h, type)
<1> DEFINE q == toCoordinator[h]
           m == Msg(type)
<1>0. toCoordinator \in [Hosts -> Seq(Messages)] /\ \A g \in Hosts : Single(toCoordinator[g], Ready)
  BY DEF MailOK
<1>1. q \in Seq(Messages) /\ Single(q, Ready) /\ (type = "WorkloadPrepared" => ~Some(q, Ready))
  BY <1>0
<1>2. m \in Messages /\ m.type = type
  BY MessagesTyped DEF Types
<1>3. toCoordinator' \in [Hosts -> Seq(Messages)]
        /\ \A j \in Hosts : toCoordinator'[j] = IF j = h THEN Append(q, m) ELSE toCoordinator[j]
  BY <1>0, <1>2, SentAt
<1> HIDE DEF q, m
<1>4. (m.type \in Ready <=> type = "WorkloadPrepared") /\ (m.type \in Failure <=> type = "BenchmarkFailure")
  BY <1>2, TypesApart
<1>5. Single(Append(q, m), Ready)
  BY <1>1, <1>2, <1>4, Pushed
<1>6. Some(Append(q, m), Ready) <=> Some(q, Ready) \/ type = "WorkloadPrepared"
  BY <1>1, <1>2, <1>4, Pushed
<1>7. Some(Append(q, m), Failure) <=> Some(q, Failure) \/ type = "BenchmarkFailure"
  BY <1>1, <1>2, <1>4, Pushed
<1> QED
  BY <1>0, <1>3, <1>5, <1>6, <1>7 DEF q, Tells

-----------------------------------------------------------------------------
(* What a step leaves alone *)

LEMMA MailFits == ASSUME PreparationInv PROVE MailOK
BY DEF PreparationInv, PreparationTypeOK, OneTurn, TurnOf, RoundsCounted, RoundOf, HostsCounted, MailOK

\* A task of a processor
LEMMA TasksTyped ==
    ASSUME NEW h \in Hosts, NEW p \in 1 .. Processors, NEW t \in TasksOf(h, p)
    PROVE  /\ t \in Tasks \ {None} /\ t \in AllTasks(h)
           /\ t.processor = p /\ t.number \in Nat /\ t.number \in 1 .. TaskCount[h][p]
           /\ t = [processor |-> p, number |-> t.number]
<1>1. TaskCount[h][p] \in Nat
  BY ProcessorsAssumption
<1>2. PICK i \in 1 .. TaskCount[h][p] : t = [processor |-> p, number |-> i]
  BY DEF TasksOf
<1>3. t # None
  BY <1>2 DEF None
<1>4. t \in AllTasks(h)
  BY DEF AllTasks
<1>5. t \in Tasks
  BY <1>4 DEF Tasks
<1> QED
  BY <1>1, <1>2, <1>3, <1>4, <1>5

LEMMA RunsProcessor ==
    ASSUME PreparationInv, NEW h \in Hosts, status[h] = "PROCESSOR_RUNNING"
    PROVE  processor[h] \in 1 .. Processors /\ tasks[h] \in Nat /\ TaskCount[h][processor[h]] \in Nat
<1>1. processor[h] # 0
  BY DEF PreparationInv, RoundsCounted, RoundOf
<1>2. processor[h] \in 0 .. Processors /\ tasks[h] \in Nat
  BY DEF PreparationInv, PreparationTypeOK
<1> DEFINE p == processor[h]
<1>3. Processors \in Nat
  BY ProcessorsAssumption
<1>4. p \in 0 .. Processors /\ p # 0
  BY <1>1, <1>2
<1> HIDE DEF p
<1>5. p \in 1 .. Processors
  BY <1>3, <1>4
<1>6. TaskCount[h][p] \in Nat
  BY <1>5, ProcessorsAssumption
<1> QED
  BY <1>2, <1>5, <1>6 DEF p

\* The step is about executor e.
ElsewhereSame(e) ==
    \A f \in Executors \ {e} : /\ toExecutor'[f] = toExecutor[f] /\ toPreparator'[f] = toPreparator[f]
                                /\ future'[f] = future[f] /\ wakeup'[f] = wakeup[f]

LEMMA Elsewhere ==
    ASSUME NEW e, ElsewhereSame(e), NEW f \in Executors \ {e}
    PROVE  /\ Told(f)' <=> Told(f)
           /\ Asks(f)' <=> Asks(f)
           /\ Works(f)' <=> Works(f)
           /\ HasTurn(f)' <=> HasTurn(f)
           /\ Idles(f)' <=> Idles(f)
           /\ \A t : Given(f, t)' <=> Given(f, t)
<1>1. toExecutor'[f] = toExecutor[f] /\ toPreparator'[f] = toPreparator[f] /\ future'[f] = future[f]
  BY DEF ElsewhereSame
<1> QED
  BY <1>1 DEF Told, Asks, Works, HasTurn, Idles, Given

\* A host that neither begins nor ends a round stays stuck.
LEMMA StuckStays ==
    ASSUME NEW h \in Hosts, Stuck(h), status'[h] = status[h], fromCoordinator'[h] = fromCoordinator[h],
           responses'[h] = responses[h], Active(h)' = Active(h),
           \A e \in Children(h) : future[e].thread = "failed" => future'[e].thread = "failed"
    PROVE  Stuck(h)'
BY DEF Stuck

\* The coordinator's counting is about the same hosts.
LEMMA HostsSame ==
    ASSUME PreparationInv, prepared' = prepared, Unprepared' = Unprepared, Reporting' = Reporting,
           \A h \in Hosts : Single(toCoordinator'[h], Ready),
           \A h \in Hosts : Stuck(h) => Stuck(h)',
           failures' > 0 => failures > 0 \/ \E h \in Unprepared : Stuck(h)'
    PROVE  HostsCounted'
<1>1. Answers' = Answers
  BY DEF Answers
<1>2. HostsCounted
  BY DEF PreparationInv
<1>3. \A h \in Hosts : h \in Reporting' => h \notin Unprepared'
  BY <1>2 DEF HostsCounted
<1>4. Answers' <= Cardinality(Hosts)
  BY <1>1, <1>2 DEF HostsCounted
<1>5. Unprepared \subseteq Hosts
  BY DEF Unprepared
<1>6. failures' > 0 => Answers' < Cardinality(Hosts) \/ \E h \in Unprepared' : Stuck(h)'
  BY <1>1, <1>2, <1>5 DEF HostsCounted
<1> QED
  BY <1>3, <1>4, <1>6 DEF HostsCounted

\* The executors of a host are finitely many.
LEMMA ActiveCounted ==
    ASSUME NEW h \in Hosts
    PROVE  /\ IsFiniteSet(Children(h)) /\ IsFiniteSet(Active(h)) /\ Active(h) \subseteq Children(h)
           /\ Cardinality(Active(h)) \in Nat /\ Cardinality(Children(h)) \in Nat
<1>1. Children(h) \subseteq Executors /\ Active(h) \subseteq Children(h)
  BY DEF Children, Active
<1>2. IsFiniteSet(Children(h))
  BY <1>1, HostsAssumption, FS_Subset
<1>3. IsFiniteSet(Active(h))
  BY <1>1, <1>2, FS_Subset
<1> QED
  BY <1>1, <1>2, <1>3, FS_CardinalityType

\* The other executors have their turns as before.
LEMMA TurnsElsewhere ==
    ASSUME PreparationInv, NEW e \in Executors, ElsewhereSame(e), status' = status, TurnOf(e)'
    PROVE  OneTurn'
<1> SUFFICES ASSUME NEW f \in Executors \ {e} PROVE TurnOf(f)'
  BY DEF OneTurn
<1>1. TurnOf(f)
  BY DEF PreparationInv, OneTurn
<1>2. toExecutor'[f] = toExecutor[f] /\ toPreparator'[f] = toPreparator[f] /\ future'[f] = future[f] /\ wakeup'[f] = wakeup[f]
  BY DEF ElsewhereSame
<1>3. (Told(f)' <=> Told(f)) /\ (Asks(f)' <=> Asks(f)) /\ (Works(f)' <=> Works(f)) /\ (HasTurn(f)' <=> HasTurn(f))
  BY Elsewhere
<1> QED
  BY <1>1, <1>2, <1>3 DEF TurnOf

\* An executor passes its turn, or keeps it.
LEMMA TurnPasses ==
    ASSUME PreparationInv, NEW e \in Executors, ElsewhereSame(e), HasTurn(e)' <=> HasTurn(e), TurnOf(e)',
           UNCHANGED <<status, processor, responses, prepared, fromCoordinator>>,
           future[e].thread = "failed" => future'[e].thread = "failed",
           Reporting' = Reporting, \A h \in Hosts : Single(toCoordinator'[h], Ready),
           failures' > 0 => failures > 0 \/ future'[e].thread = "failed"
    PROVE  OneTurn' /\ RoundsCounted' /\ HostsCounted'
<1>1. \A f \in Executors : HasTurn(f)' <=> HasTurn(f)
  BY Elsewhere
<1>2. \A h \in Hosts : Active(h)' = Active(h)
  BY <1>1 DEF Active, Children
<1>3. OneTurn'
  BY TurnsElsewhere
<1>4. RoundsCounted'
  BY <1>2 DEF PreparationInv, RoundsCounted, RoundOf
<1>5. Unprepared' = Unprepared
  BY DEF Unprepared
<1>6. ASSUME NEW h \in Hosts, Stuck(h) PROVE Stuck(h)'
  <2>1. \A f \in Children(h) : future[f].thread = "failed" => future'[f].thread = "failed"
    BY DEF ElsewhereSame, Children
  <2> QED
    BY <1>2, <1>6, <2>1, StuckStays
<1>7. ASSUME future'[e].thread = "failed" PROVE \E h \in Unprepared : Stuck(h)'
  <2>1. HostOf[e] \in Hosts /\ e \in Children(HostOf[e])
    BY HostsAssumption DEF Children
  <2>2. HasTurn(e)'
    BY <1>7 DEF HasTurn, Works
  <2>3. status'[HostOf[e]] = "PROCESSOR_RUNNING"
    BY <2>2 DEF TurnOf
  <2>4. Stuck(HostOf[e])'
    BY <1>7, <2>1, <2>3 DEF Stuck
  <2> QED
    BY <2>1, <2>3, <2>4 DEF Unprepared
<1>8. HostsCounted'
  BY <1>5, <1>6, <1>7, HostsSame
<1> QED
  BY <1>3, <1>4, <1>8

\* An executor loses its turn: its host will never have all responses.
LEMMA TurnLost ==
    ASSUME PreparationInv, NEW e \in Executors, ElsewhereSame(e), HasTurn(e), ~HasTurn(e)', TurnOf(e)',
           UNCHANGED <<status, processor, responses, prepared, fromCoordinator>>,
           future'[e] = future[e], Reporting' = Reporting, \A h \in Hosts : Single(toCoordinator'[h], Ready)
    PROVE  OneTurn' /\ RoundsCounted' /\ HostsCounted'
<1> DEFINE h == HostOf[e]
<1>1. h \in Hosts /\ e \in Children(h) /\ status[h] = "PROCESSOR_RUNNING" /\ e \in Active(h)
  BY HostsAssumption DEF Children, PreparationInv, OneTurn, TurnOf, Active
<1>2. \A f \in Executors \ {e} : HasTurn(f)' <=> HasTurn(f)
  BY Elsewhere
<1>3. Active(h)' = Active(h) \ {e}
  BY <1>2 DEF Active, Children
<1>4. \A g \in Hosts \ {h} : Active(g)' = Active(g)
  BY <1>2 DEF Active, Children
<1>5. Cardinality(Active(h))' = Cardinality(Active(h)) - 1 /\ Cardinality(Active(h)) \in Nat /\ Cardinality(Children(h)) \in Nat
  BY <1>1, <1>3, ActiveCounted, FS_RemoveElement
<1>6. OneTurn'
  BY TurnsElsewhere
<1>7. \A g \in Hosts : RoundOf(g) /\ responses[g] \in Nat
  BY DEF PreparationInv, PreparationTypeOK, RoundsCounted
<1>8. responses'[h] + Cardinality(Active(h))' < Cardinality(Children(h))
  BY <1>1, <1>5, <1>7 DEF RoundOf
<1>9. RoundOf(h)'
  BY <1>1, <1>5, <1>7, <1>8 DEF RoundOf
<1>10. RoundsCounted'
  BY <1>4, <1>7, <1>9 DEF RoundsCounted, RoundOf
<1>11. Stuck(h)' /\ h \in Unprepared
  BY <1>1, <1>8 DEF Stuck, Unprepared
<1>12. ASSUME NEW g \in Hosts, Stuck(g) PROVE Stuck(g)'
  <2>1. CASE g = h
    BY <1>11, <2>1
  <2>2. CASE g # h
    <3>1. \A f \in Children(g) : future[f].thread = "failed" => future'[f].thread = "failed"
      BY DEF ElsewhereSame, Children
    <3> QED
      BY <1>4, <1>12, <2>2, <3>1, StuckStays
  <2> QED
    BY <2>1, <2>2
<1>13. Unprepared' = Unprepared
  BY DEF Unprepared
<1>14. HostsCounted'
  BY <1>11, <1>12, <1>13, HostsSame
<1> QED
  BY <1>6, <1>10, <1>14

\* The tasks of the other hosts and executors are where they were.
LEMMA TasksElsewhere ==
    ASSUME PreparationInv, NEW h \in Hosts,
           \A g \in Hosts \ {h} : /\ status'[g] = status[g] /\ processor'[g] = processor[g] /\ tasks'[g] = tasks[g]
                                  /\ responses'[g] = responses[g] /\ executed'[g] = executed[g],
           \A f \in Executors \ Children(h) :
               toExecutor'[f] = toExecutor[f] /\ toPreparator'[f] = toPreparator[f] /\ future'[f] = future[f],
           failures' = 0 => failures = 0,
           \A f \in Children(h) : Current(f)', TasksInOrder(h)'
    PROVE  TasksInv'
<1>1. TasksInv
  BY DEF PreparationInv
<1>2. ASSUME NEW f \in Executors \ Children(h) PROVE Current(f)'
  <2>1. HostOf[f] \in Hosts \ {h}
    BY HostsAssumption DEF Children
  <2>2. Current(f)
    BY <1>1 DEF TasksInv
  <2>3. \A t : Given(f, t)' <=> Given(f, t)
    BY DEF Given
  <2> QED
    BY <2>1, <2>2, <2>3 DEF Current
<1>3. ASSUME NEW g \in Hosts \ {h} PROVE TasksInOrder(g)'
  <2>1. TasksInOrder(g)
    BY <1>1 DEF TasksInv
  <2>2. \A f \in Children(g) : f \in Executors \ Children(h)
    BY DEF Children
  <2>3. \A f \in Children(g) : Idles(f)' <=> Idles(f)
    BY <2>2 DEF Idles
  <2>4. NothingLeft(g)' <=> NothingLeft(g)
    BY <2>3 DEF NothingLeft
  <2>5. \A t \in TasksOf(g, processor[g]) : \A f \in Children(g) :
            (Given(f, t)' <=> Given(f, t)) /\ future'[f] = future[f]
    BY <2>2 DEF Given
  <2>6. TaskPlaces(g) => TaskPlaces(g)'
    BY <2>5 DEF TaskPlaces, Placed
  <2> QED
    BY <2>1, <2>4, <2>6 DEF TasksInOrder
<1> QED
  BY <1>2, <1>3 DEF TasksInv

\* So are the tasks of its own host when the step moves none.
LEMMA TasksStay ==
    ASSUME PreparationInv, NEW e \in Executors, ElsewhereSame(e),
           UNCHANGED <<status, processor, tasks, responses, executed>>,
           failures' = 0 => failures = 0,
           \A t \in Tasks \ {None} : Given(e, t)' <=> Given(e, t),
           future'[e].task = future[e].task, future'[e].thread = "done" <=> future[e].thread = "done",
           Idles(e)' => Idles(e)
    PROVE  TasksInv'
<1> DEFINE h == HostOf[e]
<1>1. h \in Hosts /\ e \in Children(h)
  BY HostsAssumption DEF Children
<1>2. TasksInv
  BY DEF PreparationInv
<1>3. \A f \in Executors : \A t \in Tasks \ {None} : Given(f, t)' <=> Given(f, t)
  BY Elsewhere
<1>4. \A f \in Executors : future'[f].task = future[f].task /\ (future'[f].thread = "done" <=> future[f].thread = "done")
  BY DEF ElsewhereSame
<1>5. \A f \in Executors : Idles(f)' => Idles(f)
  BY Elsewhere
<1>6. ASSUME NEW f \in Children(h) PROVE Current(f)'
  <2>1. Current(f) /\ f \in Executors
    BY <1>2 DEF TasksInv, Children
  <2> QED
    BY <1>3, <1>4, <2>1 DEF Current
<1>7. NothingLeft(h)' => NothingLeft(h)
  BY <1>5 DEF NothingLeft, Children
<1>9. ASSUME status[h] = "PROCESSOR_RUNNING", TaskPlaces(h) PROVE TaskPlaces(h)'
  <2>1. processor[h] \in 1 .. Processors
    BY <1>1, <1>9, RunsProcessor
  <2>2. ASSUME NEW t \in TasksOf(h, processor[h]), NEW f \in Children(h)
        PROVE  (Given(f, t)' <=> Given(f, t)) /\ future'[f].task = future[f].task
                 /\ (future'[f].thread = "done" <=> future[f].thread = "done")
    <3>1. t \in Tasks \ {None} /\ f \in Executors
      BY <1>1, <2>1, TasksTyped DEF Children
    <3> QED
      BY <1>3, <1>4, <3>1
  <2>3. \A t \in TasksOf(h, processor[h]) : \A f \in Children(h) :
            (Given(f, t)' <=> Given(f, t)) /\ future'[f].task = future[f].task
              /\ (future'[f].thread = "done" <=> future[f].thread = "done")
    BY <2>2
  <2>4. processor'[h] = processor[h] /\ tasks'[h] = tasks[h] /\ executed'[h] = executed[h]
    OBVIOUS
  <2> HIDE DEF h
  <2>5. ASSUME NEW t \in TasksOf(h, processor[h]) PROVE Placed(h, t)'
    <3>1. Placed(h, t)
      BY <1>9 DEF TaskPlaces
    <3>2. \A f \in Children(h) :
            (Given(f, t)' <=> Given(f, t)) /\ future'[f].task = future[f].task
              /\ (future'[f].thread = "done" <=> future[f].thread = "done")
      BY <2>3
    <3> QED
      BY <2>4, <3>1, <3>2 DEF Placed
  <2> QED
    BY <2>4, <2>5 DEF TaskPlaces
<1>10. TasksInOrder(h)'
  BY <1>1, <1>2, <1>7, <1>9 DEF TasksInv, TasksInOrder
<1>11. \A f \in Executors \ Children(h) :
               toExecutor'[f] = toExecutor[f] /\ toPreparator'[f] = toPreparator[f] /\ future'[f] = future[f]
  BY <1>1 DEF ElsewhereSame
<1> QED
  BY <1>1, <1>6, <1>10, <1>11, TasksElsewhere

\* An executor's step moves a task of its host.
LEMMA TasksMove ==
    ASSUME PreparationInv, NEW e \in Executors, ElsewhereSame(e), NEW h \in Hosts, h = HostOf[e],
           UNCHANGED <<status, processor, responses>>, status[h] = "PROCESSOR_RUNNING",
           \A g \in Hosts \ {h} : tasks'[g] = tasks[g] /\ executed'[g] = executed[g],
           failures' = 0 => failures = 0, Current(e)',
           executed[h] \subseteq executed'[h], \A t \in executed'[h] : t \in executed[h] \/ t.processor = processor[h],
           tasks'[h] \in Nat, tasks'[h] <= tasks[h], Idles(e)' => tasks'[h] = 0,
           \A t \in TasksOf(h, processor[h]) : Placed(h, t)'
    PROVE  TasksInv'
<1>1. TasksInv /\ TasksInOrder(h)
  BY DEF PreparationInv, TasksInv
<1>2. processor[h] \in 1 .. Processors /\ tasks[h] \in Nat /\ TaskCount[h][processor[h]] \in Nat
  BY RunsProcessor
<1>3. \A f \in Executors \ {e} : Idles(f)' => Idles(f)
  BY Elsewhere
<1>4. NothingLeft(h)' => tasks'[h] = 0
  <2> SUFFICES ASSUME NothingLeft(h)', ~Idles(e)' PROVE tasks[h] = 0
    BY <1>2
  <2>1. NothingLeft(h)
    BY <1>3 DEF NothingLeft, Children
  <2> QED
    BY <1>1, <2>1 DEF TasksInOrder
<1>5. tasks'[h] <= TaskCount[h][processor[h]]
  BY <1>1, <1>2 DEF TasksInOrder
<1>6. TaskPlaces(h)'
  BY DEF TaskPlaces
<1>7. \A t \in executed'[h] : t.processor <= processor[h]
  BY <1>1, <1>2 DEF TasksInOrder
<1>8. TasksInOrder(h)'
  BY <1>1, <1>4, <1>5, <1>6, <1>7 DEF TasksInOrder
<1>9. ASSUME NEW f \in Children(h) \ {e} PROVE Current(f)'
  <2>1. f \in Executors \ {e} /\ Current(f)
    BY <1>1 DEF Children, TasksInv
  <2>2. (\A t : Given(f, t)' <=> Given(f, t)) /\ future'[f] = future[f]
    BY <2>1, Elsewhere DEF ElsewhereSame
  <2> QED
    BY <2>1, <2>2 DEF Current
<1>10. \A f \in Executors \ Children(h) :
            toExecutor'[f] = toExecutor[f] /\ toPreparator'[f] = toPreparator[f] /\ future'[f] = future[f]
  BY DEF ElsewhereSame, Children
<1>11. \A f \in Children(h) : Current(f)'
  BY <1>9
<1> QED
  BY <1>8, <1>10, <1>11, TasksElsewhere

\* No news but of failures
LEMMA NoNews ==
    ASSUME PreparationInv, NEW e \in Executors, ElsewhereSame(e), status' = status, reports' = reports,
           fromCoordinator' = fromCoordinator, failures' \in Nat, failures > 0 => failures' > 0,
           \A h \in Hosts : Some(toCoordinator'[h], Failure) => Some(toCoordinator[h], Failure) \/ failures' > 0,
           Some(toExecutor'[e], Failure) => Some(toExecutor[e], Failure) \/ failures' > 0,
           Some(toPreparator'[e], Failure) => Some(toPreparator[e], Failure) \/ failures' > 0,
           Some(toExecutor'[e], Exit) => Some(toExecutor[e], Exit),
           future'[e].thread = "failed" => future[e].thread = "failed" \/ failures' > 0,
           failures' > 0 => failures > 0 \/ HasTurn(e)
    PROVE  FailuresKnown' /\ ExitsKnown'
<1>1. FailuresKnown /\ ExitsKnown /\ TurnOf(e)
  BY DEF PreparationInv, OneTurn
<1>2. \A f \in Executors \ {e} : toExecutor'[f] = toExecutor[f] /\ toPreparator'[f] = toPreparator[f] /\ future'[f] = future[f]
  BY DEF ElsewhereSame
<1>3. FailuresKnown'
  BY <1>1, <1>2 DEF FailuresKnown
<1>4. failures \in Nat
  BY DEF PreparationInv, PreparationTypeOK
<1>5. Unprepared' = Unprepared
  BY DEF Unprepared
<1>6. HasTurn(e) => HostOf[e] \in Unprepared
  BY <1>1, HostsAssumption DEF TurnOf, Unprepared
<1>7. "PreparationComplete" \in reports => failures' = 0
  BY <1>1, <1>4, <1>6 DEF ExitsKnown
<1>8. ExitsKnown'
  BY <1>1, <1>2, <1>5, <1>7 DEF ExitsKnown
<1> QED
  BY <1>3, <1>8

-----------------------------------------------------------------------------
(* Every step keeps the invariant: the executors *)

LEMMA DoNothingKeeps ==
    ASSUME PreparationInv, NEW e \in Executors, DoNothing(e)
    PROVE  PreparationInv'
<1> USE DEF preparatorVars, executorVars, coordinatorVars, environmentVars
<1>0. MailOK /\ TurnOf(e) /\ PreparationTypeOK
  BY MailFits DEF PreparationInv, OneTurn
<1>1. toExecutor[e] # <<>> /\ Head(toExecutor[e]).type = "DoTask" /\ Head(toExecutor[e]).task = None
        /\ toExecutor' = Popped(toExecutor, e) /\ toPreparator' = Sent(toPreparator, e, Msg("WorkerIdle"))
        /\ UNCHANGED <<preparatorVars, executorVars, coordinatorVars, environmentVars, fromCoordinator, toCoordinator>>
  BY DEF DoNothing, Receives
<1>2. TakesOrder(e)
  BY <1>0, <1>1, OrderTaken, TypesApart
<1>3. ~Asks(e) /\ ~Works(e)
  BY <1>0, <1>2 DEF TurnOf, TakesOrder
<1>4. Asked(e, "WorkerIdle")
  BY <1>0, <1>1, <1>3, QuestionSent, TypesApart
<1>5. PreparationTypeOK'
  BY <1>0, <1>1, <1>2, <1>4 DEF PreparationTypeOK, TakesOrder, Asked
<1>6. ElsewhereSame(e)
  BY <1>1, <1>2, <1>4 DEF ElsewhereSame, TakesOrder, Asked
<1>7. ~Works(e)' /\ (HasTurn(e)' <=> HasTurn(e)) /\ HasTurn(e)
  BY <1>1, <1>2, <1>3, <1>4 DEF Works, HasTurn, TakesOrder, Asked
<1>8. TurnOf(e)'
  BY <1>0, <1>1, <1>2, <1>4, <1>7 DEF TurnOf, TakesOrder, Asked
<1>9. Reporting' = Reporting /\ \A h \in Hosts : Single(toCoordinator'[h], Ready)
  BY <1>0, <1>1 DEF Reporting, MailOK
<1>10. OneTurn' /\ RoundsCounted' /\ HostsCounted'
  BY <1>1, <1>6, <1>7, <1>8, <1>9, TurnPasses
<1>11. Idles(e)
  BY <1>1, <1>2 DEF Idles, DoTask, Messages, TakesOrder
<1>12. TasksInv'
  BY <1>1, <1>2, <1>6, <1>11, TasksStay DEF TakesOrder
<1>13. failures' \in Nat
  BY <1>5 DEF PreparationTypeOK
<1>14. FailuresKnown' /\ ExitsKnown'
  BY <1>1, <1>2, <1>4, <1>6, <1>7, <1>13, NoNews DEF TakesOrder, Asked
<1> QED
  BY <1>5, <1>10, <1>12, <1>14 DEF PreparationInv

LEMMA StartTaskLoopKeeps ==
    ASSUME PreparationInv, NEW e \in Executors, StartTaskLoop(e)
    PROVE  PreparationInv'
<1> USE DEF preparatorVars, executorVars, coordinatorVars, environmentVars
<1>0. MailOK /\ TurnOf(e) /\ PreparationTypeOK
  BY MailFits DEF PreparationInv, OneTurn
<1>1. toExecutor[e] # <<>> /\ Head(toExecutor[e]).type = "StartTaskLoop" /\ toExecutor' = Popped(toExecutor, e)
        /\ UNCHANGED <<preparatorVars, executorVars, coordinatorVars, fromCoordinator, toCoordinator>>
  BY DEF StartTaskLoop, Receives
<1>2. TakesOrder(e)
  BY <1>0, <1>1, OrderTaken, TypesApart
<1>3. ~Asks(e) /\ ~Works(e) /\ ~Works(e)' /\ HasTurn(e) /\ ~Told(e)'
  BY <1>0, <1>1, <1>2 DEF TurnOf, TakesOrder, HasTurn, Works
<1>4. Head(toExecutor[e]).task = None
  BY <1>1, <1>2 DEF TakesOrder
<1>5. \A t \in Tasks \ {None} : Given(e, t)' <=> Given(e, t)
  BY <1>2, <1>4 DEF TakesOrder
<1>6. Reporting' = Reporting /\ \A h \in Hosts : Single(toCoordinator'[h], Ready)
  BY <1>0, <1>1 DEF Reporting, MailOK
<1>7. CASE toPreparator' = Sent(toPreparator, e, Msg("ReadyForWork")) /\ UNCHANGED environmentVars
  <2>1. Asked(e, "ReadyForWork")
    BY <1>0, <1>3, <1>7, QuestionSent, TypesApart
  <2>2. PreparationTypeOK'
    BY <1>0, <1>1, <1>2, <1>7, <2>1 DEF PreparationTypeOK, TakesOrder, Asked
  <2>3. ElsewhereSame(e)
    BY <1>1, <1>2, <2>1 DEF ElsewhereSame, TakesOrder, Asked
  <2>4. HasTurn(e)' /\ Asks(e)'
    BY <2>1 DEF HasTurn, Asked
  <2>5. TurnOf(e)'
    BY <1>0, <1>1, <1>2, <1>3, <2>1, <2>4 DEF TurnOf, TakesOrder, Asked
  <2>6. OneTurn' /\ RoundsCounted' /\ HostsCounted'
    BY <1>1, <1>3, <1>6, <1>7, <2>3, <2>4, <2>5, TurnPasses
  <2>7. ~Idles(e)'
    BY <1>2, <2>1 DEF Idles, TakesOrder, Asked
  <2>8. TasksInv'
    BY <1>1, <1>5, <1>7, <2>3, <2>7, TasksStay
  <2>9. failures' \in Nat
    BY <2>2 DEF PreparationTypeOK
  <2>10. FailuresKnown' /\ ExitsKnown'
    BY <1>1, <1>2, <1>3, <1>7, <2>1, <2>3, <2>9, NoNews DEF TakesOrder, Asked
  <2> QED
    BY <2>2, <2>6, <2>8, <2>10 DEF PreparationInv
<1>8. CASE Raises /\ toPreparator' = Sent(toPreparator, e, Msg("BenchmarkFailure"))
  <2>1. SendsFailure(e)
    BY <1>0, <1>8, FailureSent
  <2>2. failures' = failures + 1 /\ failures \in Nat /\ failures' \in 0 .. MaxFailures /\ UNCHANGED <<exited, crashes>>
    BY <1>0, <1>8, ProcessorsAssumption DEF Raises, PreparationTypeOK
  <2>3. PreparationTypeOK'
    BY <1>0, <1>1, <1>2, <2>1, <2>2 DEF PreparationTypeOK, TakesOrder, SendsFailure
  <2>4. ElsewhereSame(e)
    BY <1>1, <1>2, <2>1 DEF ElsewhereSame, TakesOrder, SendsFailure
  <2>5. ~Asks(e)' /\ ~HasTurn(e)'
    BY <1>2, <1>3, <2>1 DEF HasTurn, TakesOrder, SendsFailure
  <2>6. TurnOf(e)'
    BY <1>0, <1>1, <1>2, <1>3, <2>1, <2>5 DEF TurnOf, TakesOrder, SendsFailure
  <2>7. OneTurn' /\ RoundsCounted' /\ HostsCounted'
    BY <1>1, <1>3, <1>6, <2>4, <2>5, <2>6, TurnLost
  <2>8. Idles(e)' => Idles(e)
    BY <1>2, <2>1 DEF Idles, TakesOrder, SendsFailure
  <2>9. TasksInv'
    BY <1>1, <1>5, <2>2, <2>4, <2>8, TasksStay
  <2>10. FailuresKnown' /\ ExitsKnown'
    BY <1>1, <1>2, <1>3, <2>1, <2>2, <2>4, NoNews DEF TakesOrder, SendsFailure
  <2> QED
    BY <2>3, <2>7, <2>9, <2>10 DEF PreparationInv
<1> QED
  BY <1>7, <1>8 DEF StartTaskLoop

LEMMA ExecutorExitsKeeps ==
    ASSUME PreparationInv, NEW e \in Executors, ExecutorExits(e)
    PROVE  PreparationInv'
<1> USE DEF preparatorVars, executorVars, coordinatorVars
<1>0. MailOK /\ TurnOf(e) /\ PreparationTypeOK
  BY MailFits DEF PreparationInv, OneTurn
<1>1. toExecutor[e] # <<>> /\ Head(toExecutor[e]).type = "ActorExitRequest" /\ toExecutor' = Popped(toExecutor, e)
        /\ exited' = exited \union {e}
        /\ UNCHANGED <<preparatorVars, executorVars, coordinatorVars, failures, crashes, fromCoordinator,
                       toCoordinator, toPreparator>>
  BY DEF ExecutorExits, Receives
<1>2. Head(toExecutor[e]).type \notin Orders
  BY <1>1, TypesApart
<1>3. TakesOther(e)
  BY <1>0, <1>1, <1>2, OtherTaken
<1>4. PreparationTypeOK'
  BY <1>0, <1>1, <1>3 DEF PreparationTypeOK, TakesOther
<1>5. ElsewhereSame(e)
  BY <1>1, <1>3 DEF ElsewhereSame, TakesOther
<1>6. (Told(e)' <=> Told(e)) /\ (Asks(e)' <=> Asks(e)) /\ (Works(e)' <=> Works(e)) /\ (HasTurn(e)' <=> HasTurn(e))
  BY <1>1, <1>3 DEF TakesOther, SameOrders, Asks, Works, HasTurn
<1>7. TurnOf(e)'
  BY <1>0, <1>1, <1>3, <1>6 DEF TurnOf, TakesOther, SameOrders
<1>8. Reporting' = Reporting /\ \A h \in Hosts : Single(toCoordinator'[h], Ready)
  BY <1>0, <1>1 DEF Reporting, MailOK
<1>9. OneTurn' /\ RoundsCounted' /\ HostsCounted'
  BY <1>1, <1>5, <1>6, <1>7, <1>8, TurnPasses
<1>10. Idles(e)' => Idles(e)
  BY <1>1, <1>3 DEF Idles, TakesOther, SameOrders
<1>11. \A t \in Tasks \ {None} : Given(e, t)' <=> Given(e, t)
  BY <1>3 DEF TakesOther, SameOrders
<1>12. TasksInv'
  BY <1>1, <1>5, <1>10, <1>11, TasksStay
<1>13. failures' \in Nat
  BY <1>4 DEF PreparationTypeOK
<1>14. FailuresKnown' /\ ExitsKnown'
  BY <1>1, <1>3, <1>5, <1>13, NoNews DEF TakesOther
<1> QED
  BY <1>4, <1>9, <1>12, <1>14 DEF PreparationInv

LEMMA ExecutorForwardsFailureKeeps ==
    ASSUME PreparationInv, NEW e \in Executors, ExecutorForwardsFailure(e)
    PROVE  PreparationInv'
<1> USE DEF preparatorVars, executorVars, coordinatorVars, environmentVars
<1>0. MailOK /\ TurnOf(e) /\ PreparationTypeOK /\ FailuresKnown
  BY MailFits DEF PreparationInv, OneTurn
<1>1. toExecutor[e] # <<>> /\ Head(toExecutor[e]).type = "BenchmarkFailure" /\ toExecutor' = Popped(toExecutor, e)
        /\ toPreparator' = Sent(toPreparator, e, Msg("BenchmarkFailure"))
        /\ UNCHANGED <<preparatorVars, executorVars, coordinatorVars, environmentVars, fromCoordinator, toCoordinator>>
  BY DEF ExecutorForwardsFailure, Receives
<1>2. Head(toExecutor[e]).type \notin Orders /\ Head(toExecutor[e]).type \in Failure
  BY <1>1, TypesApart
<1>3. TakesOther(e) /\ SendsFailure(e)
  BY <1>0, <1>1, <1>2, OtherTaken, FailureSent
<1>4. PreparationTypeOK'
  BY <1>0, <1>1, <1>3 DEF PreparationTypeOK, TakesOther, SendsFailure
<1>5. ElsewhereSame(e)
  BY <1>1, <1>3 DEF ElsewhereSame, TakesOther, SendsFailure
<1>6. (Told(e)' <=> Told(e)) /\ (Asks(e)' <=> Asks(e)) /\ (Works(e)' <=> Works(e)) /\ (HasTurn(e)' <=> HasTurn(e))
  BY <1>1, <1>3 DEF TakesOther, SameOrders, SendsFailure, Works, HasTurn
<1>7. TurnOf(e)'
  BY <1>0, <1>1, <1>3, <1>6 DEF TurnOf, TakesOther, SameOrders, SendsFailure
<1>8. Reporting' = Reporting /\ \A h \in Hosts : Single(toCoordinator'[h], Ready)
  BY <1>0, <1>1 DEF Reporting, MailOK
<1>9. OneTurn' /\ RoundsCounted' /\ HostsCounted'
  BY <1>1, <1>5, <1>6, <1>7, <1>8, TurnPasses
<1>10. Idles(e)' => Idles(e)
  BY <1>3 DEF Idles, TakesOther, SameOrders, SendsFailure
<1>11. \A t \in Tasks \ {None} : Given(e, t)' <=> Given(e, t)
  BY <1>3 DEF TakesOther, SameOrders
<1>12. TasksInv'
  BY <1>1, <1>5, <1>10, <1>11, TasksStay
<1>13. failures' \in Nat /\ failures > 0
  BY <1>0, <1>2, <1>3, <1>4 DEF PreparationTypeOK, FailuresKnown, TakesOther
<1>14. FailuresKnown' /\ ExitsKnown'
  BY <1>1, <1>3, <1>5, <1>13, NoNews DEF TakesOther
<1> QED
  BY <1>4, <1>9, <1>12, <1>14 DEF PreparationInv

LEMMA WakeupFailedKeeps ==
    ASSUME PreparationInv, NEW e \in Executors, WakeupFailed(e)
    PROVE  PreparationInv'
<1> USE DEF preparatorVars, coordinatorVars, environmentVars
<1>0. MailOK /\ TurnOf(e) /\ PreparationTypeOK
  BY MailFits DEF PreparationInv, OneTurn
<1>1. future[e].thread = "failed" /\ wakeup' = [wakeup EXCEPT ![e] = FALSE]
        /\ toPreparator' = Sent(toPreparator, e, Msg("BenchmarkFailure"))
        /\ UNCHANGED <<preparatorVars, future, executed, coordinatorVars, environmentVars, fromCoordinator,
                       toCoordinator, toExecutor>>
  BY DEF WakeupFailed
<1>2. SendsFailure(e) /\ wakeup' \in [Executors -> BOOLEAN] /\ \A f \in Executors \ {e} : wakeup'[f] = wakeup[f]
  BY <1>0, <1>1, FailureSent DEF PreparationTypeOK
<1>3. wakeup'[e] = FALSE
  BY <1>0, <1>1 DEF PreparationTypeOK
<1>4. PreparationTypeOK'
  BY <1>0, <1>1, <1>2 DEF PreparationTypeOK, SendsFailure
<1>5. ElsewhereSame(e)
  BY <1>1, <1>2 DEF ElsewhereSame, SendsFailure
<1>6. (Told(e)' <=> Told(e)) /\ (Asks(e)' <=> Asks(e)) /\ (Works(e)' <=> Works(e)) /\ (HasTurn(e)' <=> HasTurn(e))
  BY <1>1, <1>2 DEF SendsFailure, Told, Works, HasTurn
<1>7. TurnOf(e)'
  BY <1>0, <1>1, <1>2, <1>3, <1>6 DEF TurnOf, SendsFailure
<1>8. Reporting' = Reporting /\ \A h \in Hosts : Single(toCoordinator'[h], Ready)
  BY <1>0, <1>1 DEF Reporting, MailOK
<1>9. OneTurn' /\ RoundsCounted' /\ HostsCounted'
  BY <1>1, <1>5, <1>6, <1>7, <1>8, TurnPasses
<1>10. Idles(e)' => Idles(e)
  BY <1>1, <1>2 DEF Idles, SendsFailure
<1>11. \A t \in Tasks \ {None} : Given(e, t)' <=> Given(e, t)
  BY <1>1 DEF Given
<1>12. TasksInv'
  BY <1>1, <1>5, <1>10, <1>11, TasksStay
<1>13. failures' \in Nat /\ failures > 0
  BY <1>0, <1>1, <1>4 DEF PreparationTypeOK, PreparationInv, FailuresKnown
<1>14. FailuresKnown' /\ ExitsKnown'
  BY <1>1, <1>5, <1>13, NoNews
<1> QED
  BY <1>4, <1>9, <1>12, <1>14 DEF PreparationInv

LEMMA TaskEndsKeeps ==
    ASSUME PreparationInv, NEW e \in Executors, TaskEnds(e)
    PROVE  PreparationInv'
<1> USE DEF preparatorVars, coordinatorVars, environmentVars
<1> DEFINE h == HostOf[e]
           t0 == future[e].task
<1>0. MailOK /\ TurnOf(e) /\ PreparationTypeOK
  BY MailFits DEF PreparationInv, OneTurn
<1>1. future[e].thread = "running"
        /\ UNCHANGED <<preparatorVars, wakeup, coordinatorVars, fromCoordinator, toCoordinator, toExecutor, toPreparator>>
  BY DEF TaskEnds
<1>2. PICK thread \in {"done", "failed"} :
          /\ future' = [future EXCEPT ![e].thread = thread]
          /\ thread = "done" => executed' = [executed EXCEPT ![h] = @ \union {t0}] /\ UNCHANGED environmentVars
          /\ thread = "failed" => Raises /\ executed' = executed
  BY DEF TaskEnds
<1>3. /\ future' \in [Executors -> [task : Tasks, thread : Threads]]
      /\ future'[e].task = t0 /\ future'[e].thread = thread /\ \A f \in Executors \ {e} : future'[f] = future[f]
  <2>1. future \in [Executors -> [task : Tasks, thread : Threads]] /\ thread \in Threads
    BY <1>0 DEF PreparationTypeOK, Threads
  <2>2. future' = [future EXCEPT ![e] = [@ EXCEPT !.thread = thread]]
    BY <1>2
  <2>3. future[e] \in [task : Tasks, thread : Threads]
    BY <2>1
  <2> DEFINE r == [future[e] EXCEPT !.thread = thread]
  <2>4. r \in [task : Tasks, thread : Threads] /\ r.task = t0 /\ r.thread = thread
    BY <2>1, <2>3
  <2>5. future' = [future EXCEPT ![e] = r]
    BY <2>2
  <2> HIDE DEF r
  <2> QED
    BY <2>1, <2>4, <2>5
<1>4. h \in Hosts /\ e \in Children(h) /\ Works(e) /\ HasTurn(e) /\ Works(e)' /\ status[h] = "PROCESSOR_RUNNING"
        /\ t0 # None
  BY <1>0, <1>1, <1>3, HostsAssumption DEF Works, HasTurn, TurnOf, Children
<1>5. t0 \in TasksOf(h, processor[h])
  BY <1>4 DEF PreparationInv, TasksInv, Current
<1>6. processor[h] \in 1 .. Processors
  BY <1>4, RunsProcessor
<1>7. t0 \in Tasks /\ t0 \in AllTasks(h) /\ t0.processor = processor[h]
  BY <1>4, <1>5, <1>6, TasksTyped
<1>8. ElsewhereSame(e)
  BY <1>1, <1>3 DEF ElsewhereSame
<1>9. (Told(e)' <=> Told(e)) /\ (Asks(e)' <=> Asks(e)) /\ HasTurn(e)' /\ (Idles(e)' <=> Idles(e))
  BY <1>1, <1>4 DEF Told, Asks, HasTurn, Idles
<1>10. TurnOf(e)'
  BY <1>0, <1>1, <1>2, <1>3, <1>4, <1>9 DEF TurnOf
<1>11. Reporting' = Reporting /\ \A g \in Hosts : Single(toCoordinator'[g], Ready)
  BY <1>0, <1>1 DEF Reporting, MailOK
<1>12. \A t : Given(e, t)' <=> Given(e, t)
  BY <1>1 DEF Given
<1>13. CASE thread = "failed"
  <2>1. failures' = failures + 1 /\ failures \in Nat /\ failures' \in 0 .. MaxFailures /\ UNCHANGED <<exited, crashes, executed>>
    BY <1>0, <1>2, <1>13, ProcessorsAssumption DEF Raises, PreparationTypeOK
  <2>2. PreparationTypeOK'
    BY <1>0, <1>1, <1>3, <2>1 DEF PreparationTypeOK
  <2>3. OneTurn' /\ RoundsCounted' /\ HostsCounted'
    BY <1>1, <1>3, <1>4, <1>8, <1>9, <1>10, <1>11, <1>13, TurnPasses
  <2>4. TasksInv'
    BY <1>1, <1>3, <1>8, <1>9, <1>12, <1>13, <2>1, TasksStay
  <2>5. FailuresKnown' /\ ExitsKnown'
    BY <1>1, <1>4, <1>8, <2>1, NoNews
  <2> QED
    BY <2>2, <2>3, <2>4, <2>5 DEF PreparationInv
<1>14. CASE thread = "done"
  <2>1. executed' = [executed EXCEPT ![h] = @ \union {t0}] /\ UNCHANGED environmentVars
    BY <1>2, <1>14
  <2>2. /\ executed' \in [Hosts -> SUBSET Tasks] /\ executed'[h] = executed[h] \union {t0}
        /\ \A g \in Hosts \ {h} : executed'[g] = executed[g]
    BY <1>0, <1>4, <1>7, <2>1 DEF PreparationTypeOK
  <2>3. \A g \in Hosts : executed'[g] \subseteq AllTasks(g)
    BY <1>0, <1>7, <2>2 DEF PreparationTypeOK
  <2>4. PreparationTypeOK'
    BY <1>0, <1>1, <1>3, <2>1, <2>2, <2>3 DEF PreparationTypeOK
  <2>5. OneTurn' /\ RoundsCounted' /\ HostsCounted'
    BY <1>1, <1>3, <1>4, <1>8, <1>9, <1>10, <1>11, <2>1, TurnPasses
  <2>6. ASSUME NEW t \in TasksOf(h, processor[h]) PROVE Placed(h, t)'
    <3>1. Placed(h, t)
      BY <1>4 DEF PreparationInv, TasksInv, TasksInOrder, TaskPlaces
    <3>2. \A f \in Children(h) : (Given(f, t)' <=> Given(f, t)) /\ future'[f].task = future[f].task
      BY <1>3, <1>12, <1>8, Elsewhere DEF Children
    <3>3. \A f \in Children(h) \ {e} : future'[f].thread = future[f].thread
      BY <1>3 DEF Children
    <3>4. tasks'[h] = tasks[h]
      BY <1>1
    <3>5. CASE t = t0
      <4>1. tasks[h] < t.number /\ t \in executed'[h] /\ future'[e].thread = "done"
        BY <1>3, <1>4, <1>14, <2>2, <3>1, <3>5 DEF Placed
      <4>2. ASSUME NEW f \in Children(h) PROVE ~Given(f, t) /\ (f # e => future[f].task # t)
        BY <1>4, <3>1, <3>5 DEF Placed
      <4>3. tasks[h] \in Nat /\ t.number \in Nat
        BY <1>0, <1>4, <1>6, TasksTyped DEF PreparationTypeOK
      <4> QED
        BY <3>2, <3>4, <4>1, <4>2, <4>3 DEF Placed
    <3>6. CASE t # t0
      BY <1>3, <2>2, <3>1, <3>2, <3>3, <3>4, <3>6 DEF Placed
    <3> QED
      BY <3>5, <3>6
  <2>7. Current(e)'
    BY <1>1, <1>3, <1>12 DEF PreparationInv, TasksInv, Current
  <2>8. tasks'[h] = tasks[h] /\ tasks[h] \in Nat /\ (Idles(e) => tasks[h] = 0)
    BY <1>0, <1>1, <1>4 DEF PreparationTypeOK, PreparationInv, TasksInv, TasksInOrder, NothingLeft
  <2>9. TasksInv'
    BY <1>1, <1>4, <1>7, <1>8, <1>9, <2>1, <2>2, <2>6, <2>7, <2>8, TasksMove
  <2>10. failures' \in Nat
    BY <2>4 DEF PreparationTypeOK
  <2>11. FailuresKnown' /\ ExitsKnown'
    BY <1>1, <1>3, <1>4, <1>8, <1>14, <2>1, <2>10, NoNews
  <2> QED
    BY <2>4, <2>5, <2>9, <2>11 DEF PreparationInv
<1> QED
  BY <1>13, <1>14

LEMMA SubmitTaskKeeps ==
    ASSUME PreparationInv, NEW e \in Executors, SubmitTask(e)
    PROVE  PreparationInv'
<1> USE DEF preparatorVars, coordinatorVars, environmentVars
<1> DEFINE h == HostOf[e]
           t0 == Head(toExecutor[e]).task
<1>0. MailOK /\ TurnOf(e) /\ PreparationTypeOK
  BY MailFits DEF PreparationInv, OneTurn
<1>1. toExecutor[e] # <<>> /\ Head(toExecutor[e]).type = "DoTask" /\ t0 # None
        /\ toExecutor' = Popped(toExecutor, e)
        /\ future' = [future EXCEPT ![e] = [task |-> t0, thread |-> "running"]]
        /\ wakeup' = [wakeup EXCEPT ![e] = TRUE]
        /\ UNCHANGED <<preparatorVars, executed, coordinatorVars, environmentVars, fromCoordinator,
                       toCoordinator, toPreparator>>
  BY DEF SubmitTask, Receives
<1>2. TakesOrder(e)
  BY <1>0, <1>1, OrderTaken, TypesApart
<1>3. t0 \in Tasks \ {None}
  BY <1>1, <1>2 DEF TakesOrder, Messages
<1>4. /\ future' \in [Executors -> [task : Tasks, thread : Threads]]
      /\ future'[e].task = t0 /\ future'[e].thread = "running" /\ \A f \in Executors \ {e} : future'[f] = future[f]
  <2>1. future \in [Executors -> [task : Tasks, thread : Threads]] /\ "running" \in Threads
    BY <1>0 DEF PreparationTypeOK, Threads
  <2> HIDE DEF t0
  <2> QED
    BY <1>1, <1>3, <2>1
<1>5. wakeup' \in [Executors -> BOOLEAN] /\ \A f \in Executors \ {e} : wakeup'[f] = wakeup[f]
  BY <1>0, <1>1 DEF PreparationTypeOK
<1>6. PreparationTypeOK'
  BY <1>0, <1>1, <1>2, <1>4, <1>5 DEF PreparationTypeOK, TakesOrder
<1>7. ElsewhereSame(e)
  BY <1>1, <1>2, <1>4, <1>5 DEF ElsewhereSame, TakesOrder
<1>8. Told(e) /\ HasTurn(e) /\ ~Asks(e) /\ ~Works(e) /\ future[e].task = None
  BY <1>0, <1>2 DEF TakesOrder, TurnOf, HasTurn, Works
<1>9. ~Told(e)' /\ ~Asks(e)' /\ Works(e)' /\ HasTurn(e)'
  BY <1>1, <1>2, <1>4, <1>8 DEF TakesOrder, Asks, Works, HasTurn
<1>10. h \in Hosts /\ e \in Children(h) /\ status[h] = "PROCESSOR_RUNNING"
  BY <1>0, <1>8, HostsAssumption DEF TurnOf, Children
<1>11. TurnOf(e)'
  BY <1>0, <1>1, <1>2, <1>3, <1>4, <1>8, <1>9 DEF TurnOf, TakesOrder
<1>12. Reporting' = Reporting /\ \A g \in Hosts : Single(toCoordinator'[g], Ready)
  BY <1>0, <1>1 DEF Reporting, MailOK
<1>13. future[e].thread # "failed"
  BY <1>8 DEF Works
<1>14. OneTurn' /\ RoundsCounted' /\ HostsCounted'
  BY <1>1, <1>7, <1>8, <1>9, <1>11, <1>12, <1>13, TurnPasses
<1>15. t0 \in TasksOf(h, processor[h])
  BY <1>2, <1>3 DEF TakesOrder, PreparationInv, TasksInv, Current
<1>16. processor[h] \in 1 .. Processors
  BY <1>10, RunsProcessor
<1>17. ASSUME NEW t \in TasksOf(h, processor[h]) PROVE Placed(h, t)'
  <2>1. Placed(h, t)
    BY <1>10 DEF PreparationInv, TasksInv, TasksInOrder, TaskPlaces
  <2>2. t \in Tasks \ {None} /\ t.number \in Nat /\ tasks[h] \in Nat
    BY <1>0, <1>10, <1>16, TasksTyped DEF PreparationTypeOK
  <2>3. \A f \in Children(h) \ {e} : (Given(f, t)' <=> Given(f, t)) /\ future'[f] = future[f]
    BY <1>4, <1>7, Elsewhere DEF Children
  <2>4. ~Given(e, t)' /\ (Given(e, t) <=> t = t0)
    BY <1>2, <2>2 DEF TakesOrder
  <2>5. tasks'[h] = tasks[h] /\ executed'[h] = executed[h]
    BY <1>1
  <2> HIDE DEF t0
  <2>6. CASE t = t0
    <3>1. tasks[h] < t.number /\ t \notin executed[h]
      BY <1>10, <2>1, <2>4, <2>6 DEF Placed
    <3>2. ASSUME NEW f \in Children(h) PROVE future[f].task # t /\ (f # e => ~Given(f, t))
      BY <1>10, <2>1, <2>4, <2>6 DEF Placed
    <3>3. \A f \in Children(h) : ~Given(f, t)' /\ (future'[f].task = t <=> f = e)
      BY <1>4, <2>3, <2>4, <2>6, <3>2
    <3> QED
      BY <1>4, <1>10, <2>2, <2>5, <2>6, <3>1, <3>3 DEF Placed
  <2>7. CASE t # t0
    <3>1. future'[e].task # t /\ future[e].task # t /\ ~Given(e, t)
      BY <1>4, <1>8, <2>2, <2>4, <2>7
    <3> QED
      BY <2>1, <2>3, <2>4, <2>5, <3>1 DEF Placed
  <2> QED
    BY <2>6, <2>7
<1>18. Current(e)'
  <2>1. \A t \in Tasks \ {None} : ~Given(e, t)'
    BY <1>2 DEF TakesOrder
  <2>2. processor'[h] = processor[h]
    BY <1>1
  <2> QED
    BY <1>4, <1>15, <2>1, <2>2 DEF Current
<1>19. tasks'[h] = tasks[h] /\ tasks[h] \in Nat /\ (Idles(e)' => tasks[h] = 0)
  <2>1. Idles(e)' => Idles(e)
    BY <1>1, <1>2 DEF Idles, TakesOrder
  <2> QED
    BY <1>0, <1>1, <1>10, <2>1 DEF PreparationTypeOK, PreparationInv, TasksInv, TasksInOrder, NothingLeft
<1>20. TasksInv'
  <2> HIDE DEF t0
  <2> QED
    BY <1>1, <1>7, <1>10, <1>17, <1>18, <1>19, TasksMove
<1>21. failures' \in Nat
  BY <1>6 DEF PreparationTypeOK
<1>22. FailuresKnown' /\ ExitsKnown'
  BY <1>1, <1>2, <1>4, <1>7, <1>21, NoNews DEF TakesOrder
<1> QED
  BY <1>6, <1>14, <1>20, <1>22 DEF PreparationInv

LEMMA WakeupDoneKeeps ==
    ASSUME PreparationInv, NEW e \in Executors, WakeupDone(e)
    PROVE  PreparationInv'
<1> USE DEF preparatorVars, coordinatorVars, environmentVars
<1> DEFINE h == HostOf[e]
           t0 == future[e].task
<1>0. MailOK /\ TurnOf(e) /\ PreparationTypeOK
  BY MailFits DEF PreparationInv, OneTurn
<1>1. future[e].thread = "done" /\ future' = [future EXCEPT ![e] = NoFuture]
        /\ wakeup' = [wakeup EXCEPT ![e] = FALSE]
        /\ toPreparator' = Sent(toPreparator, e, Msg("ReadyForWork"))
        /\ UNCHANGED <<preparatorVars, executed, coordinatorVars, environmentVars, fromCoordinator,
                       toCoordinator, toExecutor>>
  BY DEF WakeupDone
<1>2. /\ future' \in [Executors -> [task : Tasks, thread : Threads]]
      /\ future'[e].task = None /\ future'[e].thread = "none" /\ \A f \in Executors \ {e} : future'[f] = future[f]
  <2>1. future \in [Executors -> [task : Tasks, thread : Threads]]
    BY <1>0 DEF PreparationTypeOK
  <2>2. NoFuture \in [task : Tasks, thread : Threads] /\ NoFuture.task = None /\ NoFuture.thread = "none"
    BY DEF NoFuture, Tasks, Threads
  <2> QED
    BY <1>1, <2>1, <2>2
<1>3. wakeup' \in [Executors -> BOOLEAN] /\ wakeup'[e] = FALSE /\ \A f \in Executors \ {e} : wakeup'[f] = wakeup[f]
  BY <1>0, <1>1 DEF PreparationTypeOK
<1>4. Works(e) /\ HasTurn(e) /\ ~Asks(e) /\ ~Told(e) /\ t0 # None
  BY <1>0, <1>1 DEF TurnOf, HasTurn, Works
<1>5. Asked(e, "ReadyForWork")
  BY <1>0, <1>1, <1>4, QuestionSent, TypesApart
<1>6. PreparationTypeOK'
  BY <1>0, <1>1, <1>2, <1>3, <1>5 DEF PreparationTypeOK, Asked
<1>7. ElsewhereSame(e)
  BY <1>1, <1>2, <1>3, <1>5 DEF ElsewhereSame, Asked
<1>8. ~Told(e)' /\ Asks(e)' /\ ~Works(e)' /\ HasTurn(e)'
  BY <1>1, <1>2, <1>4, <1>5 DEF Told, Asked, Works, HasTurn
<1>9. h \in Hosts /\ e \in Children(h) /\ status[h] = "PROCESSOR_RUNNING"
  BY <1>0, <1>4, HostsAssumption DEF TurnOf, Children
<1>10. TurnOf(e)'
  BY <1>0, <1>1, <1>2, <1>3, <1>5, <1>8, <1>9 DEF TurnOf, Asked
<1>11. Reporting' = Reporting /\ \A g \in Hosts : Single(toCoordinator'[g], Ready)
  BY <1>0, <1>1 DEF Reporting, MailOK
<1>12. OneTurn' /\ RoundsCounted' /\ HostsCounted'
  BY <1>1, <1>4, <1>7, <1>8, <1>10, <1>11, TurnPasses
<1>13. processor[h] \in 1 .. Processors
  BY <1>9, RunsProcessor
<1>14. ASSUME NEW t \in TasksOf(h, processor[h]) PROVE Placed(h, t)'
  <2>1. Placed(h, t)
    BY <1>9 DEF PreparationInv, TasksInv, TasksInOrder, TaskPlaces
  <2>2. t \in Tasks \ {None}
    BY <1>9, <1>13, TasksTyped
  <2>3. \A f \in Children(h) \ {e} : (Given(f, t)' <=> Given(f, t)) /\ future'[f] = future[f]
    BY <1>2, <1>7, Elsewhere DEF Children
  <2>4. (Given(e, t)' <=> Given(e, t)) /\ future'[e].task # t
    BY <1>1, <1>2, <2>2 DEF Given
  <2>5. tasks'[h] = tasks[h] /\ executed'[h] = executed[h]
    BY <1>1
  <2>6. future[e].task = t => t \in executed[h]
    BY <1>1, <1>9, <2>1 DEF Placed
  <2>7. \A f \in Children(h) : (Given(f, t)' <=> Given(f, t)) /\ (future'[f].task = t => future[f].task = t /\ future'[f] = future[f])
    BY <2>3, <2>4
  <2>8. t.number <= tasks[h] \/ t \in executed[h] \/ \E f \in Children(h) : Given(f, t)' \/ future'[f].task = t
    BY <2>1, <2>3, <2>4, <2>6 DEF Placed
  <2> QED
    BY <2>1, <2>5, <2>7, <2>8 DEF Placed
<1>15. Current(e)'
  BY <1>1, <1>2 DEF PreparationInv, TasksInv, Current, Given
<1>16. tasks'[h] = tasks[h] /\ tasks[h] \in Nat /\ (Idles(e)' => tasks[h] = 0)
  <2>1. Idles(e)' => Idles(e)
    BY <1>1, <1>5 DEF Idles, Asked
  <2> QED
    BY <1>0, <1>1, <1>9, <2>1 DEF PreparationTypeOK, PreparationInv, TasksInv, TasksInOrder, NothingLeft
<1>17. TasksInv'
  BY <1>1, <1>7, <1>9, <1>14, <1>15, <1>16, TasksMove
<1>18. failures' \in Nat
  BY <1>6 DEF PreparationTypeOK
<1>19. FailuresKnown' /\ ExitsKnown'
  BY <1>1, <1>2, <1>5, <1>7, <1>18, NoNews DEF Asked
<1> QED
  BY <1>6, <1>12, <1>17, <1>19 DEF PreparationInv

-----------------------------------------------------------------------------
(* ... and the preparators *)

LEMMA PreparatorForwardsFailureKeeps ==
    ASSUME PreparationInv, NEW e \in Executors, PreparatorForwardsFailure(e)
    PROVE  PreparationInv'
<1> USE DEF preparatorVars, executorVars, coordinatorVars, environmentVars
<1> DEFINE h == HostOf[e]
<1>0. MailOK /\ TurnOf(e) /\ PreparationTypeOK /\ FailuresKnown /\ h \in Hosts
  BY MailFits, HostsAssumption DEF PreparationInv, OneTurn
<1>1. toPreparator[e] # <<>> /\ Head(toPreparator[e]).type = "BenchmarkFailure" /\ toPreparator' = Popped(toPreparator, e)
        /\ toCoordinator' = Sent(toCoordinator, h, Msg("BenchmarkFailure"))
        /\ UNCHANGED <<preparatorVars, executorVars, coordinatorVars, environmentVars, fromCoordinator, toExecutor>>
  BY DEF PreparatorForwardsFailure, Receives
<1>2. TakesFailure(e)
  BY <1>0, <1>1, FailureTaken
<1>3. Tells(h, "BenchmarkFailure")
  BY <1>0, <1>1, CoordinatorTold
<1>4. PreparationTypeOK'
  BY <1>0, <1>1, <1>2, <1>3 DEF PreparationTypeOK, TakesFailure, Tells
<1>5. ElsewhereSame(e)
  BY <1>1, <1>2 DEF ElsewhereSame, TakesFailure
<1>6. (Told(e)' <=> Told(e)) /\ (Asks(e)' <=> Asks(e)) /\ (Works(e)' <=> Works(e)) /\ (HasTurn(e)' <=> HasTurn(e))
  BY <1>1, <1>2 DEF TakesFailure, Told, Works, HasTurn
<1>7. TurnOf(e)'
  BY <1>0, <1>1, <1>2, <1>6 DEF TurnOf, TakesFailure
<1>8. Reporting' = Reporting /\ \A g \in Hosts : Single(toCoordinator'[g], Ready)
  BY <1>3 DEF Reporting, Tells
<1>9. OneTurn' /\ RoundsCounted' /\ HostsCounted'
  BY <1>1, <1>5, <1>6, <1>7, <1>8, TurnPasses
<1>10. Idles(e)' => Idles(e)
  BY <1>1, <1>2 DEF Idles, TakesFailure
<1>11. \A t \in Tasks \ {None} : Given(e, t)' <=> Given(e, t)
  BY <1>1 DEF Given
<1>12. TasksInv'
  BY <1>1, <1>5, <1>10, <1>11, TasksStay
<1>13. failures' \in Nat /\ failures > 0
  BY <1>0, <1>2, <1>4 DEF PreparationTypeOK, FailuresKnown, TakesFailure
<1>14. FailuresKnown' /\ ExitsKnown'
  BY <1>1, <1>2, <1>5, <1>13, NoNews
<1> QED
  BY <1>4, <1>9, <1>12, <1>14 DEF PreparationInv

LEMMA ReadyForWorkKeeps ==
    ASSUME PreparationInv, NEW e \in Executors, ReadyForWork(e)
    PROVE  PreparationInv'
<1> USE DEF executorVars, coordinatorVars, environmentVars
<1> DEFINE h == HostOf[e]
           next == IF tasks[h] > 0 THEN [processor |-> processor[h], number |-> tasks[h]] ELSE None
<1>0. MailOK /\ TurnOf(e) /\ PreparationTypeOK /\ h \in Hosts /\ e \in Children(h)
  BY MailFits, HostsAssumption DEF PreparationInv, OneTurn, Children
<1>1. toPreparator[e] # <<>> /\ Head(toPreparator[e]).type = "ReadyForWork" /\ toPreparator' = Popped(toPreparator, e)
        /\ tasks' = [tasks EXCEPT ![h] = IF @ > 0 THEN @ - 1 ELSE @]
        /\ toExecutor' = Sent(toExecutor, e, DoTask(next))
        /\ UNCHANGED <<status, processor, responses, executorVars, coordinatorVars, environmentVars,
                       fromCoordinator, toCoordinator>>
  BY DEF ReadyForWork, Receives
<1>2. TakesQuestion(e)
  BY <1>0, <1>1, QuestionTaken, TypesApart
<1>3. Asks(e) /\ HasTurn(e) /\ ~Told(e) /\ ~Works(e) /\ status[h] = "PROCESSOR_RUNNING" /\ future[e].task = None
  BY <1>0, <1>2 DEF TakesQuestion, TurnOf, HasTurn, Works
<1>4. processor[h] \in 1 .. Processors /\ tasks[h] \in Nat /\ TaskCount[h][processor[h]] \in Nat
        /\ tasks[h] <= TaskCount[h][processor[h]]
  BY <1>0, <1>3, RunsProcessor DEF PreparationInv, TasksInv, TasksInOrder
<1>5. /\ tasks[h] > 0 => next \in TasksOf(h, processor[h]) /\ next # None /\ next.number = tasks[h]
      /\ tasks[h] = 0 => next = None
  BY <1>4 DEF TasksOf, None
<1>6. next \in Tasks
  BY <1>0, <1>4, <1>5, TasksTyped DEF Tasks
<1>7. tasks' \in [Hosts -> Nat] /\ (\A g \in Hosts \ {h} : tasks'[g] = tasks[g])
        /\ (tasks[h] > 0 => tasks'[h] = tasks[h] - 1) /\ (tasks[h] = 0 => tasks'[h] = 0)
  BY <1>0, <1>1, <1>4 DEF PreparationTypeOK
<1> HIDE DEF next
<1>8. DoTask(next) \in Messages /\ DoTask(next).type = "DoTask" /\ DoTask(next).task = next /\ (DoTask(next) = DoTask(None) <=> next = None)
  BY <1>6 DEF DoTask, Messages, Types
<1>9. SendsOrder(e, DoTask(next))
  BY <1>0, <1>1, <1>3, <1>8, OrderSent, TypesApart
<1>10. PreparationTypeOK'
  BY <1>0, <1>1, <1>2, <1>7, <1>9 DEF PreparationTypeOK, TakesQuestion, SendsOrder
<1>11. ElsewhereSame(e)
  BY <1>1, <1>2, <1>9 DEF ElsewhereSame, TakesQuestion, SendsOrder
<1>12. Told(e)' /\ ~Asks(e)' /\ ~Works(e)' /\ HasTurn(e)'
  BY <1>1, <1>2, <1>3, <1>9 DEF TakesQuestion, SendsOrder, Works, HasTurn
<1>13. TurnOf(e)'
  BY <1>0, <1>1, <1>2, <1>3, <1>9, <1>12 DEF TurnOf, TakesQuestion, SendsOrder
<1>14. Reporting' = Reporting /\ \A g \in Hosts : Single(toCoordinator'[g], Ready)
  BY <1>0, <1>1 DEF Reporting, MailOK
<1>15. OneTurn' /\ RoundsCounted' /\ HostsCounted'
  BY <1>1, <1>3, <1>11, <1>12, <1>13, <1>14, TurnPasses
<1>16. ASSUME NEW t \in TasksOf(h, processor[h]) PROVE Placed(h, t)'
  <2>1. Placed(h, t)
    BY <1>0, <1>3 DEF PreparationInv, TasksInv, TasksInOrder, TaskPlaces
  <2>2. t \in Tasks \ {None} /\ t.number \in Nat /\ t = [processor |-> processor[h], number |-> t.number]
    BY <1>0, <1>4, TasksTyped
  <2>3. ASSUME NEW f \in Children(h) PROVE (f # e => (Given(f, t)' <=> Given(f, t))) /\ future'[f] = future[f]
    BY <1>1, <1>11, Elsewhere DEF Children
  <2>4. ~Given(e, t) /\ (Given(e, t)' <=> t = next)
    BY <1>8, <1>9, <2>2 DEF SendsOrder
  <2>5. executed'[h] = executed[h]
    BY <1>1
  <2>6. CASE t = next
    <3>1. tasks[h] > 0 /\ t.number = tasks[h] /\ tasks'[h] < t.number /\ tasks'[h] \in Nat
      BY <1>4, <1>5, <1>7, <2>2, <2>6
    <3>2. t \notin executed[h] /\ \A f \in Children(h) : ~Given(f, t) /\ future[f].task # t
      BY <2>1, <3>1, <1>4 DEF Placed
    <3>3. \A f \in Children(h) : future'[f].task # t /\ (Given(f, t)' <=> f = e)
      BY <2>3, <2>4, <2>6, <3>2
    <3> QED
      BY <1>0, <2>2, <2>5, <3>1, <3>2, <3>3 DEF Placed
  <2>7. CASE t # next
    <3>1. t.number <= tasks'[h] <=> t.number <= tasks[h]
      <4>1. CASE tasks[h] > 0
        <5>1. t.number # tasks[h]
          BY <2>2, <2>7, <4>1 DEF next
        <5> QED
          BY <1>4, <1>7, <2>2, <4>1, <5>1
      <4> QED
        BY <1>4, <1>7, <4>1
    <3>2. tasks[h] < t.number => tasks'[h] < t.number
      BY <1>4, <1>7, <2>2
    <3>3. \A f \in Children(h) : (Given(f, t)' <=> Given(f, t)) /\ future'[f] = future[f]
      BY <2>3, <2>4, <2>7
    <3> QED
      BY <2>1, <2>5, <3>1, <3>2, <3>3 DEF Placed
  <2> QED
    BY <2>6, <2>7
<1>17. Current(e)'
  <2>1. processor'[h] = processor[h] /\ future'[e].task = None
    BY <1>1, <1>3
  <2>2. \A t \in Tasks \ {None} : Given(e, t)' => t = next /\ tasks[h] > 0
    BY <1>4, <1>5, <1>8, <1>9 DEF SendsOrder
  <2> QED
    BY <1>5, <2>1, <2>2 DEF Current
<1>18. tasks'[h] \in Nat /\ tasks'[h] <= tasks[h]
  BY <1>4, <1>7
<1>19. Idles(e)' => tasks'[h] = 0
  BY <1>2, <1>4, <1>5, <1>7, <1>8, <1>9 DEF Idles, TakesQuestion, SendsOrder
<1>20. TasksInv'
  BY <1>0, <1>1, <1>3, <1>7, <1>11, <1>16, <1>17, <1>18, <1>19, TasksMove
<1>21. failures' \in Nat
  BY <1>10 DEF PreparationTypeOK
<1>22. FailuresKnown' /\ ExitsKnown'
  BY <1>1, <1>2, <1>9, <1>11, <1>21, NoNews DEF TakesQuestion, SendsOrder
<1> QED
  BY <1>10, <1>15, <1>20, <1>22 DEF PreparationInv

LEMMA WorkerIdleKeeps ==
    ASSUME PreparationInv, NEW e \in Executors, WorkerIdle(e)
    PROVE  PreparationInv'
<1> USE DEF executorVars, coordinatorVars, environmentVars
<1> DEFINE h == HostOf[e]
<1>0. MailOK /\ TurnOf(e) /\ PreparationTypeOK /\ TasksInv /\ h \in Hosts /\ e \in Children(h)
  BY MailFits, HostsAssumption DEF PreparationInv, OneTurn, Children
<1>1. toPreparator[e] # <<>> /\ Head(toPreparator[e]).type = "WorkerIdle" /\ toPreparator' = Popped(toPreparator, e)
        /\ ~AllResponded(h) /\ responses' = [responses EXCEPT ![h] = @ + 1]
        /\ UNCHANGED <<status, processor, tasks, executorVars, coordinatorVars, environmentVars,
                       fromCoordinator, toCoordinator, toExecutor>>
  BY DEF WorkerIdle, Receives
<1>2. TakesQuestion(e)
  BY <1>0, <1>1, QuestionTaken, TypesApart
<1>3. Asks(e) /\ HasTurn(e) /\ ~Told(e) /\ ~Works(e) /\ status[h] = "PROCESSOR_RUNNING" /\ Idles(e)
  BY <1>0, <1>1, <1>2 DEF TakesQuestion, TurnOf, HasTurn, Idles
<1>4. /\ responses' \in [Hosts -> Nat] /\ responses'[h] = responses[h] + 1 /\ responses[h] \in Nat
      /\ \A g \in Hosts \ {h} : responses'[g] = responses[g]
  BY <1>0, <1>1 DEF PreparationTypeOK
<1>5. Cardinality(Active(h)) \in Nat /\ Cardinality(Children(h)) \in Nat
  BY <1>0, ActiveCounted
<1>6. \A g \in Hosts : responses'[g] < Cardinality(Children(g))
  <2>1. \A g \in Hosts : responses[g] < Cardinality(Children(g))
    BY <1>0 DEF PreparationTypeOK
  <2>2. responses'[h] < Cardinality(Children(h))
    BY <1>0, <1>1, <1>4, <1>5, <2>1 DEF AllResponded
  <2> QED
    BY <1>4, <2>1, <2>2
<1>7. PreparationTypeOK'
  BY <1>0, <1>1, <1>2, <1>4, <1>6 DEF PreparationTypeOK, TakesQuestion
<1>8. ElsewhereSame(e)
  BY <1>1, <1>2 DEF ElsewhereSame, TakesQuestion
<1>9. ~Told(e)' /\ ~Asks(e)' /\ ~Works(e)' /\ ~HasTurn(e)'
  BY <1>1, <1>2, <1>3 DEF TakesQuestion, Told, Works, HasTurn
<1>10. TurnOf(e)'
  BY <1>0, <1>1, <1>2, <1>9 DEF TurnOf, TakesQuestion
<1>11. OneTurn'
  BY <1>1, <1>8, <1>10, TurnsElsewhere
<1>12. \A f \in Executors \ {e} : HasTurn(f)' <=> HasTurn(f)
  BY <1>8, Elsewhere
<1>13. Active(h)' = Active(h) \ {e} /\ e \in Active(h)
  BY <1>0, <1>3, <1>9, <1>12 DEF Active, Children
<1>14. \A g \in Hosts \ {h} : Active(g)' = Active(g)
  BY <1>12 DEF Active, Children
<1>15. Cardinality(Active(h))' = Cardinality(Active(h)) - 1
  BY <1>0, <1>13, ActiveCounted, FS_RemoveElement
<1>16. responses'[h] + Cardinality(Active(h))' = responses[h] + Cardinality(Active(h))
  BY <1>4, <1>5, <1>15
<1>17. \A g \in Hosts : RoundOf(g)
  BY DEF PreparationInv, RoundsCounted
<1>18. RoundOf(h)'
  BY <1>0, <1>1, <1>3, <1>16, <1>17 DEF RoundOf
<1>19. RoundsCounted'
  BY <1>1, <1>4, <1>14, <1>17, <1>18 DEF RoundsCounted, RoundOf
<1>20. ASSUME NEW g \in Hosts, Stuck(g) PROVE Stuck(g)'
  <2>1. CASE g = h
    BY <1>1, <1>3, <1>16, <1>20, <2>1 DEF Stuck
  <2>2. CASE g # h
    BY <1>1, <1>4, <1>14, <1>20, <2>2, StuckStays
  <2> QED
    BY <2>1, <2>2
<1>21. HostsCounted'
  <2>1. Unprepared' = Unprepared /\ Reporting' = Reporting /\ \A g \in Hosts : Single(toCoordinator'[g], Ready)
    BY <1>0, <1>1 DEF Unprepared, Reporting, MailOK
  <2> QED
    BY <1>1, <1>20, <2>1, HostsSame
<1>22. TasksInOrder(h) /\ tasks[h] = 0
  BY <1>0, <1>3 DEF TasksInv, TasksInOrder, NothingLeft
<1>23. TaskPlaces(h)'
  BY <1>1, <1>3, <1>22 DEF TasksInOrder, TaskPlaces, Placed, Given
<1>24. TasksInOrder(h)'
  BY <1>1, <1>3, <1>22, <1>23 DEF TasksInOrder
<1>25. \A f \in Children(h) : Current(f)'
  BY <1>0, <1>1 DEF TasksInv, Current, Given, Children
<1>26. TasksInv'
  <2>1. \A f \in Executors \ Children(h) :
            toExecutor'[f] = toExecutor[f] /\ toPreparator'[f] = toPreparator[f] /\ future'[f] = future[f]
    BY <1>0, <1>8 DEF ElsewhereSame
  <2> QED
    BY <1>0, <1>1, <1>4, <1>24, <1>25, <2>1, TasksElsewhere
<1>27. failures' \in Nat
  BY <1>7 DEF PreparationTypeOK
<1>28. FailuresKnown' /\ ExitsKnown'
  BY <1>1, <1>2, <1>8, <1>27, NoNews DEF TakesQuestion
<1> QED
  BY <1>7, <1>11, <1>19, <1>21, <1>26, <1>28 DEF PreparationInv

\* Who is given a task has been told something.
LEMMA GivenTold ==
    ASSUME PreparationInv, NEW f \in Executors
    PROVE  /\ HasNothing(toExecutor[f]) => Told(f)
           /\ \A t \in Tasks \ {None} : Given(f, t) => Told(f)
           /\ Some(toPreparator[f], Idleness) => Asks(f)
<1>1. TasksInOrders(toExecutor[f]) /\ toExecutor[f] \in Seq(Messages)
  BY DEF PreparationInv, OneTurn, TurnOf, PreparationTypeOK
<1>2. Some(toPreparator[f], Idleness) => Asks(f)
  BY DEF Some, Asks, Idleness, Questions
<1>3. ASSUME ~Told(f) PROVE ~HasNothing(toExecutor[f]) /\ \A t : t # None => ~Given(f, t)
  BY <1>1, <1>3, NoOrderNoTask DEF Told, Given
<1> QED
  BY <1>2, <1>3

\* A host where nobody has a turn has nothing to do.
LEMMA Quiet ==
    ASSUME PreparationInv, NEW h \in Hosts, NEW f \in Children(h), ~HasTurn(f)
    PROVE  /\ \A t \in Tasks \ {None} : ~Given(f, t)
           /\ future[f].task = None /\ future[f].thread = "none" /\ ~Idles(f)
<1>1. f \in Executors /\ TurnOf(f)
  BY DEF PreparationInv, OneTurn, Children
<1> QED
  BY <1>1, GivenTold DEF HasTurn, Idles, TurnOf, Works

\* The last executor's answer ends the round.
LEMMA RoundEnds ==
    ASSUME PreparationInv, NEW e \in Executors, NEW h \in Hosts, h = HostOf[e], LastWorkerIdle(e)
    PROVE  /\ e \in Children(h) /\ status[h] = "PROCESSOR_RUNNING" /\ processor[h] \in 1 .. Processors
           /\ TakesQuestion(e) /\ ~Told(e) /\ ~Works(e)
           /\ \A f \in Children(h) \ {e} : ~HasTurn(f)
           /\ \A p \in 1 .. processor[h] : TasksOf(h, p) \subseteq executed[h]
           /\ ~Stuck(h) /\ responses[h] \in Nat
<1>0. MailOK /\ TurnOf(e) /\ PreparationTypeOK /\ TasksInOrder(h) /\ RoundOf(h) /\ e \in Children(h)
  BY MailFits DEF PreparationInv, OneTurn, Children, TasksInv, RoundsCounted
<1>1. toPreparator[e] # <<>> /\ Head(toPreparator[e]).type = "WorkerIdle" /\ toPreparator' = Popped(toPreparator, e)
        /\ AllResponded(h)
  BY DEF LastWorkerIdle, Receives
<1>2. TakesQuestion(e)
  BY <1>0, <1>1, QuestionTaken, TypesApart
<1>3. Asks(e) /\ HasTurn(e) /\ ~Told(e) /\ ~Works(e) /\ status[h] = "PROCESSOR_RUNNING" /\ Idles(e) /\ future[e].task = None
  BY <1>0, <1>1, <1>2 DEF TakesQuestion, TurnOf, HasTurn, Idles, Works
<1>4. processor[h] \in 1 .. Processors /\ tasks[h] \in Nat
  BY <1>3, RunsProcessor
<1>5. responses[h] \in Nat
  BY <1>0 DEF PreparationTypeOK
<1>6. IsFiniteSet(Active(h)) /\ Cardinality(Active(h)) \in Nat /\ Cardinality(Children(h)) \in Nat /\ e \in Active(h)
  BY <1>0, <1>3, ActiveCounted DEF Active
<1>7. Cardinality(Active(h)) <= 1
  BY <1>0, <1>1, <1>5, <1>6 DEF AllResponded, RoundOf
<1>8. Cardinality(Active(h) \ {e}) = Cardinality(Active(h)) - 1 /\ IsFiniteSet(Active(h) \ {e})
  BY <1>6, FS_RemoveElement
<1>9. Active(h) \ {e} = {} /\ Cardinality(Active(h)) = 1
  <2>1. Cardinality(Active(h) \ {e}) \in Nat
    BY <1>8, FS_CardinalityType
  <2>2. Cardinality(Active(h) \ {e}) = 0 /\ Cardinality(Active(h)) = 1
    BY <1>6, <1>7, <1>8, <2>1
  <2> QED
    BY <1>8, <2>2, FS_EmptySet
<1>10. \A f \in Children(h) \ {e} : ~HasTurn(f)
  BY <1>9 DEF Active
<1>11. tasks[h] = 0
  BY <1>0, <1>3 DEF TasksInOrder, NothingLeft
<1>12. \A f \in Children(h) : future[f].task = None /\ future[f].thread = "none" /\ \A t \in Tasks \ {None} : ~Given(f, t)
  <2> SUFFICES ASSUME NEW f \in Children(h)
               PROVE  future[f].task = None /\ future[f].thread = "none" /\ \A t \in Tasks \ {None} : ~Given(f, t)
    OBVIOUS
  <2>1. CASE f = e
    BY <1>3, <2>1, GivenTold DEF Works
  <2>2. CASE f # e
    BY <1>10, <2>2, Quiet
  <2> QED
    BY <2>1, <2>2
<1>13. ASSUME NEW t \in TasksOf(h, processor[h]) PROVE t \in executed[h]
  <2>1. Placed(h, t)
    BY <1>0, <1>3 DEF TasksInOrder, TaskPlaces
  <2>2. t \in Tasks \ {None} /\ t.number \in 1 .. TaskCount[h][processor[h]] /\ TaskCount[h][processor[h]] \in Nat
    BY <1>3, <1>4, TasksTyped, RunsProcessor
  <2>3. ~(t.number <= tasks[h])
    BY <1>11, <2>2
  <2> QED
    BY <1>12, <2>1, <2>2, <2>3 DEF Placed
<1>14. \A p \in 1 .. processor[h] : TasksOf(h, p) \subseteq executed[h]
  <2> SUFFICES ASSUME NEW p \in 1 .. processor[h], p # processor[h] PROVE TasksOf(h, p) \subseteq executed[h]
    BY <1>13
  <2>1. p \in 1 .. processor[h] - 1
    BY <1>4
  <2> QED
    BY <1>0, <2>1 DEF TasksInOrder
<1>15. ~Stuck(h)
  BY <1>1, <1>3, <1>5, <1>6, <1>9, <1>12 DEF Stuck, AllResponded
<1> QED
  BY <1>0, <1>2, <1>3, <1>4, <1>5, <1>10, <1>14, <1>15

\* A new round is announced to all executors of h.
Announced(f) ==
    /\ Single(toExecutor'[f], Orders) /\ TasksInOrders(toExecutor'[f]) /\ Told(f)' /\ ~HasNothing(toExecutor'[f])
    /\ \A t \in Tasks \ {None} : ~Given(f, t)'
    /\ Some(toExecutor'[f], Failure) <=> Some(toExecutor[f], Failure)
    /\ Some(toExecutor'[f], Exit) <=> Some(toExecutor[f], Exit)

LEMMA StartSent ==
    ASSUME MailOK, NEW h \in Hosts, \A f \in Children(h) : ~Told(f),
           toExecutor' = SentToChildren(h, Msg("StartTaskLoop"))
    PROVE  /\ toExecutor' \in [Executors -> Seq(Messages)]
           /\ \A f \in Executors \ Children(h) : toExecutor'[f] = toExecutor[f]
           /\ \A f \in Children(h) : Announced(f)
<1> DEFINE m == Msg("StartTaskLoop")
<1>1. toExecutor \in [Executors -> Seq(Messages)]
  BY DEF MailOK
<1>2. m \in Messages /\ m.type = "StartTaskLoop" /\ m.task = None /\ m # DoTask(None) /\ m.type \in Orders
  BY MessagesTyped, TypesApart DEF Types, Msg, DoTask
<1> HIDE DEF m
<1>3. toExecutor' = [f \in Executors |-> IF HostOf[f] = h THEN Append(toExecutor[f], m) ELSE toExecutor[f]]
  BY DEF SentToChildren, m
<1>4. toExecutor' \in [Executors -> Seq(Messages)] /\ \A f \in Executors \ Children(h) : toExecutor'[f] = toExecutor[f]
  <2>1. \A f \in Executors : toExecutor[f] \in Seq(Messages) /\ Append(toExecutor[f], m) \in Seq(Messages)
    BY <1>1, <1>2
  <2>2. \A f \in Executors : toExecutor'[f] = IF HostOf[f] = h THEN Append(toExecutor[f], m) ELSE toExecutor[f]
    BY <1>3
  <2>3. toExecutor' \in [Executors -> Seq(Messages)]
    BY <1>3, <2>1
  <2> QED
    BY <2>2, <2>3 DEF Children
<1>5. ASSUME NEW f \in Children(h) PROVE Announced(f)
  <2> DEFINE q == toExecutor[f]
  <2>1. f \in Executors /\ toExecutor'[f] = Append(q, m)
    BY <1>1, <1>3 DEF Children
  <2>2. q \in Seq(Messages) /\ TasksInOrders(q) /\ ~Some(q, Orders)
    BY <2>1 DEF MailOK, Told
  <2> HIDE DEF q
  <2>3. /\ Single(Append(q, m), Orders) /\ TasksInOrders(Append(q, m)) /\ Some(Append(q, m), Orders)
        /\ ~HasNothing(Append(q, m))
        /\ \A t \in Tasks \ {None} : ~Carries(Append(q, m), t)
        /\ Some(Append(q, m), Failure) <=> Some(q, Failure)
        /\ Some(Append(q, m), Exit) <=> Some(q, Exit)
    BY <1>2, <2>2, OrderPushed
  <2> QED
    BY <2>1, <2>3 DEF q, Told, Given, Announced
<1> QED
  BY <1>4, <1>5

\* The next processor is run when nobody of the host has a turn.
LEMMA NewRound ==
    ASSUME PreparationInv, NEW h \in Hosts, RunNextProcessor(h), processor[h] < Processors,
           status[h] # "PROCESSOR_COMPLETE", ~Stuck(h),
           toPreparator' \in [Executors -> Seq(Messages)],
           \A f \in Executors \ Children(h) : toPreparator'[f] = toPreparator[f],
           \A f \in Children(h) : ~Told(f) /\ ~Works(f) /\ ~Asks(f)' /\ ~Some(toPreparator'[f], Idleness),
           \A f \in Children(h) : Some(toPreparator'[f], Failure) => Some(toPreparator[f], Failure),
           \A p \in 1 .. processor[h] : TasksOf(h, p) \subseteq executed[h],
           responses' = [responses EXCEPT ![h] = 0],
           fromCoordinator' \in [Hosts -> Seq(Messages)],
           \A g \in Hosts \ {h} : fromCoordinator'[g] = fromCoordinator[g],
           ~Some(fromCoordinator'[h], Begin), Some(fromCoordinator'[h], Exit) => Some(fromCoordinator[h], Exit),
           UNCHANGED <<executorVars, coordinatorVars, environmentVars, toCoordinator>>
    PROVE  PreparationInv'
<1> USE DEF executorVars, coordinatorVars, environmentVars
<1> DEFINE p == processor[h] + 1
<1>0. MailOK /\ PreparationTypeOK /\ RoundsCounted /\ TasksInv /\ OneTurn /\ TasksInOrder(h)
  BY MailFits DEF PreparationInv, TasksInv
<1>1. /\ processor' = [processor EXCEPT ![h] = p] /\ tasks' = [tasks EXCEPT ![h] = TaskCount[h][p]]
      /\ status' = [status EXCEPT ![h] = "PROCESSOR_RUNNING"]
      /\ toExecutor' = SentToChildren(h, Msg("StartTaskLoop"))
  BY DEF RunNextProcessor
<1>2. processor[h] \in Nat /\ p \in 1 .. Processors /\ p \in 0 .. Processors /\ TaskCount[h][p] \in Nat
  <2>1. processor[h] \in 0 .. Processors /\ Processors \in Nat
    BY <1>0, ProcessorsAssumption DEF PreparationTypeOK
  <2>2. p \in 1 .. Processors
    BY <2>1
  <2> QED
    BY <2>1, <2>2, ProcessorsAssumption
<1>3. /\ processor' \in [Hosts -> 0 .. Processors] /\ processor'[h] = p
      /\ tasks' \in [Hosts -> Nat] /\ tasks'[h] = TaskCount[h][p]
      /\ status' \in [Hosts -> {"INITIALIZING", "PROCESSOR_RUNNING", "PROCESSOR_COMPLETE"}] /\ status'[h] = "PROCESSOR_RUNNING"
      /\ responses' \in [Hosts -> Nat] /\ responses'[h] = 0
      /\ \A g \in Hosts \ {h} : /\ status'[g] = status[g] /\ processor'[g] = processor[g] /\ tasks'[g] = tasks[g]
                               /\ responses'[g] = responses[g]
  <2> HIDE DEF p
  <2> QED
    BY <1>0, <1>1, <1>2 DEF PreparationTypeOK
<1>4. /\ toExecutor' \in [Executors -> Seq(Messages)]
      /\ \A f \in Executors \ Children(h) : toExecutor'[f] = toExecutor[f]
      /\ \A f \in Children(h) : Announced(f)
  <2>1. \A f \in Children(h) : ~Told(f)
    OBVIOUS
  <2> QED
    BY <1>0, <1>1, <2>1, StartSent
<1>5. IsFiniteSet(Children(h)) /\ Cardinality(Children(h)) \in Nat /\ Cardinality(Children(h)) > 0
  <2>1. IsFiniteSet(Children(h)) /\ Children(h) # {} /\ Cardinality(Children(h)) \in Nat
    BY ActiveCounted, HostsAssumption
  <2> QED
    BY <2>1, FS_EmptySet
<1>6. \A g \in Hosts : responses'[g] < Cardinality(Children(g))
  BY <1>0, <1>3, <1>5 DEF PreparationTypeOK
<1>7. PreparationTypeOK'
  BY <1>0, <1>3, <1>4, <1>6 DEF PreparationTypeOK
<1>8. \A f \in Executors \ Children(h) : (HasTurn(f)' <=> HasTurn(f)) /\ (Told(f)' <=> Told(f)) /\ (Asks(f)' <=> Asks(f)) /\ (Works(f)' <=> Works(f))
  BY <1>4 DEF HasTurn, Told, Asks, Works
<1>9. ASSUME NEW f \in Children(h) PROVE HasTurn(f)' /\ Told(f)' /\ ~Works(f)' /\ ~Works(f) /\ Announced(f) /\ ~Asks(f)'
  <2>1. Announced(f) /\ ~Works(f) /\ ~Asks(f)'
    BY <1>4
  <2> QED
    BY <2>1 DEF Announced, HasTurn, Works
<1>10. OneTurn'
  <2> SUFFICES ASSUME NEW f \in Executors PROVE TurnOf(f)'
    BY DEF OneTurn
  <2>1. TurnOf(f)
    BY <1>0 DEF OneTurn
  <2>2. CASE f \in Children(h)
    <3>1. HostOf[f] = h /\ ~Asks(f)' /\ Announced(f) /\ Told(f)' /\ ~Works(f)' /\ ~Works(f)
      BY <1>9, <2>2 DEF Children
    <3>2. Single(toPreparator'[f], Questions)
      BY <3>1 DEF Asks, Some, Single
    <3> QED
      BY <1>3, <2>1, <3>1, <3>2 DEF TurnOf, Announced
  <2>3. CASE f \notin Children(h)
    <3>1. HostOf[f] \in Hosts \ {h}
      BY <2>3, HostsAssumption DEF Children
    <3> QED
      BY <1>3, <1>4, <1>8, <2>1, <2>3, <3>1 DEF TurnOf
  <2> QED
    BY <2>2, <2>3
<1>11. Active(h)' = Children(h)
  BY <1>9 DEF Active
<1>12. \A g \in Hosts \ {h} : Active(g)' = Active(g)
  BY <1>8 DEF Active, Children
<1>13. RoundOf(h)'
  <2>1. Single(fromCoordinator'[h], Begin)
    BY DEF Some, Single
  <2> HIDE DEF p
  <2> QED
    BY <1>2, <1>3, <1>5, <1>11, <2>1 DEF RoundOf
<1>14. RoundsCounted'
  BY <1>0, <1>3, <1>12, <1>13 DEF RoundsCounted, RoundOf
<1>15. Unprepared' = Unprepared
  BY <1>3 DEF Unprepared
<1>16. ASSUME NEW g \in Hosts, Stuck(g) PROVE Stuck(g)'
  BY <1>3, <1>12, <1>16, StuckStays
<1>17. HostsCounted'
  <2>1. Reporting' = Reporting /\ \A g \in Hosts : Single(toCoordinator'[g], Ready)
    BY <1>0 DEF Reporting, MailOK
  <2> QED
    BY <1>15, <1>16, <2>1, HostsSame
<1>18. ASSUME NEW f \in Children(h) PROVE ~Idles(f)' /\ future'[f].task = None
  <2>1. Announced(f) /\ ~Some(toPreparator'[f], Idleness) /\ ~Works(f) /\ TurnOf(f)
    BY <1>0, <1>9 DEF OneTurn, Children
  <2> QED
    BY <2>1 DEF Announced, Idles, Works, TurnOf
<1>19. ~NothingLeft(h)'
  BY <1>3, <1>18 DEF NothingLeft
<1> HIDE DEF p
<1>20. ASSUME NEW t \in TasksOf(h, p) PROVE Placed(h, t)'
  <2>1. t \in Tasks \ {None} /\ t.processor = p /\ t.number \in 1 .. TaskCount[h][p]
    BY <1>2, TasksTyped
  <2>2. t \notin executed[h]
    <3>1. ~(p <= processor[h])
      BY <1>2 DEF p
    <3> QED
      BY <1>0, <2>1, <3>1 DEF TasksInOrder
  <2>3. t.number <= tasks'[h]
    BY <1>2, <1>3, <2>1
  <2>4. \A f \in Children(h) : ~Given(f, t)' /\ future'[f].task # t
    BY <1>4, <1>18, <2>1 DEF Announced
  <2> QED
    BY <2>2, <2>3, <2>4 DEF Placed
<1>21. TaskPlaces(h)'
  BY <1>3, <1>20 DEF TaskPlaces
<1>22. TasksInOrder(h)'
  <2>1. \A i \in 1 .. p - 1 : TasksOf(h, i) \subseteq executed[h]
    <3>1. p - 1 = processor[h]
      BY <1>2 DEF p
    <3> QED
      BY <3>1
  <2>2. \A t \in executed[h] : t.processor <= p
    <3> SUFFICES ASSUME NEW t \in executed[h] PROVE t.processor <= p
      OBVIOUS
    <3>1. t.processor <= processor[h]
      BY <1>0 DEF TasksInOrder
    <3>2. t \in AllTasks(h)
      BY <1>0 DEF PreparationTypeOK
    <3>3. PICK i \in 1 .. Processors : t \in TasksOf(h, i)
      BY <3>2 DEF AllTasks
    <3>4. t.processor = i
      BY <3>3, TasksTyped
    <3> QED
      BY <1>2, <3>1, <3>3, <3>4, ProcessorsAssumption DEF p
  <2>3. tasks'[h] <= TaskCount[h][p]
    BY <1>2, <1>3
  <2> QED
    BY <1>3, <1>19, <1>21, <2>1, <2>2, <2>3 DEF TasksInOrder
<1>23. \A f \in Children(h) : Current(f)'
  BY <1>4, <1>18 DEF Current, Announced
<1>24. TasksInv'
  BY <1>3, <1>4, <1>22, <1>23, TasksElsewhere
<1>25. FailuresKnown' /\ ExitsKnown'
  <2>1. FailuresKnown /\ ExitsKnown
    BY DEF PreparationInv
  <2>2. ASSUME NEW f \in Executors
        PROVE  /\ Some(toExecutor'[f], Failure) => Some(toExecutor[f], Failure)
               /\ Some(toExecutor'[f], Exit) => Some(toExecutor[f], Exit)
               /\ Some(toPreparator'[f], Failure) => Some(toPreparator[f], Failure)
    <3>1. CASE f \in Children(h)
      BY <1>9, <3>1 DEF Announced
    <3>2. CASE f \notin Children(h)
      BY <1>4, <3>2
    <3> QED
      BY <3>1, <3>2
  <2>3. FailuresKnown'
    BY <2>1, <2>2 DEF FailuresKnown
  <2>4. ExitsKnown'
    BY <1>15, <2>1, <2>2 DEF ExitsKnown
  <2> QED
    BY <2>3, <2>4
<1> QED
  BY <1>7, <1>10, <1>14, <1>17, <1>24, <1>25 DEF PreparationInv

\* The coordinator's message is taken.
LEMMA BeginTaken ==
    ASSUME MailOK, NEW h \in Hosts, fromCoordinator[h] # <<>>, Head(fromCoordinator[h]).type = "PrepareWorkload",
           fromCoordinator' = Popped(fromCoordinator, h)
    PROVE  /\ fromCoordinator' \in [Hosts -> Seq(Messages)]
           /\ \A g \in Hosts \ {h} : fromCoordinator'[g] = fromCoordinator[g]
           /\ Some(fromCoordinator[h], Begin) /\ ~Some(fromCoordinator'[h], Begin)
           /\ Some(fromCoordinator'[h], Exit) => Some(fromCoordinator[h], Exit)
<1> DEFINE q == fromCoordinator[h]
<1>0. fromCoordinator \in [Hosts -> Seq(Messages)]
  BY DEF MailOK
<1>1. q \in Seq(Messages) /\ Single(q, Begin) /\ Head(q).type \in Begin
  BY TypesApart DEF MailOK
<1>2. fromCoordinator' \in [Hosts -> Seq(Messages)]
        /\ \A j \in Hosts : fromCoordinator'[j] = IF j = h THEN Tail(q) ELSE fromCoordinator[j]
  BY <1>0, PoppedAt
<1>3. ~Some(Tail(q), Begin) /\ Some(q, Begin) /\ (Some(Tail(q), Exit) => Some(q, Exit))
  BY <1>1, Handled
<1> HIDE DEF q
<1> QED
  BY <1>2, <1>3 DEF q

LEMMA ExitTaken ==
    ASSUME MailOK, NEW h \in Hosts, fromCoordinator[h] # <<>>, Head(fromCoordinator[h]).type = "ActorExitRequest",
           fromCoordinator' = Popped(fromCoordinator, h)
    PROVE  /\ fromCoordinator' \in [Hosts -> Seq(Messages)]
           /\ \A g \in Hosts \ {h} : fromCoordinator'[g] = fromCoordinator[g]
           /\ Single(fromCoordinator'[h], Begin) /\ (Some(fromCoordinator'[h], Begin) <=> Some(fromCoordinator[h], Begin))
           /\ Some(fromCoordinator[h], Exit)
<1> DEFINE q == fromCoordinator[h]
<1>0. fromCoordinator \in [Hosts -> Seq(Messages)]
  BY DEF MailOK
<1>1. q \in Seq(Messages) /\ Single(q, Begin) /\ Head(q).type \notin Begin /\ Head(q).type \in Exit
  BY TypesApart DEF MailOK
<1>2. fromCoordinator' \in [Hosts -> Seq(Messages)]
        /\ \A j \in Hosts : fromCoordinator'[j] = IF j = h THEN Tail(q) ELSE fromCoordinator[j]
  BY <1>0, PoppedAt
<1>3. Single(Tail(q), Begin) /\ (Some(Tail(q), Begin) <=> Some(q, Begin)) /\ Some(q, Exit)
  BY <1>1, Handled
<1> HIDE DEF q
<1> QED
  BY <1>2, <1>3 DEF q

\* A host that has not begun is quiet.
LEMMA BeforeBegin ==
    ASSUME PreparationInv, NEW h \in Hosts, Some(fromCoordinator[h], Begin)
    PROVE  /\ status[h] = "INITIALIZING" /\ processor[h] = 0 /\ responses[h] = 0 /\ ~Stuck(h)
           /\ \A f \in Children(h) : ~HasTurn(f) /\ ~Told(f) /\ ~Works(f) /\ ~Asks(f) /\ ~Some(toPreparator[f], Idleness)
<1>1. status[h] = "INITIALIZING" /\ processor[h] = 0 /\ responses[h] = 0
  BY DEF PreparationInv, RoundsCounted, RoundOf
<1>2. ~Stuck(h)
  BY <1>1 DEF Stuck
<1>3. ASSUME NEW f \in Children(h) PROVE ~HasTurn(f) /\ ~Told(f) /\ ~Works(f) /\ ~Asks(f) /\ ~Some(toPreparator[f], Idleness)
  <2>1. f \in Executors /\ HostOf[f] = h /\ TurnOf(f)
    BY DEF Children, PreparationInv, OneTurn
  <2>2. ~HasTurn(f)
    BY <1>1, <2>1 DEF TurnOf
  <2> QED
    BY <2>1, <2>2, GivenTold DEF HasTurn
<1> QED
  BY <1>1, <1>2, <1>3

LEMMA PrepareWorkloadKeeps ==
    ASSUME PreparationInv, NEW h \in Hosts, PrepareWorkload(h)
    PROVE  PreparationInv'
<1>0. MailOK /\ PreparationTypeOK
  BY MailFits DEF PreparationInv
<1>1. fromCoordinator[h] # <<>> /\ Head(fromCoordinator[h]).type = "PrepareWorkload"
        /\ fromCoordinator' = Popped(fromCoordinator, h) /\ RunNextProcessor(h)
        /\ UNCHANGED <<responses, executorVars, coordinatorVars, environmentVars, toCoordinator, toPreparator>>
  BY DEF PrepareWorkload, Receives
<1>2. /\ fromCoordinator' \in [Hosts -> Seq(Messages)]
      /\ \A g \in Hosts \ {h} : fromCoordinator'[g] = fromCoordinator[g]
      /\ Some(fromCoordinator[h], Begin) /\ ~Some(fromCoordinator'[h], Begin)
      /\ Some(fromCoordinator'[h], Exit) => Some(fromCoordinator[h], Exit)
  BY <1>0, <1>1, BeginTaken
<1>3. status[h] = "INITIALIZING" /\ processor[h] = 0 /\ responses[h] = 0 /\ ~Stuck(h)
  BY <1>2, BeforeBegin
<1>4. \A f \in Children(h) : ~Told(f) /\ ~Works(f) /\ ~Asks(f)' /\ ~Some(toPreparator'[f], Idleness)
  <2> SUFFICES ASSUME NEW f \in Children(h) PROVE ~Told(f) /\ ~Works(f) /\ ~Asks(f)' /\ ~Some(toPreparator'[f], Idleness)
    OBVIOUS
  <2>1. ~Told(f) /\ ~Works(f) /\ ~Asks(f) /\ ~Some(toPreparator[f], Idleness)
    BY <1>2, BeforeBegin
  <2> QED
    BY <1>1, <2>1 DEF Asks
<1>5. processor[h] < Processors
  BY <1>3, ProcessorsAssumption
<1>6. \A p \in 1 .. processor[h] : TasksOf(h, p) \subseteq executed[h]
  BY <1>3
<1>7. responses' = [responses EXCEPT ![h] = 0]
  BY <1>0, <1>1, <1>3 DEF PreparationTypeOK
<1>8. toPreparator' \in [Executors -> Seq(Messages)] /\ toPreparator' = toPreparator
  BY <1>0, <1>1 DEF MailOK
<1> QED
  BY <1>1, <1>2, <1>3, <1>4, <1>5, <1>6, <1>7, <1>8, NewRound

LEMMA ResumeNextProcessorKeeps ==
    ASSUME PreparationInv, NEW e \in Executors, ResumeNextProcessor(e)
    PROVE  PreparationInv'
<1> DEFINE h == HostOf[e]
<1>0. MailOK /\ PreparationTypeOK /\ RoundOf(h) /\ h \in Hosts
  BY MailFits, HostsAssumption DEF PreparationInv, RoundsCounted
<1>1. LastWorkerIdle(e) /\ processor[h] < Processors /\ RunNextProcessor(h) /\ UNCHANGED <<environmentVars, toCoordinator>>
  BY DEF ResumeNextProcessor
<1>2. responses' = [responses EXCEPT ![h] = 0] /\ UNCHANGED <<executorVars, coordinatorVars, fromCoordinator>>
  BY <1>1 DEF LastWorkerIdle
<1>3. /\ status[h] = "PROCESSOR_RUNNING" /\ ~Stuck(h) /\ TakesQuestion(e) /\ ~Told(e) /\ ~Works(e)
      /\ \A f \in Children(h) \ {e} : ~HasTurn(f)
      /\ \A p \in 1 .. processor[h] : TasksOf(h, p) \subseteq executed[h]
      /\ e \in Children(h)
  BY <1>0, <1>1, RoundEnds
<1>4. \A f \in Children(h) : ~Told(f) /\ ~Works(f) /\ ~Asks(f)' /\ ~Some(toPreparator'[f], Idleness)
  <2> SUFFICES ASSUME NEW f \in Children(h), f # e
               PROVE  ~Told(f) /\ ~Works(f) /\ ~Asks(f)' /\ ~Some(toPreparator'[f], Idleness)
    BY <1>3 DEF TakesQuestion
  <2>1. f \in Executors /\ toPreparator'[f] = toPreparator[f]
    BY <1>3 DEF TakesQuestion, Children
  <2>2. ~Told(f) /\ ~Works(f) /\ ~Asks(f)
    BY <1>3 DEF HasTurn
  <2>3. ~Some(toPreparator[f], Idleness)
    BY <2>1, <2>2, GivenTold
  <2> QED
    BY <2>1, <2>2, <2>3 DEF Asks
<1>5. /\ toPreparator' \in [Executors -> Seq(Messages)]
      /\ \A f \in Executors \ Children(h) : toPreparator'[f] = toPreparator[f]
      /\ \A f \in Children(h) : Some(toPreparator'[f], Failure) => Some(toPreparator[f], Failure)
  BY <1>3 DEF TakesQuestion, Children
<1>6. fromCoordinator' \in [Hosts -> Seq(Messages)] /\ fromCoordinator' = fromCoordinator
  BY <1>0, <1>2 DEF MailOK
<1>7. ~Some(fromCoordinator'[h], Begin)
  BY <1>0, <1>3, <1>6 DEF RoundOf
<1>8. status[h] # "PROCESSOR_COMPLETE"
  BY <1>3
<1> HIDE DEF h
<1> QED
  BY <1>0, <1>1, <1>2, <1>3, <1>4, <1>5, <1>6, <1>7, <1>8, NewRound

\* A step that gives no orders
LEMMA NoOrders ==
    ASSUME PreparationInv, \A f \in Executors : SameOrders(f),
           UNCHANGED <<status, processor, tasks, responses, future, wakeup, executed, toPreparator>>,
           failures' = 0 => failures = 0
    PROVE  OneTurn' /\ TasksInv' /\ \A h \in Hosts : Active(h)' = Active(h)
<1>1. ASSUME NEW f \in Executors
      PROVE  /\ (Told(f)' <=> Told(f)) /\ (Asks(f)' <=> Asks(f)) /\ (Works(f)' <=> Works(f)) /\ (HasTurn(f)' <=> HasTurn(f))
             /\ (Idles(f)' <=> Idles(f)) /\ SameOrders(f)
  BY DEF SameOrders, Asks, Works, HasTurn, Idles
<1>2. ASSUME NEW f \in Executors PROVE TurnOf(f)'
  <2>1. TurnOf(f)
    BY DEF PreparationInv, OneTurn
  <2> QED
    BY <1>1, <2>1 DEF TurnOf, SameOrders
<1>3. \A f \in Executors : HasTurn(f)' <=> HasTurn(f)
  BY <1>1
<1>4. \A h \in Hosts : Active(h)' = Active(h)
  BY <1>3 DEF Active, Children
<1>5. ASSUME NEW f \in Executors, NEW t \in Tasks \ {None} PROVE Given(f, t)' <=> Given(f, t)
  BY <1>1 DEF SameOrders
<1>6. TasksInv
  BY DEF PreparationInv
<1>7. ASSUME NEW f \in Executors PROVE Current(f)'
  <2>1. Current(f) /\ \A t \in Tasks \ {None} : Given(f, t)' <=> Given(f, t)
    BY <1>5, <1>6 DEF TasksInv
  <2> QED
    BY <2>1 DEF Current
<1>8. ASSUME NEW h \in Hosts PROVE TasksInOrder(h)'
  <2>1. TasksInOrder(h)
    BY <1>6 DEF TasksInv
  <2>2. \A f \in Executors : Idles(f)' <=> Idles(f)
    BY <1>1
  <2>3. NothingLeft(h)' <=> NothingLeft(h)
    BY <2>2 DEF NothingLeft, Children
  <2>4. ASSUME status[h] = "PROCESSOR_RUNNING" PROVE TaskPlaces(h)'
    <3>1. processor[h] \in 1 .. Processors /\ TaskPlaces(h)
      BY <2>1, <2>4, RunsProcessor DEF TasksInOrder
    <3>2. ASSUME NEW t \in TasksOf(h, processor[h]) PROVE Placed(h, t)'
      <4>1. t \in Tasks \ {None} /\ Placed(h, t)
        BY <3>1, TasksTyped DEF TaskPlaces
      <4>2. \A f \in Children(h) : Given(f, t)' <=> Given(f, t)
        BY <1>5, <4>1 DEF Children
      <4> QED
        BY <4>1, <4>2 DEF Placed
    <3> QED
      BY <3>2 DEF TaskPlaces
  <2> QED
    BY <2>1, <2>3, <2>4 DEF TasksInOrder
<1> QED
  BY <1>2, <1>4, <1>7, <1>8 DEF OneTurn, TasksInv

LEMMA NoMail ==
    ASSUME PreparationInv, toExecutor' = toExecutor
    PROVE  \A f \in Executors : SameOrders(f)
BY MailFits DEF MailOK, SameOrders, Told, Given

LEMMA PrepareWorkloadRaisesKeeps ==
    ASSUME PreparationInv, NEW h \in Hosts, PrepareWorkloadRaises(h)
    PROVE  PreparationInv'
<1> USE DEF preparatorVars, executorVars, coordinatorVars
<1>0. MailOK /\ PreparationTypeOK
  BY MailFits DEF PreparationInv
<1>1. fromCoordinator[h] # <<>> /\ Head(fromCoordinator[h]).type = "PrepareWorkload"
        /\ fromCoordinator' = Popped(fromCoordinator, h) /\ Raises
        /\ toCoordinator' = Sent(toCoordinator, h, Msg("BenchmarkFailure"))
        /\ UNCHANGED <<preparatorVars, executorVars, coordinatorVars, toExecutor, toPreparator>>
  BY DEF PrepareWorkloadRaises, Receives
<1>2. /\ fromCoordinator' \in [Hosts -> Seq(Messages)]
      /\ \A g \in Hosts \ {h} : fromCoordinator'[g] = fromCoordinator[g]
      /\ Some(fromCoordinator[h], Begin) /\ ~Some(fromCoordinator'[h], Begin)
      /\ Some(fromCoordinator'[h], Exit) => Some(fromCoordinator[h], Exit)
  BY <1>0, <1>1, BeginTaken
<1>3. status[h] = "INITIALIZING"
  BY <1>2, BeforeBegin
<1>4. failures' = failures + 1 /\ failures \in Nat /\ failures' \in 0 .. MaxFailures /\ UNCHANGED <<exited, crashes>>
  BY <1>0, <1>1, ProcessorsAssumption DEF Raises, PreparationTypeOK
<1>5. Tells(h, "BenchmarkFailure")
  BY <1>0, <1>1, CoordinatorTold
<1>6. PreparationTypeOK'
  BY <1>0, <1>1, <1>2, <1>4, <1>5 DEF PreparationTypeOK, Tells
<1>7. OneTurn' /\ TasksInv' /\ \A g \in Hosts : Active(g)' = Active(g)
  BY <1>1, <1>4, NoMail, NoOrders
<1>8. RoundsCounted'
  <2>1. \A g \in Hosts : RoundOf(g)
    BY DEF PreparationInv, RoundsCounted
  <2>2. Single(fromCoordinator'[h], Begin)
    BY <1>2 DEF Some, Single
  <2>3. RoundOf(h)'
    BY <1>1, <1>2, <1>7, <2>1, <2>2 DEF RoundOf
  <2> QED
    BY <1>1, <1>2, <1>7, <2>1, <2>3 DEF RoundsCounted, RoundOf
<1>9. Unprepared' = Unprepared /\ h \in Unprepared /\ Reporting' = Reporting
  BY <1>1, <1>3, <1>5 DEF Unprepared, Reporting, Tells
<1>10. Stuck(h)'
  BY <1>1, <1>2, <1>3 DEF Stuck
<1>11. ASSUME NEW g \in Hosts, Stuck(g) PROVE Stuck(g)'
  BY <1>1, <1>2, <1>7, <1>10, <1>11, StuckStays
<1>12. HostsCounted'
  <2>1. \A g \in Hosts : Single(toCoordinator'[g], Ready)
    BY <1>5 DEF Tells
  <2> QED
    BY <1>1, <1>9, <1>10, <1>11, <2>1, HostsSame
<1>13. FailuresKnown'
  BY <1>4 DEF FailuresKnown
<1>14. ExitsKnown'
  BY <1>1, <1>2, <1>9 DEF PreparationInv, ExitsKnown
<1> QED
  BY <1>6, <1>7, <1>8, <1>12, <1>13, <1>14 DEF PreparationInv

\* All executors of a host are sent an exit request.
LEMMA ExitsSent ==
    ASSUME MailOK, NEW h \in Hosts, toExecutor' = SentToChildren(h, Msg("ActorExitRequest"))
    PROVE  /\ toExecutor' \in [Executors -> Seq(Messages)]
           /\ \A f \in Executors : SameOrders(f) /\ (Some(toExecutor'[f], Failure) <=> Some(toExecutor[f], Failure))
<1> DEFINE m == Msg("ActorExitRequest")
<1>1. toExecutor \in [Executors -> Seq(Messages)]
  BY DEF MailOK
<1>2. m \in Messages /\ m.type = "ActorExitRequest" /\ m.task = None /\ m.type \notin Orders /\ m.type \notin Failure
  BY MessagesTyped, TypesApart DEF Types, Msg
<1> HIDE DEF m
<1>3. toExecutor' = [f \in Executors |-> IF HostOf[f] = h THEN Append(toExecutor[f], m) ELSE toExecutor[f]]
  BY DEF SentToChildren, m
<1>4. \A f \in Executors : toExecutor[f] \in Seq(Messages) /\ Append(toExecutor[f], m) \in Seq(Messages)
  BY <1>1, <1>2
<1>5. toExecutor' \in [Executors -> Seq(Messages)]
  BY <1>3, <1>4
<1>6. ASSUME NEW f \in Executors PROVE SameOrders(f) /\ (Some(toExecutor'[f], Failure) <=> Some(toExecutor[f], Failure))
  <2> DEFINE q == toExecutor[f]
  <2>1. q \in Seq(Messages) /\ TasksInOrders(q) /\ Single(q, Orders)
    BY DEF MailOK
  <2>2. toExecutor'[f] = Append(q, m) \/ toExecutor'[f] = q
    BY <1>3
  <2> HIDE DEF q
  <2>3. /\ Append(q, m) \in Seq(Messages)
        /\ Single(Append(q, m), Orders) /\ TasksInOrders(Append(q, m))
        /\ Some(Append(q, m), Orders) <=> Some(q, Orders)
        /\ HasNothing(Append(q, m)) <=> HasNothing(q)
        /\ \A t \in Tasks \ {None} : Carries(Append(q, m), t) <=> Carries(q, t)
        /\ Some(Append(q, m), Failure) <=> Some(q, Failure)
    BY <1>2, <2>1, OtherPushed
  <2>4. CASE toExecutor'[f] = Append(q, m)
    BY <2>3, <2>4 DEF SameOrders, Told, Given, q
  <2>5. CASE toExecutor'[f] = q
    BY <2>1, <2>5 DEF SameOrders, Told, Given, q
  <2> QED
    BY <2>2, <2>4, <2>5
<1> QED
  BY <1>5, <1>6

LEMMA PreparatorExitsKeeps ==
    ASSUME PreparationInv, NEW h \in Hosts, PreparatorExits(h)
    PROVE  PreparationInv'
<1> USE DEF preparatorVars, executorVars, coordinatorVars
<1>0. MailOK /\ PreparationTypeOK
  BY MailFits DEF PreparationInv
<1>1. fromCoordinator[h] # <<>> /\ Head(fromCoordinator[h]).type = "ActorExitRequest"
        /\ fromCoordinator' = Popped(fromCoordinator, h) /\ exited' = exited \union {h}
        /\ toExecutor' = SentToChildren(h, Msg("ActorExitRequest"))
        /\ UNCHANGED <<preparatorVars, executorVars, coordinatorVars, failures, crashes, toCoordinator, toPreparator>>
  BY DEF PreparatorExits, Receives
<1>2. /\ fromCoordinator' \in [Hosts -> Seq(Messages)]
      /\ \A g \in Hosts \ {h} : fromCoordinator'[g] = fromCoordinator[g]
      /\ Single(fromCoordinator'[h], Begin) /\ (Some(fromCoordinator'[h], Begin) <=> Some(fromCoordinator[h], Begin))
      /\ Some(fromCoordinator[h], Exit)
  BY <1>0, <1>1, ExitTaken
<1>3. /\ toExecutor' \in [Executors -> Seq(Messages)]
      /\ \A f \in Executors : SameOrders(f) /\ (Some(toExecutor'[f], Failure) <=> Some(toExecutor[f], Failure))
  BY <1>0, <1>1, ExitsSent
<1>4. PreparationTypeOK'
  BY <1>0, <1>1, <1>2, <1>3 DEF PreparationTypeOK
<1>5. OneTurn' /\ TasksInv' /\ \A g \in Hosts : Active(g)' = Active(g)
  BY <1>1, <1>3, NoOrders
<1>6. RoundsCounted'
  <2>1. \A g \in Hosts : RoundOf(g)
    BY DEF PreparationInv, RoundsCounted
  <2>2. RoundOf(h)'
    BY <1>1, <1>2, <1>5, <2>1 DEF RoundOf
  <2> QED
    BY <1>1, <1>2, <1>5, <2>1, <2>2 DEF RoundsCounted, RoundOf
<1>7. Unprepared' = Unprepared /\ Reporting' = Reporting /\ \A g \in Hosts : Single(toCoordinator'[g], Ready)
  BY <1>0, <1>1 DEF Unprepared, Reporting, MailOK
<1>8. ASSUME NEW g \in Hosts, Stuck(g) PROVE Stuck(g)'
  <2>1. Some(fromCoordinator'[g], Begin) <=> Some(fromCoordinator[g], Begin)
    BY <1>2
  <2> QED
    BY <1>1, <1>5, <1>8, <2>1 DEF Stuck
<1>9. HostsCounted'
  BY <1>1, <1>7, <1>8, HostsSame
<1>10. FailuresKnown'
  BY <1>1, <1>3 DEF PreparationInv, FailuresKnown
<1>11. "PreparationComplete" \in reports
  BY <1>2 DEF PreparationInv, ExitsKnown
<1>12. ExitsKnown'
  BY <1>1, <1>7, <1>11 DEF PreparationInv, ExitsKnown
<1> QED
  BY <1>4, <1>5, <1>6, <1>9, <1>10, <1>12 DEF PreparationInv

\* The preparator sends e a failure.
LEMMA FailureReturned ==
    ASSUME MailOK, NEW e \in Executors, toExecutor' = Sent(toExecutor, e, Msg("BenchmarkFailure"))
    PROVE  /\ toExecutor' \in [Executors -> Seq(Messages)]
           /\ \A f \in Executors \ {e} : toExecutor'[f] = toExecutor[f]
           /\ SameOrders(e) /\ (Some(toExecutor'[e], Exit) <=> Some(toExecutor[e], Exit))
<1> DEFINE q == toExecutor[e]
           m == Msg("BenchmarkFailure")
<1>0. toExecutor \in [Executors -> Seq(Messages)]
  BY DEF MailOK
<1>1. q \in Seq(Messages) /\ TasksInOrders(q) /\ Single(q, Orders)
  BY DEF MailOK
<1>2. m \in Messages /\ m.task = None /\ m.type \notin Orders /\ m.type \notin Exit
  BY MessagesTyped, TypesApart DEF Types, Msg
<1>3. toExecutor' \in [Executors -> Seq(Messages)]
        /\ \A j \in Executors : toExecutor'[j] = IF j = e THEN Append(q, m) ELSE toExecutor[j]
  BY <1>0, <1>2, SentAt
<1> HIDE DEF q, m
<1>4. /\ Append(q, m) \in Seq(Messages)
      /\ Single(Append(q, m), Orders) /\ TasksInOrders(Append(q, m))
      /\ Some(Append(q, m), Orders) <=> Some(q, Orders)
      /\ HasNothing(Append(q, m)) <=> HasNothing(q)
      /\ \A t \in Tasks \ {None} : Carries(Append(q, m), t) <=> Carries(q, t)
      /\ Some(Append(q, m), Exit) <=> Some(q, Exit)
  BY <1>1, <1>2, OtherPushed
<1> QED
  BY <1>3, <1>4 DEF q, SameOrders, Told, Given

\* The preparator is done with its last round.
LEMMA LastRound ==
    ASSUME PreparationInv, NEW e \in Executors, NEW h \in Hosts, h = HostOf[e], LastWorkerIdle(e),
           toExecutor' \in [Executors -> Seq(Messages)],
           \A f \in Executors \ {e} : toExecutor'[f] = toExecutor[f],
           SameOrders(e), status' = [status EXCEPT ![h] = "PROCESSOR_COMPLETE"],
           NEW p \in 1 .. Processors, processor' = [processor EXCEPT ![h] = p], p = processor[h] \/ p = processor[h] + 1,
           tasks' = tasks, failures' = 0 => failures = 0 /\ p = Processors /\ p = processor[h]
    PROVE  /\ OneTurn' /\ RoundsCounted' /\ TasksInv'
           /\ Unprepared' = Unprepared \ {h} /\ h \in Unprepared /\ ~Stuck(h)
           /\ \A g \in Hosts \ {h} : Stuck(g) => Stuck(g)'
           /\ status' \in [Hosts -> {"INITIALIZING", "PROCESSOR_RUNNING", "PROCESSOR_COMPLETE"}]
           /\ processor' \in [Hosts -> 0 .. Processors]
           /\ responses' \in [Hosts -> Nat] /\ \A g \in Hosts : responses'[g] < Cardinality(Children(g))
           /\ TakesQuestion(e)
<1> USE DEF executorVars, coordinatorVars
<1>0. MailOK /\ PreparationTypeOK /\ RoundsCounted /\ TasksInv /\ OneTurn /\ TasksInOrder(h)
  BY MailFits DEF PreparationInv, TasksInv
<1>1. responses' = [responses EXCEPT ![h] = 0]
        /\ UNCHANGED <<future, wakeup, executed, prepared, reports, fromCoordinator>>
  BY DEF LastWorkerIdle
<1>2. /\ e \in Children(h) /\ status[h] = "PROCESSOR_RUNNING" /\ processor[h] \in 1 .. Processors
      /\ TakesQuestion(e) /\ ~Told(e) /\ ~Works(e)
      /\ \A f \in Children(h) \ {e} : ~HasTurn(f)
      /\ \A i \in 1 .. processor[h] : TasksOf(h, i) \subseteq executed[h]
      /\ ~Stuck(h)
  BY RoundEnds
<1>3. /\ status' \in [Hosts -> {"INITIALIZING", "PROCESSOR_RUNNING", "PROCESSOR_COMPLETE"}] /\ status'[h] = "PROCESSOR_COMPLETE"
      /\ processor' \in [Hosts -> 0 .. Processors] /\ processor'[h] = p
      /\ responses' \in [Hosts -> Nat] /\ responses'[h] = 0
      /\ \A g \in Hosts \ {h} : status'[g] = status[g] /\ processor'[g] = processor[g] /\ responses'[g] = responses[g]
  <2>1. p \in 0 .. Processors
    OBVIOUS
  <2> QED
    BY <1>0, <1>1, <2>1 DEF PreparationTypeOK
<1>4. \A g \in Hosts : responses'[g] < Cardinality(Children(g))
  <2>1. responses[h] \in Nat /\ Cardinality(Children(h)) \in Nat /\ \A g \in Hosts : responses[g] < Cardinality(Children(g))
    BY <1>0, ActiveCounted DEF PreparationTypeOK
  <2>2. 0 < Cardinality(Children(h))
    BY <2>1
  <2> QED
    BY <1>3, <2>1, <2>2
<1>5. ElsewhereSame(e)
  BY <1>1, <1>2 DEF ElsewhereSame, TakesQuestion
<1>6. ~Told(e)' /\ ~Asks(e)' /\ ~Works(e)' /\ ~HasTurn(e)'
  BY <1>1, <1>2 DEF SameOrders, TakesQuestion, Works, HasTurn
<1>7. \A f \in Executors \ {e} : HasTurn(f)' <=> HasTurn(f)
  BY <1>5, Elsewhere
<1>8. ASSUME NEW f \in Executors PROVE TurnOf(f)'
  <2>1. TurnOf(f)
    BY <1>0 DEF OneTurn
  <2>2. CASE f = e
    BY <1>1, <1>2, <1>6, <2>1, <2>2 DEF TurnOf, SameOrders, TakesQuestion
  <2>3. CASE f # e
    <3>1. (Told(f)' <=> Told(f)) /\ (Asks(f)' <=> Asks(f)) /\ (Works(f)' <=> Works(f)) /\ (HasTurn(f)' <=> HasTurn(f))
      BY <1>5, <2>3, Elsewhere
    <3>2. toExecutor'[f] = toExecutor[f] /\ toPreparator'[f] = toPreparator[f] /\ future'[f] = future[f] /\ wakeup'[f] = wakeup[f]
      BY <1>5, <2>3 DEF ElsewhereSame
    <3>3. HasTurn(f) => HostOf[f] \in Hosts \ {h}
      BY <1>2, <2>3, HostsAssumption DEF Children
    <3> QED
      BY <1>3, <2>1, <3>1, <3>2, <3>3 DEF TurnOf
  <2> QED
    BY <2>2, <2>3
<1>9. OneTurn'
  BY <1>8 DEF OneTurn
<1>10. Active(h)' = {}
  <2>1. \A f \in Children(h) : ~HasTurn(f)'
    BY <1>2, <1>6, <1>7 DEF Children
  <2> QED
    BY <2>1 DEF Active
<1>11. \A g \in Hosts \ {h} : Active(g)' = Active(g)
  BY <1>2, <1>7 DEF Active, Children
<1>12. RoundOf(h)'
  <2>1. Cardinality(Children(h)) \in Nat /\ Cardinality(Active(h))' = 0
    BY <1>10, ActiveCounted, FS_EmptySet
  <2>2. Single(fromCoordinator'[h], Begin) /\ ~Some(fromCoordinator'[h], Begin)
    BY <1>0, <1>1, <1>2 DEF RoundsCounted, RoundOf
  <2> QED
    BY <1>3, <2>1, <2>2 DEF RoundOf
<1>13. RoundsCounted'
  BY <1>0, <1>1, <1>3, <1>11, <1>12 DEF RoundsCounted, RoundOf
<1>14. Unprepared' = Unprepared \ {h} /\ h \in Unprepared
  BY <1>2, <1>3 DEF Unprepared
<1>15. ASSUME NEW g \in Hosts \ {h}, Stuck(g) PROVE Stuck(g)'
  BY <1>1, <1>3, <1>11, <1>15, StuckStays
<1>16. ASSUME NEW f \in Children(h)
       PROVE  (\A t \in Tasks \ {None} : ~Given(f, t)') /\ future'[f].task = None
  <2>1. CASE f = e
    <3>1. \A t \in Tasks \ {None} : ~Given(e, t)
      BY <1>2, GivenTold
    <3>2. future[e].task = None
      BY <1>0, <1>2 DEF OneTurn, TurnOf, Works
    <3> QED
      BY <1>1, <2>1, <3>1, <3>2 DEF SameOrders
  <2>2. CASE f # e
    <3>1. f \in Executors /\ ~HasTurn(f) /\ toExecutor'[f] = toExecutor[f]
      BY <1>2, <2>2 DEF Children
    <3> QED
      BY <1>1, <3>1, Quiet DEF Given
  <2> QED
    BY <2>1, <2>2
<1>17. \A f \in Children(h) : Current(f)'
  BY <1>16 DEF Current
<1>18. TasksInOrder(h)'
  <2>1. \A i \in 1 .. p - 1 : TasksOf(h, i) \subseteq executed[h]
    BY <1>2
  <2>2. \A t \in executed[h] : t.processor <= p
    <3> SUFFICES ASSUME NEW t \in executed[h] PROVE t.processor <= p
      OBVIOUS
    <3>1. t.processor <= processor[h] /\ t \in AllTasks(h)
      BY <1>0 DEF TasksInOrder, PreparationTypeOK
    <3>2. PICK i \in 1 .. Processors : t \in TasksOf(h, i)
      BY <3>1 DEF AllTasks
    <3>3. t.processor = i
      BY <3>2, TasksTyped
    <3> QED
      BY <1>2, <3>1, <3>2, <3>3, ProcessorsAssumption
  <2>3. failures' = 0 => AllTasks(h) \subseteq executed[h]
    BY <1>2 DEF AllTasks
  <2> QED
    BY <1>1, <1>3, <2>1, <2>2, <2>3 DEF TasksInOrder
<1>19. TasksInv'
  <2>1. \A f \in Executors \ Children(h) :
            toExecutor'[f] = toExecutor[f] /\ toPreparator'[f] = toPreparator[f] /\ future'[f] = future[f]
    BY <1>2, <1>5 DEF ElsewhereSame
  <2> QED
    BY <1>1, <1>3, <1>17, <1>18, <2>1, TasksElsewhere
<1> QED
  BY <1>2, <1>3, <1>4, <1>9, <1>13, <1>14, <1>15, <1>19

\* The hosts are finitely many.
LEMMA HostsFinite ==
    /\ Cardinality(Hosts) \in Nat
    /\ IsFiniteSet(Unprepared) /\ Cardinality(Unprepared) \in Nat /\ Unprepared \subseteq Hosts
    /\ IsFiniteSet(Reporting) /\ Cardinality(Reporting) \in Nat /\ Reporting \subseteq Hosts
<1>1. Unprepared \subseteq Hosts /\ Reporting \subseteq Hosts
  BY DEF Unprepared, Reporting
<1>2. IsFiniteSet(Unprepared) /\ IsFiniteSet(Reporting)
  BY <1>1, HostsAssumption, FS_Subset
<1> QED
  BY <1>1, <1>2, HostsAssumption, FS_CardinalityType

LEMMA ResumeRaisesKeeps ==
    ASSUME PreparationInv, NEW e \in Executors, ResumeRaises(e)
    PROVE  PreparationInv'
<1> USE DEF executorVars, coordinatorVars
<1> DEFINE h == HostOf[e]
           p == processor[h] + 1
<1>0. MailOK /\ PreparationTypeOK /\ h \in Hosts
  BY MailFits, HostsAssumption DEF PreparationInv
<1>1. LastWorkerIdle(e) /\ processor[h] < Processors /\ Raises
        /\ processor' = [processor EXCEPT ![h] = p] /\ status' = [status EXCEPT ![h] = "PROCESSOR_COMPLETE"]
        /\ toExecutor' = Sent(toExecutor, e, Msg("BenchmarkFailure")) /\ UNCHANGED <<tasks, toCoordinator>>
  BY DEF ResumeRaises
<1>2. UNCHANGED <<future, wakeup, executed, prepared, reports, fromCoordinator>>
  BY <1>1 DEF LastWorkerIdle
<1>3. failures' = failures + 1 /\ failures \in Nat /\ failures' \in 0 .. MaxFailures /\ UNCHANGED <<exited, crashes>>
  BY <1>0, <1>1, ProcessorsAssumption DEF Raises, PreparationTypeOK
<1>4. p \in 1 .. Processors
  <2>1. processor[h] \in 0 .. Processors /\ Processors \in Nat
    BY <1>0, ProcessorsAssumption DEF PreparationTypeOK
  <2> QED
    BY <1>1, <2>1
<1>5. /\ toExecutor' \in [Executors -> Seq(Messages)]
      /\ \A f \in Executors \ {e} : toExecutor'[f] = toExecutor[f]
      /\ SameOrders(e) /\ (Some(toExecutor'[e], Exit) <=> Some(toExecutor[e], Exit))
  BY <1>0, <1>1, FailureReturned
<1>6. failures' # 0
  BY <1>3
<1>7. p = processor[h] + 1
  OBVIOUS
<1> HIDE DEF h, p
<1>8. /\ OneTurn' /\ RoundsCounted' /\ TasksInv'
      /\ Unprepared' = Unprepared \ {h} /\ h \in Unprepared
      /\ status' \in [Hosts -> {"INITIALIZING", "PROCESSOR_RUNNING", "PROCESSOR_COMPLETE"}]
      /\ processor' \in [Hosts -> 0 .. Processors]
      /\ responses' \in [Hosts -> Nat] /\ (\A g \in Hosts : responses'[g] < Cardinality(Children(g)))
      /\ TakesQuestion(e)
  BY <1>0, <1>1, <1>4, <1>5, <1>6, <1>7, LastRound DEF h
<1>9. PreparationTypeOK'
  BY <1>0, <1>1, <1>2, <1>3, <1>5, <1>8 DEF PreparationTypeOK, TakesQuestion
<1>10. Reporting' = Reporting /\ prepared \in Nat
  BY <1>0, <1>1, HostsFinite DEF Reporting, PreparationTypeOK
<1>11. Cardinality(Unprepared') = Cardinality(Unprepared) - 1
  BY <1>8, HostsFinite, FS_RemoveElement
<1>12. Answers' = Answers - 1 /\ Answers \in Nat
  BY <1>2, <1>10, <1>11, HostsFinite DEF Answers
<1>13. HostsCounted'
  <2>1. HostsCounted
    BY DEF PreparationInv
  <2>2. Answers' < Cardinality(Hosts)
    BY <1>12, <2>1, HostsFinite DEF HostsCounted
  <2>3. Answers' <= Cardinality(Hosts)
    BY <1>12, <2>1, HostsFinite DEF HostsCounted
  <2>4. \A g \in Hosts : Single(toCoordinator'[g], Ready) /\ (g \in Reporting' => g \notin Unprepared')
    BY <1>1, <1>8, <1>10, <2>1 DEF HostsCounted
  <2> QED
    BY <2>2, <2>3, <2>4 DEF HostsCounted
<1>14. FailuresKnown'
  BY <1>3 DEF FailuresKnown
<1>15. ExitsKnown'
  <2>1. "PreparationComplete" \notin reports
    BY <1>8 DEF PreparationInv, ExitsKnown
  <2>2. \A f \in Executors : Some(toExecutor'[f], Exit) => Some(toExecutor[f], Exit)
    BY <1>5
  <2> QED
    BY <1>2, <2>1, <2>2 DEF PreparationInv, ExitsKnown
<1> QED
  BY <1>8, <1>9, <1>13, <1>14, <1>15 DEF PreparationInv

LEMMA ResumeDoneKeeps ==
    ASSUME PreparationInv, NEW e \in Executors, ResumeDone(e)
    PROVE  PreparationInv'
<1> USE DEF executorVars, coordinatorVars, environmentVars
<1> DEFINE h == HostOf[e]
<1>0. MailOK /\ PreparationTypeOK /\ h \in Hosts /\ HostsCounted
  BY MailFits, HostsAssumption DEF PreparationInv
<1>1. LastWorkerIdle(e) /\ processor[h] = Processors
        /\ status' = [status EXCEPT ![h] = "PROCESSOR_COMPLETE"]
        /\ toCoordinator' = Sent(toCoordinator, h, Msg("WorkloadPrepared"))
        /\ UNCHANGED <<processor, tasks, environmentVars, toExecutor>>
  BY DEF ResumeDone
<1>2. UNCHANGED <<future, wakeup, executed, prepared, reports, fromCoordinator>>
  BY <1>1 DEF LastWorkerIdle
<1>3. processor' = [processor EXCEPT ![h] = Processors] /\ Processors \in 1 .. Processors
  BY <1>0, <1>1, ProcessorsAssumption DEF PreparationTypeOK
<1>4. toExecutor' \in [Executors -> Seq(Messages)] /\ toExecutor' = toExecutor /\ SameOrders(e)
  BY <1>0, <1>1, NoMail DEF MailOK
<1>5. /\ OneTurn' /\ RoundsCounted' /\ TasksInv'
      /\ Unprepared' = Unprepared \ {h} /\ h \in Unprepared /\ ~Stuck(h)
      /\ (\A g \in Hosts \ {h} : Stuck(g) => Stuck(g)')
      /\ status' \in [Hosts -> {"INITIALIZING", "PROCESSOR_RUNNING", "PROCESSOR_COMPLETE"}]
      /\ processor' \in [Hosts -> 0 .. Processors]
      /\ responses' \in [Hosts -> Nat] /\ (\A g \in Hosts : responses'[g] < Cardinality(Children(g)))
      /\ TakesQuestion(e)
  BY <1>0, <1>1, <1>3, <1>4, LastRound
<1>6. Tells(h, "WorkloadPrepared") /\ h \notin Reporting
  <2>1. h \notin Reporting
    BY <1>0, <1>5 DEF HostsCounted
  <2>2. ~Some(toCoordinator[h], Ready)
    BY <1>0, <2>1 DEF Reporting
  <2> QED
    BY <1>0, <1>1, <2>1, <2>2, CoordinatorTold
<1>7. PreparationTypeOK'
  BY <1>0, <1>1, <1>2, <1>4, <1>5, <1>6 DEF PreparationTypeOK, TakesQuestion, Tells
<1>8. Reporting' = Reporting \union {h} /\ prepared \in Nat
  <2>1. Reporting' = Reporting \union {h}
    BY <1>0, <1>6 DEF Reporting, Tells
  <2>2. prepared \in Nat
    BY <1>0, HostsFinite DEF PreparationTypeOK
  <2> QED
    BY <2>1, <2>2
<1>9. Cardinality(Unprepared') = Cardinality(Unprepared) - 1
  BY <1>5, HostsFinite, FS_RemoveElement
<1>10. Cardinality(Reporting') = Cardinality(Reporting) + 1
  BY <1>6, <1>8, HostsFinite, FS_AddElement
<1>11. Answers' = Answers
  BY <1>2, <1>8, <1>9, <1>10, HostsFinite DEF Answers
<1>12. HostsCounted'
  <2>1. \A g \in Hosts : Single(toCoordinator'[g], Ready) /\ (g \in Reporting' => g \notin Unprepared')
    BY <1>0, <1>5, <1>6, <1>8 DEF HostsCounted, Tells
  <2>2. ASSUME failures' > 0 PROVE Answers' < Cardinality(Hosts) \/ \E g \in Unprepared' : Stuck(g)'
    <3> SUFFICES ASSUME ~(Answers < Cardinality(Hosts)) PROVE \E g \in Unprepared' : Stuck(g)'
      BY <1>11
    <3>1. PICK g \in Unprepared : Stuck(g)
      BY <1>0, <1>1, <2>2 DEF HostsCounted
    <3>2. g \in Hosts \ {h}
      BY <1>5, <3>1, HostsFinite
    <3> QED
      BY <1>5, <3>1, <3>2
  <2> QED
    BY <1>0, <1>11, <2>1, <2>2 DEF HostsCounted
<1>13. FailuresKnown'
  <2>1. \A g \in Hosts : Some(toCoordinator'[g], Failure) => Some(toCoordinator[g], Failure)
    BY <1>6 DEF Tells
  <2>2. \A f \in Executors : Some(toPreparator'[f], Failure) => Some(toPreparator[f], Failure)
    BY <1>5 DEF TakesQuestion
  <2> QED
    BY <1>1, <1>2, <2>1, <2>2 DEF PreparationInv, FailuresKnown
<1>14. ExitsKnown'
  <2>1. "PreparationComplete" \notin reports
    BY <1>5 DEF PreparationInv, ExitsKnown
  <2> QED
    BY <1>1, <1>2, <2>1 DEF PreparationInv, ExitsKnown
<1> QED
  BY <1>5, <1>7, <1>12, <1>13, <1>14 DEF PreparationInv

-----------------------------------------------------------------------------
(* ... the coordinator and the crashes *)

LEMMA CrashKeeps ==
    ASSUME PreparationInv, NEW a \in Hosts \union Executors, Crash(a)
    PROVE  PreparationInv'
<1> USE DEF preparatorVars, executorVars, coordinatorVars
<1>0. MailOK /\ PreparationTypeOK
  BY MailFits DEF PreparationInv
<1>1. exited' = exited \union {a} /\ crashes' \in 0 .. MaxCrashes
        /\ UNCHANGED <<preparatorVars, executorVars, coordinatorVars, failures, fromCoordinator,
                       toCoordinator, toExecutor, toPreparator>>
  BY <1>0, ProcessorsAssumption DEF Crash, PreparationTypeOK
<1>2. PreparationTypeOK'
  BY <1>0, <1>1 DEF PreparationTypeOK
<1>3. OneTurn' /\ TasksInv' /\ \A g \in Hosts : Active(g)' = Active(g)
  BY <1>1, NoMail, NoOrders
<1>4. RoundsCounted'
  BY <1>1, <1>3 DEF PreparationInv, RoundsCounted, RoundOf
<1>5. Unprepared' = Unprepared /\ Reporting' = Reporting /\ \A g \in Hosts : Single(toCoordinator'[g], Ready)
  BY <1>0, <1>1 DEF Unprepared, Reporting, MailOK
<1>6. ASSUME NEW g \in Hosts, Stuck(g) PROVE Stuck(g)'
  BY <1>1, <1>3, <1>6, StuckStays
<1>7. HostsCounted'
  BY <1>1, <1>5, <1>6, HostsSame
<1>8. FailuresKnown' /\ ExitsKnown'
  BY <1>1, <1>5 DEF PreparationInv, FailuresKnown, ExitsKnown
<1> QED
  BY <1>2, <1>3, <1>4, <1>7, <1>8 DEF PreparationInv

\* A preparator's message is taken.
LEMMA ReportTaken ==
    ASSUME MailOK, NEW h \in Hosts, toCoordinator[h] # <<>>, toCoordinator' = Popped(toCoordinator, h),
           Head(toCoordinator[h]).type \in {"WorkloadPrepared", "BenchmarkFailure"}
    PROVE  /\ toCoordinator' \in [Hosts -> Seq(Messages)]
           /\ \A g \in Hosts \ {h} : toCoordinator'[g] = toCoordinator[g]
           /\ \A g \in Hosts : Single(toCoordinator'[g], Ready)
           /\ Head(toCoordinator[h]).type = "WorkloadPrepared" => ~Some(toCoordinator'[h], Ready) /\ Some(toCoordinator[h], Ready)
           /\ Head(toCoordinator[h]).type = "BenchmarkFailure" =>
                (Some(toCoordinator'[h], Ready) <=> Some(toCoordinator[h], Ready)) /\ Some(toCoordinator[h], Failure)
           /\ Some(toCoordinator'[h], Failure) => Some(toCoordinator[h], Failure)
<1> DEFINE q == toCoordinator[h]
<1>0. toCoordinator \in [Hosts -> Seq(Messages)] /\ \A g \in Hosts : Single(toCoordinator[g], Ready)
  BY DEF MailOK
<1>1. q \in Seq(Messages) /\ Single(q, Ready)
  BY <1>0
<1>2. toCoordinator' \in [Hosts -> Seq(Messages)]
        /\ \A j \in Hosts : toCoordinator'[j] = IF j = h THEN Tail(q) ELSE toCoordinator[j]
  BY <1>0, PoppedAt
<1>3. Single(Tail(q), Ready) /\ (Some(Tail(q), Failure) => Some(q, Failure))
  BY <1>1, Handled
<1>4. Head(q).type = "WorkloadPrepared" => ~Some(Tail(q), Ready) /\ Some(q, Ready)
  BY <1>1, Handled, TypesApart
<1>5. Head(q).type = "BenchmarkFailure" => (Some(Tail(q), Ready) <=> Some(q, Ready)) /\ Some(q, Failure)
  BY <1>1, Handled, TypesApart
<1> HIDE DEF q
<1> QED
  BY <1>0, <1>2, <1>3, <1>4, <1>5 DEF q

LEMMA CoordinatorFailsKeeps ==
    ASSUME PreparationInv, NEW h \in Hosts, CoordinatorFails(h)
    PROVE  PreparationInv'
<1> USE DEF preparatorVars, executorVars, environmentVars
<1>0. MailOK /\ PreparationTypeOK /\ FailuresKnown /\ ExitsKnown
  BY MailFits DEF PreparationInv
<1>1. toCoordinator[h] # <<>> /\ Head(toCoordinator[h]).type = "BenchmarkFailure"
        /\ toCoordinator' = Popped(toCoordinator, h) /\ reports' = reports \union {"BenchmarkFailure"}
        /\ UNCHANGED <<preparatorVars, executorVars, prepared, environmentVars, fromCoordinator, toExecutor, toPreparator>>
  BY DEF CoordinatorFails, Receives
<1>2. /\ toCoordinator' \in [Hosts -> Seq(Messages)]
      /\ \A g \in Hosts \ {h} : toCoordinator'[g] = toCoordinator[g]
      /\ \A g \in Hosts : Single(toCoordinator'[g], Ready)
      /\ Some(toCoordinator'[h], Ready) <=> Some(toCoordinator[h], Ready)
      /\ Some(toCoordinator[h], Failure)
      /\ Some(toCoordinator'[h], Failure) => Some(toCoordinator[h], Failure)
  BY <1>0, <1>1, ReportTaken
<1>3. PreparationTypeOK'
  BY <1>0, <1>1, <1>2 DEF PreparationTypeOK
<1>4. OneTurn' /\ TasksInv' /\ \A g \in Hosts : Active(g)' = Active(g)
  BY <1>1, NoMail, NoOrders
<1>5. RoundsCounted'
  BY <1>1, <1>4 DEF PreparationInv, RoundsCounted, RoundOf
<1>6. Unprepared' = Unprepared /\ Reporting' = Reporting
  BY <1>1, <1>2 DEF Unprepared, Reporting
<1>7. ASSUME NEW g \in Hosts, Stuck(g) PROVE Stuck(g)'
  BY <1>1, <1>4, <1>7, StuckStays
<1>8. HostsCounted'
  BY <1>1, <1>2, <1>6, <1>7, HostsSame
<1>9. failures > 0
  BY <1>0, <1>2 DEF FailuresKnown
<1>10. FailuresKnown'
  BY <1>1, <1>9 DEF FailuresKnown
<1>11. ExitsKnown'
  BY <1>0, <1>1, <1>6 DEF ExitsKnown
<1> QED
  BY <1>3, <1>4, <1>5, <1>8, <1>10, <1>11 DEF PreparationInv

LEMMA WorkloadPreparedKeeps ==
    ASSUME PreparationInv, NEW h \in Hosts, WorkloadPrepared(h)
    PROVE  PreparationInv'
<1> USE DEF preparatorVars, executorVars, environmentVars
<1>0. MailOK /\ PreparationTypeOK /\ FailuresKnown /\ ExitsKnown /\ HostsCounted
  BY MailFits DEF PreparationInv
<1>1. toCoordinator[h] # <<>> /\ Head(toCoordinator[h]).type = "WorkloadPrepared"
        /\ toCoordinator' = Popped(toCoordinator, h)
        /\ UNCHANGED <<preparatorVars, executorVars, environmentVars, toExecutor, toPreparator>>
  BY DEF WorkloadPrepared, Receives
<1>2. /\ toCoordinator' \in [Hosts -> Seq(Messages)]
      /\ \A g \in Hosts \ {h} : toCoordinator'[g] = toCoordinator[g]
      /\ \A g \in Hosts : Single(toCoordinator'[g], Ready)
      /\ ~Some(toCoordinator'[h], Ready) /\ Some(toCoordinator[h], Ready)
      /\ Some(toCoordinator'[h], Failure) => Some(toCoordinator[h], Failure)
  BY <1>0, <1>1, ReportTaken
<1>3. OneTurn' /\ TasksInv' /\ \A g \in Hosts : Active(g)' = Active(g)
  BY <1>1, NoMail, NoOrders
<1>4. Unprepared' = Unprepared /\ Reporting' = Reporting \ {h} /\ h \in Reporting
  BY <1>1, <1>2 DEF Unprepared, Reporting
<1>5. Cardinality(Reporting') = Cardinality(Reporting) - 1 /\ Cardinality(Reporting) > 0 /\ prepared \in Nat
  <2>1. Cardinality(Reporting') = Cardinality(Reporting) - 1 /\ IsFiniteSet(Reporting')
    BY <1>4, HostsFinite, FS_RemoveElement
  <2>2. Cardinality(Reporting') \in Nat
    BY <2>1, FS_CardinalityType
  <2>3. prepared \in Nat
    BY <1>0, HostsFinite DEF PreparationTypeOK
  <2> QED
    BY <2>1, <2>2, <2>3, HostsFinite
<1>6. CASE prepared + 1 # Cardinality(Hosts)
  <2>1. prepared' = prepared + 1 /\ UNCHANGED <<reports, fromCoordinator>>
    BY <1>6 DEF WorkloadPrepared
  <2>2. prepared' \in 0 .. Cardinality(Hosts) - 1
    BY <1>0, <1>6, <2>1, HostsFinite DEF PreparationTypeOK
  <2>3. PreparationTypeOK'
    BY <1>0, <1>1, <1>2, <2>1, <2>2 DEF PreparationTypeOK
  <2>4. RoundsCounted'
    BY <1>1, <1>3, <2>1 DEF PreparationInv, RoundsCounted, RoundOf
  <2>5. ASSUME NEW g \in Hosts, Stuck(g) PROVE Stuck(g)'
    BY <1>1, <1>3, <2>1, <2>5, StuckStays
  <2>6. Answers' = Answers
    BY <1>4, <1>5, <2>1, HostsFinite DEF Answers
  <2>7. HostsCounted'
    <3>1. failures' > 0 => Answers' < Cardinality(Hosts) \/ \E g \in Unprepared' : Stuck(g)'
      BY <1>0, <1>1, <1>4, <2>5, <2>6, HostsFinite DEF HostsCounted
    <3>2. \A g \in Hosts : Single(toCoordinator'[g], Ready) /\ (g \in Reporting' => g \notin Unprepared')
      BY <1>0, <1>2, <1>4 DEF HostsCounted
    <3> QED
      BY <1>0, <2>6, <3>1, <3>2 DEF HostsCounted
  <2>8. FailuresKnown'
    BY <1>0, <1>1, <1>2, <2>1 DEF FailuresKnown
  <2>9. ExitsKnown'
    BY <1>0, <1>1, <1>4, <2>1 DEF ExitsKnown
  <2> QED
    BY <1>3, <2>3, <2>4, <2>7, <2>8, <2>9 DEF PreparationInv
<1>7. CASE prepared + 1 = Cardinality(Hosts)
  <2> DEFINE m == Msg("ActorExitRequest")
  <2>1. prepared' = 0 /\ reports' = reports \union {"PreparationComplete"}
          /\ fromCoordinator' = [g \in Hosts |-> Append(fromCoordinator[g], m)]
    BY <1>7 DEF WorkloadPrepared
  <2>2. Answers <= Cardinality(Hosts)
    BY <1>0 DEF HostsCounted
  <2>3. Cardinality(Unprepared) = 0 /\ Answers = Cardinality(Hosts) /\ Cardinality(Reporting) = 1
    BY <1>5, <1>7, <2>2, HostsFinite DEF Answers
  <2>4. Unprepared = {}
    BY <2>3, HostsFinite, FS_EmptySet
  <2>5. failures = 0
    <3>1. failures \in Nat /\ Cardinality(Hosts) \in Nat
      BY <1>0, HostsFinite DEF PreparationTypeOK
    <3>2. ~(failures > 0)
      BY <1>0, <2>3, <2>4, <3>1 DEF HostsCounted
    <3> QED
      BY <3>1, <3>2
  <2>6. m \in Messages /\ m.type = "ActorExitRequest" /\ m.type \notin Begin
    BY MessagesTyped, TypesApart DEF Types
  <2> HIDE DEF m
  <2>7. \A g \in Hosts : fromCoordinator[g] \in Seq(Messages) /\ Append(fromCoordinator[g], m) \in Seq(Messages)
    BY <1>0, <2>6 DEF MailOK
  <2>8. fromCoordinator' \in [Hosts -> Seq(Messages)]
    BY <2>1, <2>7
  <2>9. ASSUME NEW g \in Hosts
        PROVE  Single(fromCoordinator'[g], Begin) /\ (Some(fromCoordinator'[g], Begin) <=> Some(fromCoordinator[g], Begin))
    <3> DEFINE q == fromCoordinator[g]
    <3>1. fromCoordinator'[g] = Append(q, m) /\ q \in Seq(Messages) /\ Single(q, Begin)
      BY <1>0, <2>1, <2>7 DEF MailOK
    <3> HIDE DEF q
    <3>2. Single(Append(q, m), Begin) /\ (Some(Append(q, m), Begin) <=> Some(q, Begin))
      BY <2>6, <3>1, Pushed
    <3> QED
      BY <3>1, <3>2 DEF q
  <2>10. PreparationTypeOK'
    <3>1. 0 \in 0 .. Cardinality(Hosts) - 1
      BY <1>5, <1>7, HostsFinite
    <3> QED
      BY <1>0, <1>1, <1>2, <2>1, <2>8, <3>1 DEF PreparationTypeOK
  <2>11. RoundsCounted'
    BY <1>1, <1>3, <2>9 DEF PreparationInv, RoundsCounted, RoundOf
  <2>12. HostsCounted'
    <3>1. Answers' <= Cardinality(Hosts)
      BY <1>4, <1>5, <2>1, <2>3, HostsFinite DEF Answers
    <3>2. \A g \in Hosts : Single(toCoordinator'[g], Ready) /\ (g \in Reporting' => g \notin Unprepared')
      BY <1>2, <1>4, <2>4
    <3>3. ~(failures' > 0)
      BY <1>1, <2>5
    <3> QED
      BY <3>1, <3>2, <3>3 DEF HostsCounted
  <2>13. FailuresKnown'
    BY <1>0, <1>1, <1>2, <2>1 DEF FailuresKnown
  <2>14. ExitsKnown'
    BY <1>1, <1>4, <2>1, <2>4, <2>5 DEF ExitsKnown
  <2> QED
    BY <1>3, <2>10, <2>11, <2>12, <2>13, <2>14 DEF PreparationInv
<1> QED
  BY <1>6, <1>7

-----------------------------------------------------------------------------
(* The invariant holds *)

LEMMA PreparationInitially == PreparationInit => PreparationInv
<1> SUFFICES ASSUME PreparationInit PROVE PreparationInv
  OBVIOUS
<1> DEFINE m == Msg("PrepareWorkload")
<1>1. /\ \A h \in Hosts : status[h] = "INITIALIZING" /\ processor[h] = 0 /\ tasks[h] = 0 /\ responses[h] = 0
                          /\ fromCoordinator[h] = <<m>> /\ toCoordinator[h] = <<>> /\ executed[h] = {}
      /\ \A e \in Executors : /\ future[e] = NoFuture /\ wakeup[e] = FALSE
                              /\ toExecutor[e] = <<>> /\ toPreparator[e] = <<>>
      /\ prepared = 0 /\ reports = {} /\ exited = {} /\ failures = 0 /\ crashes = 0
  BY DEF PreparationInit
<1>2. m \in Messages /\ m.type = "PrepareWorkload" /\ m.type \in Begin /\ m.type \notin Exit
  BY MessagesTyped, TypesApart DEF Types
<1> HIDE DEF m
<1>3. \A h \in Hosts : 0 < Cardinality(Children(h)) /\ Cardinality(Children(h)) \in Nat
  <2> SUFFICES ASSUME NEW h \in Hosts PROVE 0 < Cardinality(Children(h)) /\ Cardinality(Children(h)) \in Nat
    OBVIOUS
  <2>1. IsFiniteSet(Children(h)) /\ Cardinality(Children(h)) \in Nat /\ Children(h) # {}
    BY ActiveCounted, HostsAssumption
  <2> QED
    BY <2>1, FS_EmptySet
<1>4. Cardinality(Hosts) \in Nat /\ Cardinality(Hosts) > 0
  BY HostsFinite, HostsAssumption, FS_EmptySet
<1>5. NoFuture \in [task : Tasks, thread : Threads] /\ NoFuture.task = None /\ NoFuture.thread = "none"
  BY DEF NoFuture, Tasks, Threads
<1>6. PreparationTypeOK
  <2>1. <<m>> \in Seq(Messages) /\ <<>> \in Seq(Messages)
    BY <1>2
  <2>2. fromCoordinator \in [Hosts -> Seq(Messages)] /\ toCoordinator \in [Hosts -> Seq(Messages)]
          /\ toExecutor \in [Executors -> Seq(Messages)] /\ toPreparator \in [Executors -> Seq(Messages)]
    BY <2>1 DEF PreparationInit, m
  <2>3. status \in [Hosts -> {"INITIALIZING", "PROCESSOR_RUNNING", "PROCESSOR_COMPLETE"}]
          /\ processor \in [Hosts -> 0 .. Processors] /\ tasks \in [Hosts -> Nat] /\ responses \in [Hosts -> Nat]
    BY ProcessorsAssumption DEF PreparationInit
  <2>4. future \in [Executors -> [task : Tasks, thread : Threads]] /\ wakeup \in [Executors -> BOOLEAN]
    BY <1>5 DEF PreparationInit
  <2>5. executed \in [Hosts -> SUBSET Tasks]
    BY DEF PreparationInit
  <2>6. prepared \in 0 .. Cardinality(Hosts) - 1 /\ failures \in 0 .. MaxFailures /\ crashes \in 0 .. MaxCrashes
    BY <1>1, <1>4, ProcessorsAssumption
  <2> QED
    BY <1>1, <1>3, <2>2, <2>3, <2>4, <2>5, <2>6 DEF PreparationTypeOK
<1>7. ASSUME NEW e \in Executors
      PROVE  ~Told(e) /\ ~Asks(e) /\ ~Works(e) /\ ~HasTurn(e) /\ ~Idles(e) /\ \A t : ~Given(e, t)
  <2>1. ~Told(e) /\ ~Asks(e)
    BY <1>1 DEF Told, Asks, Some
  <2>2. ~Works(e)
    BY <1>1, <1>5 DEF Works
  <2>3. ~Idles(e) /\ \A t : ~Given(e, t)
    BY <1>1 DEF Idles, Given, Some, HasNothing, Carries
  <2> QED
    BY <2>1, <2>2, <2>3 DEF HasTurn
<1>8. OneTurn
  <2> SUFFICES ASSUME NEW e \in Executors PROVE TurnOf(e)
    BY DEF OneTurn
  <2>1. Single(toExecutor[e], Orders) /\ Single(toPreparator[e], Questions) /\ TasksInOrders(toExecutor[e])
    BY <1>1 DEF Single, TasksInOrders
  <2> QED
    BY <1>1, <1>5, <1>7, <2>1 DEF TurnOf
<1>9. RoundsCounted
  <2> SUFFICES ASSUME NEW h \in Hosts PROVE RoundOf(h)
    BY DEF RoundsCounted
  <2>1. Active(h) = {}
    BY <1>7 DEF Active, Children
  <2>2. Cardinality(Active(h)) = 0
    BY <2>1, FS_EmptySet
  <2>3. Single(fromCoordinator[h], Begin)
    BY <1>1 DEF Single
  <2> QED
    BY <1>1, <1>3, <2>2, <2>3 DEF RoundOf
<1>10. TasksInv
  <2>1. \A e \in Executors : Current(e)
    <3> SUFFICES ASSUME NEW e \in Executors PROVE Current(e)
      OBVIOUS
    <3>1. (\A t : ~Given(e, t)) /\ future[e].task = None
      BY <1>1, <1>5, <1>7
    <3> QED
      BY <3>1 DEF Current
  <2>2. \A h \in Hosts : TasksInOrder(h)
    BY <1>1 DEF TasksInOrder
  <2> QED
    BY <2>1, <2>2 DEF TasksInv
<1>11. HostsCounted
  <2>1. Reporting = {} /\ Unprepared = Hosts
    BY <1>1 DEF Reporting, Unprepared, Some
  <2>2. Answers <= Cardinality(Hosts)
    BY <1>1, <1>4, <2>1, FS_EmptySet DEF Answers
  <2>3. \A h \in Hosts : Single(toCoordinator[h], Ready)
    BY <1>1 DEF Single
  <2> QED
    BY <1>1, <2>1, <2>2, <2>3 DEF HostsCounted
<1>12. FailuresKnown
  BY <1>1, <1>5 DEF FailuresKnown, Some
<1>13. ExitsKnown
  <2>1. \A h \in Hosts : ~Some(fromCoordinator[h], Exit)
    BY <1>1, <1>2 DEF Some
  <2> QED
    BY <1>1, <2>1 DEF ExitsKnown, Some
<1> QED
  BY <1>6, <1>8, <1>9, <1>10, <1>11, <1>12, <1>13 DEF PreparationInv

LEMMA PreparationStutters ==
    ASSUME PreparationInv, UNCHANGED preparationVars
    PROVE  PreparationInv'
<1> USE DEF preparationVars, preparatorVars, executorVars, coordinatorVars, environmentVars
<1>1. OneTurn' /\ TasksInv' /\ \A g \in Hosts : Active(g)' = Active(g)
  BY NoMail, NoOrders
<1>2. PreparationTypeOK' /\ FailuresKnown'
  BY DEF PreparationInv, PreparationTypeOK, FailuresKnown
<1>3. RoundsCounted'
  BY <1>1 DEF PreparationInv, RoundsCounted, RoundOf
<1>4. Unprepared' = Unprepared /\ Reporting' = Reporting /\ \A g \in Hosts : Single(toCoordinator'[g], Ready)
  BY MailFits DEF Unprepared, Reporting, MailOK
<1>5. ASSUME NEW g \in Hosts, Stuck(g) PROVE Stuck(g)'
  BY <1>1, <1>5, StuckStays
<1>6. HostsCounted'
  BY <1>4, <1>5, HostsSame
<1>7. ExitsKnown'
  BY <1>4 DEF PreparationInv, ExitsKnown
<1> QED
  BY <1>1, <1>2, <1>3, <1>6, <1>7 DEF PreparationInv

LEMMA PreparationKept == PreparationInv /\ [PreparationNext]_preparationVars => PreparationInv'
<1> SUFFICES ASSUME PreparationInv, [PreparationNext]_preparationVars PROVE PreparationInv'
  OBVIOUS
<1>1. CASE CoordinatorStep
  BY <1>1, WorkloadPreparedKeeps, CoordinatorFailsKeeps DEF CoordinatorStep
<1>2. ASSUME NEW h \in Hosts, PreparatorStep(h) PROVE PreparationInv'
  <2>1. \A e \in Children(h) : e \in Executors
    BY DEF Children
  <2> QED
    BY <1>2, <2>1, PrepareWorkloadKeeps, PrepareWorkloadRaisesKeeps, PreparatorExitsKeeps, ReadyForWorkKeeps,
       WorkerIdleKeeps, ResumeNextProcessorKeeps, ResumeRaisesKeeps, ResumeDoneKeeps,
       PreparatorForwardsFailureKeeps DEF PreparatorStep
<1>3. ASSUME NEW e \in Executors, ExecutorStep(e) \/ TaskEnds(e) PROVE PreparationInv'
  BY <1>3, StartTaskLoopKeeps, DoNothingKeeps, SubmitTaskKeeps, WakeupDoneKeeps, WakeupFailedKeeps,
     ExecutorForwardsFailureKeeps, ExecutorExitsKeeps, TaskEndsKeeps DEF ExecutorStep
<1>4. ASSUME NEW a \in Hosts \union Executors, Crash(a) PROVE PreparationInv'
  BY <1>4, CrashKeeps
<1>5. CASE UNCHANGED preparationVars
  BY <1>5, PreparationStutters
<1> QED
  BY <1>1, <1>2, <1>3, <1>4, <1>5 DEF PreparationNext

-----------------------------------------------------------------------------
(* What follows from it *)

LEMMA AssertionsFollow == PreparationInv => AssertionsHold
<1> SUFFICES ASSUME PreparationInv, NEW e \in Executors
             PROVE  /\ Heads(toPreparator, e) = "WorkerIdle" =>
                          status[HostOf[e]] = "PROCESSOR_RUNNING"
                            /\ responses[HostOf[e]] < Cardinality(Children(HostOf[e]))
                    /\ Heads(toExecutor, e) = "DoTask" => future[e] = NoFuture
                    /\ Heads(fromCoordinator, HostOf[e]) = "PrepareWorkload" => status[HostOf[e]] = "INITIALIZING"
  BY DEF AssertionsHold
<1> DEFINE h == HostOf[e]
<1>1. h \in Hosts /\ TurnOf(e) /\ RoundOf(h) /\ PreparationTypeOK
  BY HostsAssumption DEF PreparationInv, OneTurn, RoundsCounted
<1>2. toExecutor[e] \in Seq(Messages) /\ toPreparator[e] \in Seq(Messages) /\ fromCoordinator[h] \in Seq(Messages)
        /\ responses[h] < Cardinality(Children(h)) /\ future[e] \in [task : Tasks, thread : Threads]
  BY <1>1 DEF PreparationTypeOK
<1>3. ASSUME NEW q \in Seq(Messages), NEW T, q # <<>>, Head(q).type \in T PROVE Some(q, T)
  BY <1>3, Handled
<1>4. ASSUME Heads(toPreparator, e) = "WorkerIdle" PROVE status[h] = "PROCESSOR_RUNNING"
  <2>1. toPreparator[e] # <<>> /\ Head(toPreparator[e]).type \in Questions
    BY <1>4, TypesApart DEF Heads
  <2>2. Asks(e)
    BY <1>2, <1>3, <2>1 DEF Asks
  <2> QED
    BY <1>1, <2>2 DEF TurnOf, HasTurn
<1>5. ASSUME Heads(toExecutor, e) = "DoTask" PROVE future[e] = NoFuture
  <2>1. toExecutor[e] # <<>> /\ Head(toExecutor[e]).type \in Orders
    BY <1>5, TypesApart DEF Heads
  <2>2. Told(e)
    BY <1>2, <1>3, <2>1 DEF Told
  <2>3. future[e].thread = "none" /\ future[e].task = None
    BY <1>1, <2>2 DEF TurnOf, Works
  <2> QED
    BY <1>2, <2>3 DEF NoFuture
<1>6. ASSUME Heads(fromCoordinator, h) = "PrepareWorkload" PROVE status[h] = "INITIALIZING"
  <2>1. fromCoordinator[h] # <<>> /\ Head(fromCoordinator[h]).type \in Begin
    BY <1>6, TypesApart DEF Heads
  <2> QED
    BY <1>1, <1>2, <1>3, <2>1 DEF RoundOf
<1> QED
  BY <1>2, <1>4, <1>5, <1>6

LEMMA OrderFollows == PreparationInv => ProcessorsInOrder
<1> SUFFICES ASSUME PreparationInv, NEW e \in Executors, future[e].thread = "running",
                    NEW p \in 1 .. future[e].task.processor - 1
             PROVE  TasksOf(HostOf[e], p) \subseteq executed[HostOf[e]]
  BY DEF ProcessorsInOrder
<1> DEFINE h == HostOf[e]
<1>1. h \in Hosts /\ TurnOf(e) /\ TasksInOrder(h) /\ Current(e)
  BY HostsAssumption DEF PreparationInv, OneTurn, TasksInv
<1>2. future[e].task # None /\ status[h] = "PROCESSOR_RUNNING"
  BY <1>1 DEF TurnOf, HasTurn, Works
<1>3. future[e].task \in TasksOf(h, processor[h]) /\ processor[h] \in 1 .. Processors
  BY <1>1, <1>2, RunsProcessor DEF Current
<1>4. future[e].task.processor = processor[h]
  BY <1>1, <1>3, TasksTyped
<1> QED
  BY <1>1, <1>4 DEF TasksInOrder

LEMMA OnePlaceFollows == PreparationInv => TaskInOnePlace
<1> SUFFICES ASSUME PreparationInv, NEW h \in Hosts, status[h] = "PROCESSOR_RUNNING",
                    NEW t \in TasksOf(h, processor[h])
             PROVE  Cardinality(Places(h, t)) = 1
  BY DEF TaskInOnePlace
<1> DEFINE pool == {e \in Children(h) : future[e].task = t}
           sent == {e \in Children(h) : Given(e, t)}
           places == {<<"pool", e>> : e \in pool} \union {<<"message", e>> : e \in sent}
                       \union {x \in {<<"list">>} : t.number <= tasks[h]}
                       \union {x \in {<<"executed">>} : t \in executed[h] /\ pool = {}}
<1>1. Placed(h, t)
  BY DEF PreparationInv, TasksInv, TasksInOrder, TaskPlaces
<1>2. tasks[h] \in Nat /\ t.number \in Nat
  BY RunsProcessor, TasksTyped
<1>3. Places(h, t) = places
  <2>1. \A e \in Children(h) : DOMAIN toExecutor[e] = 1 .. Len(toExecutor[e])
    BY DEF PreparationInv, PreparationTypeOK, Children
  <2>2. {e \in Children(h) : \E i \in DOMAIN toExecutor[e] : toExecutor[e][i].task = t} = sent
    BY <2>1 DEF Given, Carries
  <2> QED
    BY <2>2 DEF Places
<1>4. \E x : places = {x}
  <2>1. CASE t.number <= tasks[h]
    <3>1. pool = {} /\ sent = {} /\ t \notin executed[h]
      BY <1>1, <1>2, <2>1 DEF Placed
    <3>2. places = {<<"list">>}
      BY <2>1, <3>1
    <3> QED
      BY <3>2
  <2>2. CASE ~(t.number <= tasks[h]) /\ \E e \in Children(h) : Given(e, t)
    <3>1. PICK e \in Children(h) : Given(e, t)
      BY <2>2
    <3>2. sent = {e} /\ pool = {} /\ t \notin executed[h]
      BY <1>1, <3>1 DEF Placed
    <3>3. places = {<<"message", e>>}
      BY <2>2, <3>2
    <3> QED
      BY <3>3
  <2>3. CASE ~(t.number <= tasks[h]) /\ \E e \in Children(h) : future[e].task = t
    <3>1. PICK e \in Children(h) : future[e].task = t
      BY <2>3
    <3>2. pool = {e} /\ sent = {}
      BY <1>1, <3>1 DEF Placed
    <3>3. places = {<<"pool", e>>}
      BY <2>3, <3>2
    <3> QED
      BY <3>3
  <2>4. CASE ~(t.number <= tasks[h]) /\ pool = {} /\ sent = {}
    <3>1. t \in executed[h]
      BY <1>1, <2>4 DEF Placed
    <3>2. places = {<<"executed">>}
      BY <2>4, <3>1
    <3> QED
      BY <3>2
  <2> QED
    BY <2>1, <2>2, <2>3, <2>4
<1> HIDE DEF places
<1> QED
  BY <1>3, <1>4, FS_Singleton

LEMMA CompletionFollows == PreparationInv => CompleteMeansPrepared
<1> SUFFICES ASSUME PreparationInv, "PreparationComplete" \in reports
             PROVE  "BenchmarkFailure" \notin reports /\ \A h \in Hosts : executed[h] = AllTasks(h)
  BY DEF CompleteMeansPrepared
<1>1. Unprepared = {} /\ failures = 0
  BY DEF PreparationInv, ExitsKnown
<1>2. "BenchmarkFailure" \notin reports
  BY <1>1 DEF PreparationInv, FailuresKnown
<1>3. ASSUME NEW h \in Hosts PROVE executed[h] = AllTasks(h)
  <2>1. status[h] = "PROCESSOR_COMPLETE"
    BY <1>1 DEF Unprepared
  <2> QED
    BY <1>1, <2>1 DEF PreparationInv, TasksInv, TasksInOrder, PreparationTypeOK
<1> QED
  BY <1>2, <1>3

\* Actors exit, other than in a crash, only when all is prepared; nobody works then.
LEMMA InterruptionFollows ==
    PreparationInv /\ [PreparationNext]_preparationVars => [NoTaskInterrupted]_preparationVars
<1> SUFFICES ASSUME PreparationInv, PreparationNext, NEW e \in Executors, e \in exited' \ exited, crashes' = crashes
             PROVE  future[e] = NoFuture
  BY DEF NoTaskInterrupted
<1> USE DEF environmentVars
<1>1. MailOK /\ PreparationTypeOK /\ ExitsKnown /\ TurnOf(e)
  BY MailFits DEF PreparationInv, OneTurn
<1>2. "PreparationComplete" \in reports
  <2>1. ASSUME NEW q \in Seq(Messages), q # <<>>, Head(q).type = "ActorExitRequest" PROVE Some(q, Exit)
    BY <2>1, Handled, TypesApart
  <2>2. ASSUME NEW h \in Hosts, PreparatorExits(h) PROVE "PreparationComplete" \in reports
    <3>1. Some(fromCoordinator[h], Exit)
      BY <1>1, <2>1, <2>2 DEF PreparatorExits, Receives, MailOK
    <3> QED
      BY <1>1, <3>1 DEF ExitsKnown
  <2>3. ASSUME NEW f \in Executors, ExecutorExits(f) PROVE "PreparationComplete" \in reports
    <3>1. Some(toExecutor[f], Exit)
      BY <1>1, <2>1, <2>3 DEF ExecutorExits, Receives, MailOK
    <3> QED
      BY <1>1, <3>1 DEF ExitsKnown
  <2>4. ~ \E a \in Hosts \union Executors : Crash(a)
    BY <1>1 DEF Crash, PreparationTypeOK
  <2>5. ~CoordinatorStep
    BY DEF CoordinatorStep, WorkloadPrepared, CoordinatorFails
  <2>6. ASSUME NEW h \in Hosts, PreparatorStep(h) PROVE PreparatorExits(h)
    BY <2>6 DEF PreparatorStep, PrepareWorkload, PrepareWorkloadRaises, Raises, ReadyForWork, WorkerIdle,
                ResumeNextProcessor, ResumeRaises, ResumeDone, PreparatorForwardsFailure
  <2>7. ASSUME NEW f \in Executors, ExecutorStep(f) \/ TaskEnds(f) PROVE ExecutorExits(f)
    BY <2>7 DEF ExecutorStep, TaskEnds, Raises, StartTaskLoop, DoNothing, SubmitTask, WakeupDone, WakeupFailed,
                ExecutorForwardsFailure
  <2> QED
    BY <2>2, <2>3, <2>4, <2>5, <2>6, <2>7 DEF PreparationNext
<1>3. status[HostOf[e]] = "PROCESSOR_COMPLETE"
  BY <1>1, <1>2, HostsAssumption DEF ExitsKnown, Unprepared
<1>4. future[e].thread = "none" /\ future[e].task = None
  BY <1>1, <1>3 DEF TurnOf, HasTurn, Works
<1>5. future[e] \in [task : Tasks, thread : Threads]
  BY <1>1 DEF PreparationTypeOK
<1> QED
  BY <1>4, <1>5 DEF NoFuture

(***************************************************************************)
(* For any number of hosts, executors, processors and tasks, and however   *)
(* their messages interleave, handlers and tasks raise and processes die:  *)
(* the processors of a host run one after the other, each task of one is   *)
(* in one place until it has been executed and is not interrupted, no      *)
(* assertion of the actors fails, and the preparation is reported complete *)
(* only when all tasks of all hosts have been executed and nothing has     *)
(* failed.                                                                 *)
(***************************************************************************)
THEOREM PreparationOrderly == PreparationSpec => PreparationIsOrderly
<1>1. PreparationInit => PreparationInv
  BY PreparationInitially
<1>2. PreparationInv /\ [PreparationNext]_preparationVars => PreparationInv'
  BY PreparationKept
<1>3. PreparationInv =>
        PreparationTypeOK /\ AssertionsHold /\ ProcessorsInOrder /\ TaskInOnePlace /\ CompleteMeansPrepared
  BY AssertionsFollow, OrderFollows, OnePlaceFollows, CompletionFollows DEF PreparationInv
<1>4. PreparationInv /\ [PreparationNext]_preparationVars => [NoTaskInterrupted]_preparationVars
  BY InterruptionFollows
<1> QED
  BY <1>1, <1>2, <1>3, <1>4, PTL DEF PreparationSpec, PreparationIsOrderly
=============================================================================
