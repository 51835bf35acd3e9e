-------------------------- MODULE ParameterSources --------------------------
(***************************************************************************)
(* Bulk parameter sources (workload/params.py): how the documents of the   *)
(* corpora are shared out between the clients of a task, read in bulks and *)
(* given ids.  The clients of a task in one worker share one source, which *)
(* each of them asks for its next bulk.  Documents are numbered from 0 in  *)
(* each document set; the files hold as many lines as declared.            *)
(***************************************************************************)
EXTENDS Integers, SequencesExt, FiniteSetsExt

CONSTANTS
    BulkConfigurations,  \* document sets, clients, first client of the second worker and options
    OffsetEvery,         \* lines between two entries of an offset table
    MaxCalls             \* bound: bulks a worker asks for

VARIABLES bulks,         \* the configuration
          src,           \* the source of each worker
          delivered,     \* how often a worker has sent a document
          ids            \* ids a worker has used, per document set

bulkVars == <<bulks, src, delivered, ids>>

Loaders == {"v", "w"}

-----------------------------------------------------------------------------
\* round(total / clients * index), half to even
RoundShare(total, index, clients) ==
    LET twice == (2 * total * index) \div clients
        half == (2 * total * index) % clients = 0 /\ twice % 2 = 1
    IN  IF half THEN 2 * ((twice + 1) \div 4) ELSE (twice + 1) \div 2

\* Mutant: a share begins where the exact one does and ends after it.
RoundedOutwards(total_docs, start, end, num_clients) ==
    [offset |-> (total_docs * start) \div num_clients,
     docs |-> (total_docs * (end + 1) + num_clients - 1) \div num_clients - (total_docs * start) \div num_clients]

\* bounds: the documents of the clients start .. end
bounds(total_docs, start, end, num_clients) ==
    LET first == RoundShare(total_docs, start, num_clients)
    IN  [offset |-> first, docs |-> RoundShare(total_docs, end + 1, num_clients) - first]

LinesPerDoc(set) == IF set.meta THEN 2 ELSE 1

\* find_closest_offset: the last entry of the offset table that is not behind the line
find_closest_offset(line) == (line \div OffsetEvery) * OffsetEvery

\* Mutant: reading begins at the entry of the offset table.
SkipToEntry(lines) == find_closest_offset(lines)

\* skip_lines: the line that is read next
skip_lines(lines) == LET offset == find_closest_offset(lines) IN offset + (lines - offset)

\* Slice and IndexDataReader: the bulks of one reader; the last one may be smaller.
Bulks(k, set, share) ==
    LET first == skip_lines(share.offset * LinesPerDoc(set)) \div LinesPerDoc(set)
        n == (share.docs + bulks.size - 1) \div bulks.size
    IN  [i \in 1 .. n |-> [set |-> k, first |-> first + (i - 1) * bulks.size,
                           last |-> first + Min({i * bulks.size, share.docs}) - 1]]

ShareOf(k, partitions) ==
    bounds(bulks.sets[k].docs, Min(partitions), Max(partitions), bulks.clients)

\* create_readers and bulk_generator: the readers of all document sets, one after the other
bulk_data_based(partitions) ==
    FlattenSeq([k \in DOMAIN bulks.sets |-> Bulks(k, bulks.sets[k], ShareOf(k, partitions))])

number_of_bulks(partitions) ==
    LET CountOf(share) == share.docs \div bulks.size + (IF share.docs % bulks.size > 0 THEN 1 ELSE 0)
    IN  FoldLeft(LAMBDA n, k : n + CountOf(ShareOf(k, partitions)), 0, [k \in DOMAIN bulks.sets |-> k])

-----------------------------------------------------------------------------
\* Mutant: every client numbers its documents from the first id.
IdsFromZero(k, partitions) == 0 .. ShareOf(k, partitions).docs - 1

\* build_conflicting_ids: a client's own range of ids
build_conflicting_ids(k, partitions) ==
    LET share == ShareOf(k, partitions) IN share.offset .. share.offset + share.docs - 1

\* GenerateActionMetaData.__next__ for the documents of a bulk: new ids, in order or shuffled, and
\* ids that have been used before; the first document of a reader has a new one.
NewIds(s, b) ==
    LET own == build_conflicting_ids(b.set, s.partitions)
        fresh == own \ s.used[b.set]
        sizes == (IF s.used[b.set] = {} THEN 1 ELSE 0) .. b.last - b.first + 1
        InOrder(n) == IF n = 0 THEN {{}} ELSE {Min(fresh) .. Min(fresh) + n - 1}
    IN  IF bulks.conflicts = "none" THEN {{}}
        ELSE UNION {IF bulks.conflicts = "sequential" THEN InOrder(n) ELSE kSubset(n, fresh) : n \in sizes}

-----------------------------------------------------------------------------
\* BulkIndexParamSource: documents with an action line of their own cannot have conflicts.
BulkInit ==
    /\ bulks \in {b \in BulkConfigurations : b.conflicts # "none" => \A k \in DOMAIN b.sets : ~ b.sets[k].meta}
    /\ src = [w \in Loaders |-> [partitions |-> {}, current_bulk |-> 0, total_bulks |-> 1, left |-> <<>>,
                                 used |-> [k \in DOMAIN bulks.sets |-> {}], ended |-> FALSE, calls |-> 0]]
    /\ delivered = [w \in Loaders |-> [d \in {} |-> 0]]
    /\ ids = [w \in Loaders |-> [k \in DOMAIN bulks.sets |-> {}]]

PartitionsOf(w) == IF w = "v" THEN 0 .. bulks.second - 1 ELSE bulks.second .. bulks.clients - 1

\* partition, for each of the worker's clients before the first of them runs
partition(w) ==
    /\ src[w].calls = 0 /\ src[w].partitions # PartitionsOf(w)
    /\ \E p \in PartitionsOf(w) \ src[w].partitions : src' = [src EXCEPT ![w].partitions = @ \cup {p}]
    /\ UNCHANGED <<bulks, delivered, ids>>

\* _init_internal_params; ingest_percentage of the bulks, rounded up
_init_internal_params(s) ==
    [s EXCEPT !.current_bulk = 0, !.left = bulk_data_based(s.partitions), !.used = [k \in DOMAIN bulks.sets |-> {}],
              !.total_bulks = (number_of_bulks(s.partitions) * bulks.percentage + 99) \div 100]

Documents(b) == {<<b.set, d>> : d \in b.first .. b.last}
CountDocuments(counts, b) ==
    [d \in DOMAIN counts \cup Documents(b) |->
        (IF d \in DOMAIN counts THEN counts[d] ELSE 0) + (IF d \in Documents(b) THEN 1 ELSE 0)]

\* Mutant: a looped source does not start over.
NextBulkOnce(s) == IF s.current_bulk = 0 THEN _init_internal_params(s) ELSE s

\* The source before it is asked for a bulk; a looped one starts over.
NextBulk(s) ==
    LET begun == IF s.current_bulk = 0 THEN _init_internal_params(s) ELSE s
    IN  IF begun.current_bulk = begun.total_bulks /\ bulks.looped THEN _init_internal_params(begun) ELSE begun

\* params
params(w) ==
    LET s == NextBulk(src[w]) IN
    /\ PartitionsOf(w) # {} /\ src[w].partitions = PartitionsOf(w)
    /\ ~ src[w].ended /\ src[w].calls < MaxCalls
    /\ IF s.left = <<>> \/ s.current_bulk = s.total_bulks
       THEN src' = [src EXCEPT ![w] = [s EXCEPT !.ended = TRUE]] /\ UNCHANGED <<delivered, ids>>
       ELSE LET b == Head(s.left) IN
            /\ delivered' = [delivered EXCEPT ![w] = CountDocuments(@, b)]
            /\ \E new \in NewIds(s, b) :
                 /\ ids' = [ids EXCEPT ![w][b.set] = @ \cup new]
                 /\ src' = [src EXCEPT ![w] = [s EXCEPT !.left = Tail(@), !.used[b.set] = @ \cup new,
                                                       !.current_bulk = @ + 1, !.calls = @ + 1]]
    /\ UNCHANGED bulks

BulkNext == \E w \in Loaders : partition(w) \/ params(w)

-----------------------------------------------------------------------------
Complete == \A w \in Loaders : src[w].ended \/ PartitionsOf(w) = {}

(***************************************************************************)
(* When every source has come to its end each document of each set has     *)
(* been sent exactly once, by whichever worker; with an ingest percentage  *)
(* none has been sent twice and no bulk is missing to the percentage.      *)
(***************************************************************************)
EveryDocumentOnce ==
    Complete /\ ~ bulks.looped =>
        /\ \A w \in Loaders : \A d \in DOMAIN delivered[w] : /\ delivered[w][d] = 1
                                                             /\ \A u \in Loaders \ {w} : d \notin DOMAIN delivered[u]
        /\ bulks.percentage = 100 =>
             \A k \in DOMAIN bulks.sets : \A d \in 0 .. bulks.sets[k].docs - 1 :
                 \E w \in Loaders : <<k, d>> \in DOMAIN delivered[w]
        /\ \A w \in Loaders : PartitionsOf(w) # {} =>
             100 * src[w].current_bulk >= bulks.percentage * Len(bulk_data_based(src[w].partitions))

(***************************************************************************)
(* A looped source with documents never ends, and it sends all documents   *)
(* of its share (or of the percentage) before it sends one of them again.  *)
(***************************************************************************)
LoopsThroughItsShare ==
    bulks.looped => \A w \in Loaders :
        /\ src[w].ended => Len(bulk_data_based(src[w].partitions)) = 0
        /\ \A d, e \in DOMAIN delivered[w] : delivered[w][d] <= delivered[w][e] + 1

(***************************************************************************)
(* Conflicts stay within a client's share: two workers never use the same  *)
(* id for documents of one set.                                            *)
(***************************************************************************)
NoConflictsAcrossClients ==
    \A k \in DOMAIN bulks.sets : ids["v"][k] \cap ids["w"][k] = {}
=============================================================================
