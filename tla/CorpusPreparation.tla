------------------------- MODULE CorpusPreparation -------------------------
(***************************************************************************)
(* Preparing a document set on a host: download, decompress and build the  *)
(* file offset table (osbenchmark/workload/loader.py, utils/net.py,        *)
(* utils/io.py).  The files outlive the process: it may be killed at any   *)
(* step, fail (connections break, writing and decompressing raise) and be  *)
(* started again, and the workload may meanwhile declare a new version of  *)
(* the corpus.                                                             *)
(*                                                                         *)
(* A file's content is the version it belongs to and how much of it has    *)
(* been written; one unit is one line, one part of the declared size.      *)
(***************************************************************************)
EXTENDS Integers, Sequences

CONSTANTS
    DocumentSets,   \* what a corpus and the command line may say, see CorpusInit
    MaxVersion,     \* bound: versions of the corpus
    MaxDiskFaults   \* bound: kills, broken connections and errors while a file is written

ASSUME CorpusAssumption ==
    DocumentSets \subseteq [archive : BOOLEAN, tar : BOOLEAN, parts : BOOLEAN, sizes : BOOLEAN, url : BOOLEAN,
                            offline : BOOLEAN, simple : BOOLEAN, source : BOOLEAN, offsets : BOOLEAN]

VARIABLES
    conf,           \* the document set and the mode of the command line
    version,        \* the corpus version that the workload declares and the server has
    files,          \* content of every file, by directory and name
    table,          \* file offset table next to the document file, by directory
    prep,           \* the process: where prepare_docs stands
    diskFaults,     \* kills, broken connections and errors so far
    cut             \* whether one of them came while a file was written under its final name

corpusVars == <<conf, version, files, table, prep, diskFaults, cut>>

Absent == [v |-> 0, n |-> -1]
Torn == -1          \* the version of a table whose last line was cut
Size(v) == v + 1

PartSize(i) == IF i = 1 THEN 1 ELSE Size(version) - 1

is_locally_available(d, f) == files[d][f] # Absent

\* Mutant: a file that is there is taken as it is.
AnySize(d, f) == is_locally_available(d, f)

has_expected_size(d, f) == conf.sizes => files[d][f].n = Size(version)

\* The directories that may hold the data: next to a local workload, or the data set cache.
data_dir == IF conf.simple THEN <<"workload", "corpus">> ELSE <<"corpus">>

\* The document file the clients will open.
set_absolute_data_path ==
    IF conf.simple /\ is_locally_available("workload", "doc") THEN "workload" ELSE "corpus"

At(pc) == prep.pc = pc
GoTo(pc) == prep' = [prep EXCEPT !.pc = pc]
Write(d, f, content) == files' = [files EXCEPT ![d][f] = content]
DocumentChanged(d) == table' = [table EXCEPT ![d].fresh = FALSE]
UnchangedDisk == UNCHANGED <<conf, version, diskFaults, cut>>
Fault == diskFaults < MaxDiskFaults /\ diskFaults' = diskFaults + 1 /\ UNCHANGED <<conf, version, cut>>

-----------------------------------------------------------------------------
\* prepare_docs: a bundled document set is tried first, the cache directory second.
StartPreparation ==
    /\ At("idle") \/ At("failed")
    /\ prep' = [pc |-> "loop", dir |-> data_dir[1], part |-> 1]
    /\ UnchangedDisk /\ UNCHANGED <<files, table>>

\* One round of the loop of prepare_bundled_document_set.
prepare_bundled_document_set ==
    /\ At("loop") /\ prep.dir = "workload"
    /\ \/ /\ is_locally_available("workload", "doc")
          /\ GoTo(IF has_expected_size("workload", "doc") THEN "table" ELSE "failed")
       \/ /\ ~ is_locally_available("workload", "doc")
          /\ conf.archive /\ is_locally_available("workload", "archive")
          /\ GoTo(IF has_expected_size("workload", "archive") THEN "decompress" ELSE "failed")
       \/ /\ ~ is_locally_available("workload", "doc")
          /\ ~ (conf.archive /\ is_locally_available("workload", "archive"))
          /\ prep' = [prep EXCEPT !.dir = "corpus"]
    /\ UnchangedDisk /\ UNCHANGED <<files, table>>

\* Mutant: the archive of an older version is decompressed again and again.
AnyArchive == conf.archive /\ is_locally_available("corpus", "archive")

ArchiveUsable ==
    conf.archive /\ is_locally_available("corpus", "archive") /\ has_expected_size("corpus", "archive")

\* One round of the loop of prepare_document_set.
prepare_document_set ==
    /\ At("loop") /\ prep.dir = "corpus"
    /\ \/ /\ is_locally_available("corpus", "doc") /\ has_expected_size("corpus", "doc")
          /\ GoTo(IF conf.offsets THEN "table" ELSE "done")
       \/ /\ ~ (is_locally_available("corpus", "doc") /\ has_expected_size("corpus", "doc"))
          /\ prep' = [prep EXCEPT !.pc = IF ArchiveUsable THEN "decompress" ELSE "download", !.part = 1]
    /\ UnchangedDisk /\ UNCHANGED <<files, table>>

-----------------------------------------------------------------------------
Target == IF conf.archive THEN "archive" ELSE "doc"
Downloaded == IF ~ conf.parts THEN Target ELSE IF prep.part = 1 THEN "part1" ELSE "part2"
RemoteSize == IF conf.parts THEN PartSize(prep.part) ELSE Size(version)

\* The request is refused before, or by, the server; or the temporary file is opened for its body.
download ==
    /\ At("download")
    /\ \/ /\ ~ conf.url \/ conf.offline
          /\ GoTo("failed") /\ UNCHANGED files /\ UnchangedDisk
       \/ /\ conf.url /\ ~ conf.offline
          /\ Write("corpus", "tmp", [v |-> version, n |-> 0]) /\ GoTo("receive") /\ UnchangedDisk
       \/ /\ conf.url /\ ~ conf.offline
          /\ Write("corpus", "tmp", Absent) /\ GoTo("failed") /\ Fault
    /\ UNCHANGED table

\* Mutant: the body is visible under the final name while it arrives.
ReceiveInPlace ==
    /\ At("receive") /\ files["corpus"]["tmp"].n < RemoteSize
    /\ \/ /\ files' = [files EXCEPT !["corpus"]["tmp"].n = @ + 1,
                                    !["corpus"][Downloaded] = [v |-> version, n |-> files["corpus"]["tmp"].n + 1]]
          /\ UNCHANGED prep /\ UnchangedDisk
       \/ Write("corpus", "tmp", Absent) /\ GoTo("failed") /\ Fault
    /\ UNCHANGED table

\* The body arrives piece by piece; when the connection breaks, the temporary file is removed.
Receive ==
    /\ At("receive") /\ files["corpus"]["tmp"].n < RemoteSize
    /\ \/ Write("corpus", "tmp", [files["corpus"]["tmp"] EXCEPT !.n = @ + 1]) /\ UNCHANGED prep /\ UnchangedDisk
       \/ Write("corpus", "tmp", Absent) /\ GoTo("failed") /\ Fault
    /\ UNCHANGED table

\* Only a complete download gets the name of the file.
RenamedDownload == [files EXCEPT !["corpus"][Downloaded] = files["corpus"]["tmp"], !["corpus"]["tmp"] = Absent]

Received ==
    /\ At("receive") /\ files["corpus"]["tmp"].n = RemoteSize
    /\ files' = RenamedDownload
    /\ IF Downloaded = "doc" THEN DocumentChanged("corpus") ELSE UNCHANGED table
    /\ prep' = CASE ~ conf.parts -> [prep EXCEPT !.pc = "loop"]
                 [] conf.parts /\ prep.part = 1 -> [prep EXCEPT !.pc = "download", !.part = 2]
                 [] OTHER -> [prep EXCEPT !.pc = "concatenate", !.part = 1]
    /\ UnchangedDisk

\* Every part is appended to the target, which the first one truncates, and removed.
Concatenate ==
    /\ At("concatenate")
    /\ LET part == IF prep.part = 1 THEN "part1" ELSE "part2"
           before == IF prep.part = 1 THEN 0 ELSE files["corpus"][Target].n
       IN  files' = [files EXCEPT !["corpus"][Target] = [v |-> version, n |-> before + files["corpus"][part].n],
                                  !["corpus"][part] = Absent]
    /\ IF Target = "doc" THEN DocumentChanged("corpus") ELSE UNCHANGED table
    /\ prep' = IF prep.part = 1 THEN [prep EXCEPT !.part = 2] ELSE [prep EXCEPT !.pc = "loop"]
    /\ UnchangedDisk

-----------------------------------------------------------------------------
Archive == files[prep.dir]["archive"]
Document == files[prep.dir]["doc"]

\* Decompressor.decompress after the extraction: the size is checked where one is declared.
ExtractedSizeAccepted == conf.sizes => Document.n = Size(version)

decompress ==
    /\ At("decompress")
    /\ Write(prep.dir, "doc", [v |-> Archive.v, n |-> 0]) /\ DocumentChanged(prep.dir)
    /\ GoTo("extract") /\ UnchangedDisk

\* When the external program fails, the standard library starts over.
Extract ==
    /\ At("extract") /\ Document.n < Archive.n
    /\ \/ Write(prep.dir, "doc", [Document EXCEPT !.n = @ + 1]) /\ UnchangedDisk
       \/ Write(prep.dir, "doc", [Document EXCEPT !.n = 0]) /\ Fault
    /\ DocumentChanged(prep.dir) /\ UNCHANGED prep

\* A tar archive gives the document its own modification time: whether an old offset table is older
\* than that depends on when the archive was made.
TarKeepsTime ==
    IF conf.tar /\ table[prep.dir].v # 0
    THEN \E fresh \in BOOLEAN : table' = [table EXCEPT ![prep.dir].fresh = fresh]
    ELSE UNCHANGED table

\* The end of a truncated archive is an error for most formats, and not noticed for others.
Extracted ==
    /\ At("extract") /\ Document.n = Archive.n
    /\ \/ GoTo(IF ExtractedSizeAccepted THEN "loop" ELSE "failed")
       \/ Archive.n # Size(Archive.v) /\ GoTo("failed")
    /\ TarKeepsTime /\ UnchangedDisk /\ UNCHANGED files

-----------------------------------------------------------------------------
\* Mutant: the modification times are not compared.
ExistingTable(d) == table[d].v # 0

\* FileOffsetTable.is_valid: not older than the document file.
is_valid(d) == table[d].v # 0 /\ table[d].fresh

\* Nothing to do, or a pregenerated table is looked for.  A missing one is built, and so is one that the
\* server refuses; a download that breaks, or is not allowed, is an error.
prepare_file_offset_table ==
    /\ At("table")
    /\ \/ is_valid(prep.dir) /\ GoTo("done") /\ UNCHANGED table /\ UnchangedDisk
       \/ /\ ~ is_valid(prep.dir) /\ ~ conf.source
          /\ \/ conf.url /\ conf.offline /\ GoTo("failed") /\ UNCHANGED table /\ UnchangedDisk
             \/ conf.url /\ ~ conf.offline /\ GoTo("failed") /\ UNCHANGED table /\ Fault
             \/ /\ conf.url /\ ~ conf.offline
                /\ table' = [table EXCEPT ![prep.dir] = [v |-> version, fresh |-> TRUE]]
                /\ UNCHANGED prep /\ UnchangedDisk
             \/ (conf.url => ~ conf.offline) /\ GoTo("build") /\ UNCHANGED table /\ UnchangedDisk
       \/ ~ is_valid(prep.dir) /\ conf.source /\ GoTo("build") /\ UNCHANGED table /\ UnchangedDisk
    /\ UNCHANGED files

\* The table is open from here on: a kill or an error cuts it somewhere.
BuildTable ==
    /\ At("build")
    /\ table' = [table EXCEPT ![prep.dir] = [v |-> Torn, fresh |-> TRUE]]
    /\ GoTo("building") /\ UnchangedDisk /\ UNCHANGED files

\* A table with an unexpected number of lines is removed again; an empty document is not noticed.
create_file_offset_table ==
    /\ At("building")
    /\ IF Document.n # 0 /\ Document.n # Size(version)
       THEN table' = [table EXCEPT ![prep.dir].v = 0] /\ GoTo("failed")
       ELSE table' = [table EXCEPT ![prep.dir].v = Document.v] /\ GoTo("done")
    /\ UnchangedDisk /\ UNCHANGED files

-----------------------------------------------------------------------------
\* These steps write a file under its final name, piece by piece.
WritesInPlace == prep.pc \in {"concatenate", "extract", "building"}

\* What is left of a step that is broken off: some part of a file part is already in the target,
\* or the table happens to be complete.
LeftBehind ==
    \/ UNCHANGED <<files, table>>
    \/ /\ At("concatenate")
       /\ LET part == IF prep.part = 1 THEN "part1" ELSE "part2"
              before == IF prep.part = 1 THEN 0 ELSE files["corpus"][Target].n
          IN  \E n \in before .. before + files["corpus"][part].n :
                 Write("corpus", Target, [v |-> version, n |-> n])
       /\ IF Target = "doc" THEN DocumentChanged("corpus") ELSE UNCHANGED table
    \/ At("building") /\ table' = [table EXCEPT ![prep.dir].v = Document.v] /\ UNCHANGED files

BreaksOff ==
    /\ diskFaults < MaxDiskFaults /\ diskFaults' = diskFaults + 1 /\ cut' = (cut \/ WritesInPlace)
    /\ LeftBehind /\ UNCHANGED <<conf, version>>

\* An exception (a full disk, a corrupt archive, no UTF-8) ends the preparation; nothing is removed.
WriteFails == (WritesInPlace \/ At("decompress")) /\ GoTo("failed") /\ BreaksOff

(***************************************************************************)
(* The environment: the process is killed, or a new version of the corpus  *)
(* is published together with the workload that declares it.               *)
(***************************************************************************)
Kill == prep.pc \notin {"idle", "failed", "done"} /\ GoTo("idle") /\ BreaksOff

Publish ==
    /\ prep.pc \in {"idle", "failed", "done"} /\ version < MaxVersion
    /\ version' = version + 1 /\ GoTo("idle")
    /\ UNCHANGED <<conf, files, table, diskFaults, cut>>

CorpusInit ==
    /\ conf \in DocumentSets /\ version = 1
    /\ \E bundled \in SUBSET {"doc", "archive"} :
         /\ bundled # {} => conf.simple
         /\ files = [d \in {"workload", "corpus"} |-> [f \in {"doc", "archive", "tmp", "part1", "part2"} |->
                IF d = "workload" /\ f \in bundled THEN [v |-> 1, n |-> Size(1)] ELSE Absent]]
    /\ table = [d \in {"workload", "corpus"} |-> [v |-> 0, fresh |-> FALSE]]
    /\ prep = [pc |-> "idle", dir |-> "corpus", part |-> 1]
    /\ diskFaults = 0 /\ cut = FALSE

PreparationStep ==
    \/ StartPreparation \/ prepare_bundled_document_set \/ prepare_document_set
    \/ download \/ Receive \/ Received \/ Concatenate
    \/ decompress \/ Extract \/ Extracted
    \/ prepare_file_offset_table \/ BuildTable \/ create_file_offset_table
    \/ WriteFails

CorpusSpec == CorpusInit /\ [][PreparationStep \/ Kill \/ Publish]_corpusVars

-----------------------------------------------------------------------------
Prepared == At("done")
Opened == files[set_absolute_data_path]["doc"]

(***************************************************************************)
(* When the corpus declares its sizes, prepare_document_set ends well only *)
(* with the complete document file of the declared version, in the file    *)
(* the clients open: whatever kills, broken connections and old files came *)
(* before.                                                                 *)
(***************************************************************************)
PreparedIsCurrent == Prepared /\ conf.sizes => Opened = [v |-> version, n |-> Size(version)]

(***************************************************************************)
(* Without declared sizes an incomplete document file is taken for a       *)
(* complete one only after a kill or an error in the middle of a           *)
(* concatenation, a decompression or the writing of a table: net.download  *)
(* gives no incomplete file its final name, and no other step leaves one.  *)
(***************************************************************************)
UndeclaredIsComplete == Prepared /\ ~ conf.sizes /\ ~ cut => Opened.n = Size(Opened.v)

(***************************************************************************)
(* The offset table in use belongs to the document file in use, although   *)
(* both outlive versions and processes; only a kill or an error in those   *)
(* steps leaves a cut table.  Not so for tar archives: they give the       *)
(* document a time at which an older version's table may be newer.         *)
(***************************************************************************)
TableMatchesDocument ==
    Prepared /\ conf.sizes /\ conf.offsets /\ ~ conf.tar =>
        LET v == table[set_absolute_data_path].v
        IN  v = Opened.v \/ (v = Torn /\ cut)

(***************************************************************************)
(* Starting again helps: with declared sizes and a connection, a document  *)
(* set that is not bundled is prepared in the end, from whatever files the *)
(* failed attempts have left.                                              *)
(***************************************************************************)
RetriesSucceed ==
    (conf.sizes /\ conf.url /\ ~ conf.offline /\ ~ conf.simple) => []<>Prepared

(***************************************************************************)
(* A document set that prepare_document_set calls prepared can be used: it *)
(* is the declared version, it is complete as far as the code can know,    *)
(* and its offset table belongs to it, with the exceptions named above.    *)
(***************************************************************************)
PreparedIsUsable == PreparedIsCurrent /\ UndeclaredIsComplete /\ TableMatchesDocument
=============================================================================
