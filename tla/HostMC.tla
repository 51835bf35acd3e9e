---------------------------- MODULE HostMC ------------------------------
(***************************************************************************)
(* Small instances of what outlives a test run on a host: the corpus       *)
(* files, the workload repository, the Solr artifacts, the Solr of a       *)
(* pipeline, a node that is started and stopped by commands, and the       *)
(* processes of the program itself.  They do not interact, so a behaviour  *)
(* is about one of them: part.                                             *)
(***************************************************************************)
EXTENDS CorpusPreparation, WorkloadRepository, SourceArtifacts, SolrPipelines, NodeCommands, CommandLine

VARIABLE part

SomeDocumentSets ==
    {c \in [archive : BOOLEAN, tar : BOOLEAN, parts : BOOLEAN, sizes : BOOLEAN, url : BOOLEAN, offline : BOOLEAN,
            simple : BOOLEAN, source : BOOLEAN, offsets : BOOLEAN] :
        (c.parts => c.archive /\ ~ c.source) /\ (c.tar => c.archive)}
SomeRequests == {Main, <<9, 1, 0>>, <<8, 0, 0>>}

CorpusParked == CorpusInit /\ conf = CHOOSE c \in DocumentSets : ~ c.simple /\ ~ c.sizes
RepoParked == RepoInit /\ request = [version |-> Main, remote |-> TRUE] /\ \A h \in Hosts : ~ copy[h].cloned
SupplyParked == SupplyInit /\ ~ tree.clone

PipelineParked == PipelineInit /\ tarball = "none" /\ pipeline.kinds = {"docker"}

\* The names of commands and users do not matter, nor does --cancel-on-error for a single iteration.
SomeCommands ==
    /\ CliInit /\ cli[CHOOSE c \in Commands : TRUE].user = CHOOSE u \in Accounts : TRUE
    /\ \A c \in Commands : cli[c].cancel => cli[c].several
CliParked == CliInit /\ \A c \in Commands : cli[c] = Quiet(c, [user |-> CHOOSE u \in Accounts : TRUE, kill |-> FALSE, cancel |-> FALSE, iterations |-> 1])

Init ==
    \/ /\ part = "corpus"
       /\ CorpusInit /\ RepoParked /\ SupplyParked /\ PipelineParked /\ NodeInit /\ CliParked
    \/ /\ part = "repository"
       /\ CorpusParked /\ RepoInit /\ SupplyParked /\ PipelineParked /\ NodeInit /\ CliParked
    \/ /\ part = "supply"
       /\ CorpusParked /\ RepoParked /\ SupplyInit /\ PipelineParked /\ NodeInit /\ CliParked
    \/ /\ part = "pipeline"
       /\ CorpusParked /\ RepoParked /\ SupplyParked /\ PipelineInit /\ NodeInit /\ CliParked
    \/ /\ part = "node"
       /\ CorpusParked /\ RepoParked /\ SupplyParked /\ PipelineParked /\ NodeInit /\ CliParked
    \/ /\ part = "commands"
       /\ CorpusParked /\ RepoParked /\ SupplyParked /\ PipelineParked /\ NodeInit /\ SomeCommands

OtherThan(p) ==
    /\ part = p /\ UNCHANGED part
    /\ p # "corpus" => UNCHANGED corpusVars
    /\ p # "repository" => UNCHANGED repoVars
    /\ p # "supply" => UNCHANGED supplyVars
    /\ p # "pipeline" => UNCHANGED pipelineVars
    /\ p # "node" => UNCHANGED nodeVars
    /\ p # "commands" => UNCHANGED cliVars

PrepareCorpus == PreparationStep /\ OtherThan("corpus")
RunPipeline == PipelineStep /\ OtherThan("pipeline")
PortIsLeft == IntruderLeaves /\ OtherThan("pipeline")

Next ==
    \/ PrepareCorpus
    \/ (Kill \/ Publish) /\ OtherThan("corpus")
    \/ RepoNext /\ OtherThan("repository")
    \/ SupplyNext /\ OtherThan("supply")
    \/ RunPipeline \/ PortIsLeft
    \/ (KillRun \/ IntruderComes) /\ OtherThan("pipeline")
    \/ NodeNext /\ OtherThan("node")
    \/ CliNext /\ OtherThan("commands")

vars == <<corpusVars, repoVars, supplyVars, pipelineVars, nodeVars, cliVars, part>>

\* A preparation and a pipeline that have begun go on, and what has failed is started again;
\* programs of the user do not keep the port forever.
Spec ==
    /\ Init /\ [][Next]_vars
    /\ WF_vars(PrepareCorpus) /\ WF_vars(RunPipeline) /\ WF_vars(PortIsLeft)

\* Liveness is about the part that a behaviour is about.
CorpusRecovers == part = "corpus" => RetriesSucceed
PipelinesRecover == part = "pipeline" => RunsRecover

(***************************************************************************)
(* Whatever is left behind by runs that failed or were killed, later ones  *)
(* prepare the corpus and run the pipeline in the end.                     *)
(***************************************************************************)
LaterRunsSucceed == CorpusRecovers /\ PipelinesRecover
=============================================================================
