--------------------------- MODULE SolrPipelines ---------------------------
(***************************************************************************)
(* The pipelines that bring their own Solr (test_run_orchestrator.py) and  *)
(* what they run it with: SolrProvisioner and SolrDockerLauncher of        *)
(* builder/solr_provisioner.py.  Test runs follow each other on one host;  *)
(* each may fail at any step or be killed, and what it leaves behind is    *)
(* what the next one finds: the cached tarball, the installation and a     *)
(* Solr that still listens on the port.                                    *)
(***************************************************************************)
EXTENDS Integers

CONSTANT MaxHostFaults  \* bound: kills, failing steps and intruders on the port

VARIABLES
    tarball,        \* solr-<version>.tgz in the cache directory
    installation,   \* the directory it is extracted to
    port,           \* who listens on the port, and whether the current run started it
    pipeline,       \* the run: where it stands, its pipeline, the ones in use here, and how it ended
    hostFaults,     \* faults so far
    abandoned       \* what runs that were killed or failed may have left: a Solr, half an installation

pipelineVars == <<tarball, installation, port, pipeline, hostFaults, abandoned>>

Free == [by |-> "nobody", mine |-> FALSE]
Mine == [by |-> IF pipeline.kind = "docker" THEN "container" ELSE "solr", mine |-> TRUE]

Doing(pc) == pipeline.pc = pc
Do(pc) == pipeline' = [pipeline EXCEPT !.pc = pc]
Fail(pc) == Do(pc) /\ hostFaults < MaxHostFaults /\ hostFaults' = hostFaults + 1
NoFault == UNCHANGED hostFaults

\* A pipeline function begins; sources have been built by now.
BeginPipeline ==
    /\ Doing("idle")
    /\ \E kind \in pipeline.kinds :
         pipeline' = [pipeline EXCEPT !.kind = kind, !.ok = FALSE, !.pc = CASE kind = "distribution" -> "download"
                                                               [] kind = "sources" -> "extract"
                                                               [] kind = "docker" -> "rm"]
    /\ port' = [port EXCEPT !.mine = FALSE]
    /\ UNCHANGED <<tarball, installation, abandoned>> /\ NoFault

\* A file of that name counts as the tarball; else every mirror is tried, straight into that file.
Download ==
    /\ Doing("download")
    /\ IF tarball # "none" THEN Do("install") /\ UNCHANGED tarball
                           ELSE Do("downloading") /\ tarball' = "part"
    /\ UNCHANGED <<installation, port, abandoned>> /\ NoFault

Downloading ==
    /\ Doing("downloading")
    /\ \/ tarball' = "whole" /\ Do("install") /\ NoFault
       \/ tarball' = "none" /\ Fail("idle")
    /\ UNCHANGED <<installation, port, abandoned>>

\* An existing directory counts as the installation.
install ==
    /\ Doing("install")
    /\ Do(IF installation # "none" THEN "start" ELSE "extract")
    /\ UNCHANGED <<tarball, installation, port, abandoned>> /\ NoFault

Extracting ==
    /\ Doing("extract") /\ installation' = "part" /\ Do("extracting")
    /\ UNCHANGED <<tarball, port, abandoned>> /\ NoFault

\* What goes wrong here, a truncated tarball above all, is outside of the try block.
InstallationExtracted ==
    /\ Doing("extracting")
    /\ LET readable == pipeline.kind = "sources" \/ tarball = "whole"
       IN  \/ readable /\ installation' = "whole" /\ Do("start") /\ NoFault
              /\ UNCHANGED abandoned
           \/ ~ readable /\ Do("idle") /\ UNCHANGED installation /\ NoFault
              /\ abandoned' = [abandoned EXCEPT !.files = TRUE]
           \/ readable /\ Fail("idle") /\ UNCHANGED installation
              /\ abandoned' = [abandoned EXCEPT !.files = TRUE]
    /\ UNCHANGED <<tarball, port>>

\* SolrDockerLauncher.start removes a container of the same name before it looks at the port.
RemoveContainer ==
    /\ Doing("rm") /\ Do("start")
    /\ port' = IF port.by = "container" THEN Free ELSE port
    /\ UNCHANGED <<tarball, installation, abandoned>> /\ NoFault

_assert_port_free ==
    /\ Doing("start") /\ Do(IF port = Free THEN "launch" ELSE "stop")
    /\ UNCHANGED <<tarball, installation, port, abandoned>> /\ NoFault

\* Mutant: a start that fails is not noticed when something answers on the port.
LaunchUnchecked == "wait"

\* The command says that Solr could not be started: SolrProvisionerError.
LaunchFailed == "stop"

\* "bin/solr start" or "docker run": Solr comes up; or does not, because somebody has taken the
\* port meanwhile, because files are missing, or for a reason of its own, and then may run or not.
Launch ==
    /\ Doing("launch")
    /\ LET usable == pipeline.kind = "docker" \/ installation = "whole"
       IN  \/ port = Free /\ port' = Mine /\ Do("wait") /\ NoFault
           \/ port # Free /\ UNCHANGED port /\ Do(LaunchFailed) /\ NoFault
           \/ port = Free /\ ~ usable /\ UNCHANGED port /\ Do(LaunchFailed) /\ NoFault
           \/ port = Free /\ usable /\ port' \in {Free, Mine} /\ Fail(LaunchFailed)
    /\ UNCHANGED <<tarball, installation, abandoned>>

_wait_for_ready ==
    /\ Doing("wait")
    /\ \/ Do("run") /\ NoFault
       \/ Fail("stop")
    /\ UNCHANGED <<tarball, installation, port, abandoned>>

\* run_test against the Solr that has been started.
RunTest ==
    /\ Doing("run")
    /\ \/ pipeline' = [pipeline EXCEPT !.pc = "stop", !.ok = TRUE] /\ NoFault
       \/ Fail("stop")
    /\ UNCHANGED <<tarball, installation, port, abandoned>>

\* Mutant: nothing is stopped when the start has failed.
StopOwn == IF port.mine /\ pipeline.ok THEN Free ELSE port

\* "bin/solr stop -p" ends the Solr on that port, whoever started it, if there is a script to run;
\* "docker rm" ends the container of that name.
Stopped ==
    CASE port.by = "container" -> IF pipeline.kind = "docker" THEN Free ELSE port
      [] port.by = "solr" -> IF pipeline.kind # "docker" /\ installation # "none" THEN Free ELSE port
      [] OTHER -> port

\* The finally branch: failing to stop is only logged.
stop ==
    /\ Doing("stop")
    /\ \/ port' = Stopped /\ Do("clean") /\ NoFault /\ UNCHANGED abandoned
       \/ Fail("clean") /\ abandoned' = [abandoned EXCEPT !.solr = TRUE] /\ UNCHANGED port
    /\ UNCHANGED <<tarball, installation>>

\* Mutant: the installation is kept for the next run.
InstallationKept == installation

CleanedInstallation == IF pipeline.kind = "docker" THEN installation ELSE "none"

clean ==
    /\ Doing("clean") /\ installation' = CleanedInstallation /\ Do("idle")
    /\ UNCHANGED <<tarball, port, abandoned>> /\ NoFault

-----------------------------------------------------------------------------
\* The benchmark is killed: what runs and what is on disk stays.
KillRun ==
    /\ ~ Doing("idle") /\ Fail("idle") /\ abandoned' = [solr |-> TRUE, files |-> TRUE]
    /\ UNCHANGED <<tarball, installation, port>>

\* A program of the user takes the port, and leaves it again.
IntruderComes ==
    /\ port = Free /\ pipeline.pc \in {"idle", "start", "launch"} /\ hostFaults < MaxHostFaults
    /\ port' = [by |-> "other", mine |-> FALSE] /\ hostFaults' = hostFaults + 1
    /\ UNCHANGED <<tarball, installation, pipeline, abandoned>>

IntruderLeaves ==
    /\ port.by = "other" /\ port' = Free
    /\ UNCHANGED <<tarball, installation, pipeline, abandoned>> /\ NoFault

PipelineInit ==
    /\ tarball \in {"none", "whole"} /\ installation = "none" /\ port = Free
    /\ \E kinds \in {{"distribution"}, {"sources"}, {"docker"}, {"distribution", "sources", "docker"}} :
         pipeline = [pc |-> "idle", kind |-> CHOOSE k \in kinds : TRUE, kinds |-> kinds, ok |-> FALSE]
    /\ hostFaults = 0 /\ abandoned = [solr |-> FALSE, files |-> FALSE]

PipelineStep ==
    \/ BeginPipeline \/ Download \/ Downloading \/ install \/ Extracting \/ InstallationExtracted
    \/ RemoveContainer \/ _assert_port_free \/ Launch \/ _wait_for_ready \/ RunTest
    \/ stop \/ clean

PipelineNext == PipelineStep \/ KillRun \/ IntruderComes \/ IntruderLeaves

PipelineSpec == PipelineInit /\ [][PipelineNext]_pipelineVars

-----------------------------------------------------------------------------
(***************************************************************************)
(* The Solr that is measured is the one this run has started, and not a    *)
(* leftover or somebody else's that answers on the port; its installation  *)
(* is complete unless an earlier extraction was cut off.                   *)
(***************************************************************************)
MeasuresItsOwnSolr ==
    Doing("run") => /\ port = Mine
                    /\ pipeline.kind # "docker" => installation = "whole" \/ abandoned.files

(***************************************************************************)
(* Whichever step of a pipeline fails, its Solr does not outlive it: only  *)
(* a kill, or a failing stop command, leaves one behind.                   *)
(***************************************************************************)
NothingLeftRunning == Doing("idle") /\ ~ abandoned.solr => port.by \notin {"solr", "container"}

(***************************************************************************)
(* Whatever a killed or failed run has left behind, later runs of the same *)
(* pipeline clear it away and succeed in the end; the exception is a       *)
(* tarball that was cut off, which download takes for the whole one.       *)
(***************************************************************************)
RunsRecover ==
    pipeline.kinds = {pipeline.kind} => []<>(Doing("clean") /\ pipeline.ok) \/ <>[](tarball = "part")

(***************************************************************************)
(* A pipeline measures the Solr it has started and no other one, and takes *)
(* it down again.                                                          *)
(***************************************************************************)
OwnSolrOnly == MeasuresItsOwnSolr /\ NothingLeftRunning
=============================================================================
