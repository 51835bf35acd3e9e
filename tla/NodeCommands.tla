---------------------------- MODULE NodeCommands ----------------------------
(***************************************************************************)
(* The commands install, start and stop (builder/builder.py) on one        *)
(* installation, with BareProvisioner, ProcessLauncher                     *)
(* and the telemetry devices of a node.  Each command is a process of its  *)
(* own; between them only files remain: node-config.json, and the pickled  *)
(* "node" with the PID and the state of the devices.  A command may be     *)
(* killed, the node may die, the host may reboot and PIDs are used again.  *)
(***************************************************************************)
EXTENDS Integers

CONSTANTS
    Pids,           \* process ids
    MaxNodeFaults   \* bound: kills, deaths, reboots and failing steps

ASSUME PidAssumption == 0 \notin Pids

VARIABLES
    binaries,       \* the installed files
    node_config,    \* whether node-config.json exists
    node_file,      \* the pickled node, or NoNode
    procs,          \* who has a PID
    command,        \* the command that runs: its step and the node it works on
    stored,         \* system metrics of the last stop
    unknown,        \* whether a start was killed or gave up after the launch
    died,           \* whether the node of the node file is gone: it died, or a stop was killed
    nodeFaults      \* faults so far

nodeVars == <<binaries, node_config, node_file, procs, command, stored, unknown, died, nodeFaults>>

Node(pid, disk) == [pid |-> pid, disk |-> disk]
NoNode == Node(0, "none")
NoMetrics == [disk |-> "none", size |-> "none"]
Rest == [pc |-> "idle", node |-> NoNode, preserve |-> FALSE, test_run |-> FALSE, size |-> "none",
         found |-> "none"]

Step(pc) == command.pc = pc
Continue(pc) == command' = [command EXCEPT !.pc = pc]
End == command' = Rest
Bad == nodeFaults < MaxNodeFaults /\ nodeFaults' = nodeFaults + 1
Good == UNCHANGED nodeFaults

-----------------------------------------------------------------------------
\* install: the files are copied and configured; node-config.json is written last.
Install ==
    /\ Step("idle") /\ ~ node_config /\ binaries = "none"
    /\ binaries' = "part" /\ Continue("install") /\ Good
    /\ UNCHANGED <<node_config, node_file, procs, stored, unknown, died>>

save_node_configuration ==
    /\ Step("install")
    /\ \/ binaries' = "whole" /\ node_config' = TRUE /\ Good
       \/ Bad /\ UNCHANGED <<binaries, node_config>>
    /\ End /\ UNCHANGED <<node_file, procs, stored, unknown, died>>

-----------------------------------------------------------------------------
Live == {p \in Pids : procs[p] = "node"}

\* start: refused while there is a node file; "bin/solr start" itself refuses a second node.
Start ==
    /\ Step("idle") /\ node_config /\ node_file = NoNode /\ binaries = "whole" /\ Live = {}
    /\ Continue("launch") /\ Good
    /\ UNCHANGED <<binaries, node_config, node_file, procs, stored, unknown, died>>

_start_process ==
    /\ Step("launch")
    /\ \/ \E p \in Pids : /\ procs[p] = "none" /\ procs' = [procs EXCEPT ![p] = "node"]
                          /\ command' = [command EXCEPT !.pc = "attach", !.node = Node(p, "none")] /\ Good
       \/ End /\ Bad /\ UNCHANGED procs
    /\ UNCHANGED <<binaries, node_config, node_file, stored, unknown, died>>

\* wait_for_pidfile and Telemetry.attach_to_node; I/O counters may be unsupported.  When the PID
\* file is late, or the process is gone, the start fails and knows nothing of the process.
attach_to_node ==
    /\ Step("attach")
    /\ \/ /\ procs[command.node.pid] = "node" /\ Good /\ UNCHANGED unknown
          /\ \E disk \in {"start", "none"} : command' = [command EXCEPT !.pc = "store", !.node = Node(@.pid, disk)]
       \/ End /\ Bad /\ unknown' = TRUE
       \/ procs[command.node.pid] # "node" /\ End /\ Good /\ UNCHANGED unknown
    /\ UNCHANGED <<binaries, node_config, node_file, procs, stored, died>>

_store_node_file ==
    /\ Step("store") /\ node_file' = command.node /\ died' = (procs[command.node.pid] # "node") /\ End /\ Good
    /\ UNCHANGED <<binaries, node_config, procs, stored, unknown>>

-----------------------------------------------------------------------------
\* Mutant: the node file is removed before the node is stopped.
ForgetsFirst ==
    /\ Step("idle") /\ node_config /\ node_file # NoNode
    /\ \E preserve, test_run \in BOOLEAN :
         command' = [Rest EXCEPT !.pc = "find", !.node = node_file, !.preserve = preserve, !.test_run = test_run]
    /\ node_file' = NoNode /\ Good
    /\ UNCHANGED <<binaries, node_config, procs, stored, unknown, died>>

\* stop: needs both files; the test run may be unknown, and then no metrics are stored.
Stop ==
    /\ Step("idle") /\ node_config /\ node_file # NoNode
    /\ \E preserve, test_run \in BOOLEAN :
         command' = [Rest EXCEPT !.pc = "find", !.node = node_file, !.preserve = preserve, !.test_run = test_run]
    /\ Good /\ UNCHANGED <<binaries, node_config, node_file, procs, stored, unknown, died>>

\* psutil.Process: without a process of that PID, no device is detached.
FindProcess ==
    /\ Step("find")
    /\ LET found == procs[command.node.pid]
       IN  command' = [command EXCEPT !.pc = IF found = "none" THEN "metrics" ELSE "detach", !.found = found]
    /\ Good
    /\ UNCHANGED <<binaries, node_config, node_file, procs, stored, unknown, died>>

\* Mutant: what was read at the start is kept when the counters cannot be read at the end.
KeptAfterError(disk) == disk

\* The counters are reset when they cannot be read.
ResetAfterError(disk) == "none"

\* DiskIo.detach_from_node with running=True: the difference to the start.
DetachRunning ==
    /\ Step("detach")
    /\ LET disk == command.node.disk
           measured == procs[command.node.pid] # "none" /\ disk = "start"
       IN  \/ /\ command' = [command EXCEPT !.pc = "terminate",
                                 !.node = Node(@.pid, IF measured THEN "difference" ELSE ResetAfterError(disk))]
              /\ Good
           \/ command' = [command EXCEPT !.pc = "terminate", !.node = Node(@.pid, ResetAfterError(disk))] /\ Bad
    /\ UNCHANGED <<binaries, node_config, node_file, procs, stored, unknown, died>>

\* Mutant: the signal goes to the PID, whoever has it by now.
SignalledByPid == "none"

\* psutil refuses a PID that has changed hands since it was looked up.
Signalled == LET now == procs[command.node.pid] IN IF now = command.found THEN "none" ELSE now

\* terminate, wait and kill; IndexSize measures afterwards.
Terminate ==
    /\ Step("terminate")
    /\ procs' = [procs EXCEPT ![command.node.pid] = Signalled]
    /\ command' = [command EXCEPT !.pc = "metrics", !.size = "final"] /\ Good
    /\ UNCHANGED <<binaries, node_config, node_file, stored, unknown, died>>

store_system_metrics ==
    /\ Step("metrics") /\ Continue("delete") /\ Good
    /\ stored' = IF command.test_run THEN [disk |-> command.node.disk, size |-> command.size] ELSE stored
    /\ UNCHANGED <<binaries, node_config, node_file, procs, unknown, died>>

_delete_node_file ==
    /\ Step("delete") /\ node_file' = NoNode /\ died' = FALSE /\ Continue("results") /\ Good
    /\ UNCHANGED <<binaries, node_config, procs, stored, unknown>>

\* Results are calculated and stored; an error there leaves the files of the installation.
StoreResults ==
    /\ Step("results")
    /\ \/ Continue("cleanup") /\ Good
       \/ End /\ Bad
    /\ UNCHANGED <<binaries, node_config, node_file, procs, stored, unknown, died>>

cleanup ==
    /\ Step("cleanup") /\ binaries' = (IF command.preserve THEN binaries ELSE "none") /\ End /\ Good
    /\ UNCHANGED <<node_config, node_file, procs, stored, unknown, died>>

-----------------------------------------------------------------------------
Orphaned(ps) == node_file # NoNode /\ ps[node_file.pid] # "node"

KillCommand ==
    /\ ~ Step("idle") /\ End /\ Bad
    /\ unknown' = (unknown \/ command.pc \in {"attach", "store"})
    /\ died' = (died \/ Orphaned(procs))
    /\ UNCHANGED <<binaries, node_config, node_file, procs, stored>>

Dies(gone) ==
    /\ procs' = [p \in Pids |-> IF p \in gone THEN "none" ELSE procs[p]]
    /\ died' = (died \/ Orphaned(procs'))
    /\ UNCHANGED <<binaries, node_config, node_file, stored, unknown>>

NodeDies == Live # {} /\ Dies(Live) /\ Bad /\ UNCHANGED command

Reboot == Dies(Pids) /\ Bad /\ End

OtherProcess ==
    /\ \E p \in Pids : procs[p] = "none" /\ procs' = [procs EXCEPT ![p] = "other"]
    /\ \E p \in Pids : procs'[p] = "none"
    /\ UNCHANGED <<binaries, node_config, node_file, command, stored, unknown, died, nodeFaults>>

OtherEnds ==
    /\ \E p \in Pids : procs[p] = "other" /\ procs' = [procs EXCEPT ![p] = "none"]
    /\ UNCHANGED <<binaries, node_config, node_file, command, stored, unknown, died, nodeFaults>>

NodeInit ==
    /\ binaries = "none" /\ node_config = FALSE /\ node_file = NoNode /\ procs = [p \in Pids |-> "none"]
    /\ command = Rest /\ stored = NoMetrics /\ unknown = FALSE /\ died = FALSE /\ nodeFaults = 0

NodeNext ==
    \/ Install \/ save_node_configuration
    \/ Start \/ _start_process \/ attach_to_node \/ _store_node_file
    \/ Stop \/ FindProcess \/ DetachRunning \/ Terminate \/ store_system_metrics
    \/ _delete_node_file \/ StoreResults \/ cleanup
    \/ KillCommand \/ NodeDies \/ Reboot \/ OtherProcess \/ OtherEnds

NodeSpec == NodeInit /\ [][NodeNext]_nodeVars

-----------------------------------------------------------------------------
(***************************************************************************)
(* A node that runs while no command does can be stopped: the node file    *)
(* names it.  Only a start that was killed, or gave up waiting, between    *)
(* the launch and _store_node_file leaves a node that stop cannot find.    *)
(***************************************************************************)
RunningNodeIsKnown == Step("idle") /\ ~ unknown => \A p \in Live : node_file.pid = p

(***************************************************************************)
(* stop ends no process but its node, although it looks the process up     *)
(* before the devices are detached and ends it after that.  The exception  *)
(* is a node that was gone before, by itself or in a stop that was killed, *)
(* and whose PID somebody else had already: the node file is trusted.      *)
(***************************************************************************)
StopsOnlyItsNode ==
    \A p \in Pids : (Step("terminate") /\ command'.pc = "metrics" /\ procs[p] = "other" /\ procs'[p] # "other") =>
        command.found = "other" /\ died

(***************************************************************************)
(* The disk I/O in the metrics store is what the node did between start    *)
(* and stop, and never the counters at the start, if the node was there at *)
(* the stop; the index size is that of a node that has ended.              *)
(***************************************************************************)
StoredIsMeasured ==
    stored' # stored => (stored'.disk = "start" => died) /\ (stored'.size = "final" => Live = {})

(***************************************************************************)
(* No step of install, start and stop loses a node, ends somebody else's   *)
(* process or stores what was not measured.                                *)
(***************************************************************************)
NodesAreAccounted == [][RunningNodeIsKnown' /\ StopsOnlyItsNode /\ StoredIsMeasured]_nodeVars
=============================================================================
