---------------------------- MODULE CommandLine ----------------------------
(***************************************************************************)
(* The command "run" (osbenchmark/benchmark.py) and the daemon             *)
(* (osbenchmark/benchmarkd.py) on one machine: several commands may be     *)
(* started at the same time, each looks for the others, bootstraps or      *)
(* joins the actor system on port 1900, runs its iterations and shuts the  *)
(* actor system down if it was not there before.                           *)
(***************************************************************************)
EXTENDS Integers

CONSTANTS
    Commands,           \* invocations of solr-benchmark run
    Accounts,           \* the users of the machine
    MaxIterations,      \* bound: --test-iterations
    MaxActorFaults      \* bound: shutdowns that time out, kills that are broken off or leave something, benchmarkd stop

ASSUME CommandAssumption ==
    /\ Commands \cap {"nobody", "daemon"} = {}
    /\ MaxIterations \in Nat /\ MaxActorFaults \in Nat

VARIABLES
    cli,                \* every command: its step, flags, the PIDs it has still to look at, its results
    actor_system,       \* who has the actor system on port 1900: a command, the daemon or nobody
    actorFaults,        \* faults so far
    contested           \* whether an actor system came or stayed behind somebody's back

cliVars == <<cli, actor_system, actorFaults, contested>>

Alive(c) == cli[c].pc \notin {"off", "exit"}
IsAt(c, pc) == cli[c].pc = pc
Set(c, v) == cli' = [cli EXCEPT ![c] = v]
GoesTo(c, pc) == Set(c, [cli[c] EXCEPT !.pc = pc])
actor_system_already_running == actor_system # "nobody"

Quiet(c, flags) == [pc |-> "off", user |-> flags.user, kill |-> flags.kill, cancel |-> flags.cancel,
                    left |-> flags.iterations, several |-> flags.iterations > 1, others |-> {}, given_up |-> FALSE,
                    joined |-> FALSE, offline |-> FALSE, status |-> -1]

\* main up to dispatch_sub_command.
Invoke(c) ==
    /\ IsAt(c, "off") /\ GoesTo(c, "configure")
    /\ UNCHANGED <<actor_system, actorFaults, contested>>

\* Mutant: only commands that run a benchmark already are looked at.
OnlyRunning(c) == {d \in Commands \ {c} : IsAt(d, "running")}

\* psutil.process_iter takes the PIDs that exist now and visits them one after the other.  The processes
\* of a command's actor system look like the command, and only one's own PID is left out.
process_iter(c) == {d \in Commands : (d # c /\ Alive(d)) \/ actor_system = d}

\* run_test begins: every iteration looks for other processes of the program.
LooksAround(c) ==
    /\ IsAt(c, "configure")
    /\ Set(c, [cli[c] EXCEPT !.pc = "look", !.others = process_iter(c), !.given_up = FALSE])
    /\ UNCHANGED <<actor_system, actorFaults, contested>>

\* An iteration has failed: the only one ends the command, others are reported and passed over.
IterationFailed(v) ==
    IF ~ v.several THEN [v EXCEPT !.pc = "exit", !.status = 64]
    ELSE LET last == v.left = 1 \/ v.cancel
         IN  [v EXCEPT !.pc = IF last THEN "exit" ELSE "configure", !.left = @ - 1, !.status = 0]

Present(d) == Alive(d) \/ actor_system = d
Visited(c, d) == [cli[c] EXCEPT !.others = @ \ {d}]

\* Nothing of d is left, or d belongs to another user and access is denied: passed over.
PassesOver(c, d) ==
    /\ ~ Present(d) \/ cli[d].user # cli[c].user
    /\ Set(c, Visited(c, d))
    /\ UNCHANGED <<actor_system, actorFaults, contested>>

\* Without --kill-running-processes another process of the program is an error.
Finds(c, d) ==
    /\ Present(d) /\ ~ cli[c].kill
    /\ Set(c, IterationFailed(cli[c]))
    /\ UNCHANGED <<actor_system, actorFaults, contested>>

\* With it the process is killed.  The wait for its end takes three seconds at most, and processes that
\* were forked since the PIDs were read are missed: its actor system may outlast it.
KillsProcess(c, d) ==
    /\ Present(d) /\ cli[c].kill
    /\ cli' = [e \in Commands |-> IF e = c THEN Visited(c, d)
                                  ELSE IF e = d /\ Alive(d) THEN [cli[d] EXCEPT !.pc = "exit", !.status = 137]
                                  ELSE cli[e]]
    /\ \/ /\ actor_system' = IF actor_system = d THEN "nobody" ELSE actor_system
          /\ UNCHANGED <<actorFaults, contested>>
       \/ /\ actor_system = d /\ actorFaults < MaxActorFaults
          /\ actorFaults' = actorFaults + 1 /\ contested' = TRUE /\ UNCHANGED actor_system

Look(c) ==
    /\ IsAt(c, "look")
    /\ \E d \in cli[c].others : PassesOver(c, d) \/ Finds(c, d) \/ KillsProcess(c, d)

\* Whatever breaks the killing off, the user's Ctrl+C too, is logged: the rest is left alive and run_test goes on.
KillFails(c) ==
    /\ IsAt(c, "look") /\ cli[c].kill /\ cli[c].others # {}
    /\ Set(c, [cli[c] EXCEPT !.others = {}, !.given_up = TRUE])
    /\ actorFaults < MaxActorFaults /\ actorFaults' = actorFaults + 1
    /\ UNCHANGED <<actor_system, contested>>

\* with_actor_system looks at the port first.
LookAtPort(c) ==
    /\ IsAt(c, "look") /\ cli[c].others = {}
    /\ Set(c, [cli[c] EXCEPT !.pc = "bootstrap", !.joined = actor_system_already_running])
    /\ UNCHANGED <<actor_system, actorFaults, contested>>

\* bootstrap_actor_system joins what is on the port now, or creates it.
bootstrap_actor_system(c) ==
    /\ IsAt(c, "bootstrap") /\ ~ cli[c].offline /\ GoesTo(c, "running")
    /\ actor_system' = IF actor_system = "nobody" THEN c ELSE actor_system
    /\ contested' = (contested \/ (cli[c].joined # actor_system_already_running))
    /\ UNCHANGED actorFaults

\* No socket or no network: the fallback is an actor system of its own that is not on the port,
\* for the rest of the process.
use_offline_actor_system(c) ==
    /\ IsAt(c, "bootstrap") /\ Set(c, [cli[c] EXCEPT !.pc = "running", !.offline = TRUE])
    /\ UNCHANGED <<actor_system, actorFaults, contested>>

\* Anything else that goes wrong fails the iteration, before there is anything to shut down.
BootstrapFails(c) ==
    /\ IsAt(c, "bootstrap") /\ Set(c, IterationFailed(cli[c]))
    /\ UNCHANGED <<actor_system, actorFaults, contested>>

\* The test run ends, well or not; then the actor system is left alone or shut down.
TestRunEnds(c) ==
    /\ IsAt(c, "running")
    /\ \E failed \in {0, 1} : Set(c, [cli[c] EXCEPT !.pc = "shutdown", !.status = failed])
    /\ UNCHANGED <<actor_system, actorFaults, contested>>

Iterated(v) ==
    IF v.status = 1 THEN IterationFailed(v)
    ELSE [v EXCEPT !.pc = IF v.left = 1 THEN "exit" ELSE "configure", !.left = @ - 1]

\* Mutant: the actor system is shut down in any case.
ShutDownAlways(c) == TRUE

\* Mutant: nothing is shut down after a failure.
ShutDownAfterSuccess(c) == ~ cli[c].joined /\ cli[c].status = 0

\* Only an actor system that was not running before is shut down.
ShutsDown(c) == ~ cli[c].joined

\* Shutting down an offline actor system leaves the one on the port alone, whosever it is.
Shutdown(c) ==
    /\ IsAt(c, "shutdown") /\ Set(c, Iterated(cli[c]))
    /\ \/ /\ actor_system' = IF ShutsDown(c) /\ ~ cli[c].offline THEN "nobody" ELSE actor_system
          /\ UNCHANGED <<actorFaults, contested>>
       \* it does not go away in time, or the user is impatient: a warning
       \/ /\ ShutsDown(c) /\ actor_system = c /\ actorFaults < MaxActorFaults
          /\ actorFaults' = actorFaults + 1 /\ contested' = TRUE /\ UNCHANGED actor_system

\* What was left of a command's actor system ends late.
LateEnd(c) ==
    /\ actor_system = c /\ cli[c].pc \notin {"running", "shutdown"}
    /\ actor_system' = "nobody" /\ UNCHANGED <<cli, actorFaults, contested>>

-----------------------------------------------------------------------------
\* benchmarkd start and stop.
StartDaemon ==
    /\ actor_system = "nobody" /\ actor_system' = "daemon"
    /\ UNCHANGED <<cli, actorFaults, contested>>

StopDaemon ==
    /\ actor_system # "nobody" /\ actor_system' = "nobody" /\ contested' = TRUE
    /\ actorFaults < MaxActorFaults /\ actorFaults' = actorFaults + 1
    /\ UNCHANGED cli

CliInit ==
    /\ \E flags \in [Commands -> [user : Accounts, kill : BOOLEAN, cancel : BOOLEAN, iterations : 1 .. MaxIterations]] :
         cli = [c \in Commands |-> Quiet(c, flags[c])]
    /\ actor_system = "nobody" /\ actorFaults = 0 /\ contested = FALSE

CliStep(c) ==
    \/ Invoke(c) \/ LooksAround(c) \/ Look(c) \/ KillFails(c)
    \/ LookAtPort(c) \/ bootstrap_actor_system(c) \/ use_offline_actor_system(c) \/ BootstrapFails(c)
    \/ TestRunEnds(c) \/ Shutdown(c) \/ LateEnd(c)

CliNext == (\E c \in Commands : CliStep(c)) \/ StartDaemon \/ StopDaemon

CliSpec == CliInit /\ [][CliNext]_cliVars

-----------------------------------------------------------------------------
Benchmarking == {c \in Commands : cli[c].pc \in {"bootstrap", "running", "shutdown"}}

(***************************************************************************)
(* However the checks of several commands interleave and whichever of them *)
(* kill the others: run_test looks for other processes only after its own  *)
(* exists, so two commands of one user benchmark at the same time only if  *)
(* one of them has broken off killing the other.  Of another user's        *)
(* command the program promises nothing, since it passes over what it may  *)
(* not look at or kill.                                                    *)
(***************************************************************************)
OneBenchmarkAtATime ==
    \A c, d \in Benchmarking :
        cli[c].user = cli[d].user => c = d \/ cli[c].given_up \/ cli[d].given_up

(***************************************************************************)
(* A command takes no actor system down that it has not created: the       *)
(* daemon's survives all its iterations, also those that fail, bootstrap   *)
(* included, unless it came between a command's look at the port and its   *)
(* bootstrap, or somebody else stopped an actor system before.             *)
(***************************************************************************)
DaemonSurvives ==
    (actor_system = "daemon" /\ ~ contested /\ ~ contested') => actor_system' = "daemon"

(***************************************************************************)
(* The commands leave no actor system of their own on the port, however    *)
(* their bootstraps and test runs end, and whoever is killed, unless a     *)
(* shutdown or a kill took too long.                                       *)
(***************************************************************************)
ActorSystemEndsWithCommand ==
    (\A c \in Commands : ~ Alive(c)) /\ ~ contested => actor_system \in {"nobody", "daemon"}

(***************************************************************************)
(* Commands of one user do not get in each other's way: no two benchmarks  *)
(* at a time, and an actor system ends with the command that has created   *)
(* it, neither before (the daemon's survives) nor after.                   *)
(***************************************************************************)
CommandsDoNotInterfere == [][OneBenchmarkAtATime' /\ DaemonSurvives /\ ActorSystemEndsWithCommand']_cliVars
=============================================================================
