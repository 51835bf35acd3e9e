----------------------------- MODULE HostProofs -----------------------------
(***************************************************************************)
(* What holds of the commands on one host and of the files that outlive    *)
(* them: of CommandLine for any number of commands and iterations, of      *)
(* SolrPipelines for any number of faults, of NodeCommands for any set of  *)
(* process ids, of SourceArtifacts for any number of commits and faults,   *)
(* of WorkloadRepository for any number of hosts and pushes, and of        *)
(* CorpusPreparation for any document set and any number of versions,      *)
(* kills, broken connections and errors while files are written.           *)
(***************************************************************************)
EXTENDS CommandLine, SolrPipelines, NodeCommands, SourceArtifacts, WorkloadRepository,
        CorpusPreparation, FiniteSetTheorems, TLAPS

-----------------------------------------------------------------------------
(***************************************************************************)
(* Commands and their actor systems (CommandLine)                          *)
(***************************************************************************)
(* The inductive invariant *)

Pcs == {"off", "configure", "look", "bootstrap", "running", "shutdown", "exit"}

CommandStates == [pc : Pcs, user : Accounts, kill : BOOLEAN, cancel : BOOLEAN, left : Int, several : BOOLEAN,
                  others : SUBSET Commands, given_up : BOOLEAN, joined : BOOLEAN, offline : BOOLEAN, status : Int]

CliTypeOK ==
    /\ cli \in [Commands -> CommandStates]
    /\ actor_system \in Commands \union {"nobody", "daemon"}
    /\ actorFaults \in Nat
    /\ contested \in BOOLEAN

Runs(c) == cli[c].pc \in {"bootstrap", "running", "shutdown"}
Looks(c) == cli[c].pc = "look"

\* d may go unnoticed by c: another user's processes are not shown to c or
\* cannot be killed by it, or c has broken its killing off.
MayMiss(c, d) == cli[c].user # cli[d].user \/ cli[c].given_up

\* Of two commands that are past the begin of run_test, one has still to look
\* at the other, or may have missed it: the later one has seen the earlier one.
\* A command has looked at everybody before it goes on.
OneHasToLook ==
    /\ \A c \in Commands : Runs(c) => cli[c].others = {}
    /\ \A c, d \in Commands : c # d /\ (Looks(c) \/ Runs(c)) /\ (Looks(d) \/ Runs(d)) =>
            d \in cli[c].others \/ c \in cli[d].others \/ MayMiss(c, d) \/ MayMiss(d, c)

\* A command that has created an actor system on the port and has not shut it down.
Owns(c) == cli[c].pc \in {"running", "shutdown"} /\ ~ cli[c].joined /\ ~ cli[c].offline

\* Unless somebody interfered, the actor system carries the name of the command that owns one.
OwnerIsKnown == ~ contested => \A c \in Commands : actor_system = c <=> Owns(c)

CliInv == CliTypeOK /\ OneHasToLook /\ OwnerIsKnown

-----------------------------------------------------------------------------
(* The operators on the state of a command *)

\* What a command line says of a command.
Flags == [user : Accounts, kill : BOOLEAN, cancel : BOOLEAN, iterations : 1 .. MaxIterations]

\* Every command starts with what its command line says.
LEMMA QuietTyped ==
    ASSUME NEW c, NEW flags \in Flags
    PROVE  Quiet(c, flags) \in CommandStates
<1>1. flags.kill \in BOOLEAN /\ flags.cancel \in BOOLEAN /\ flags.user \in Accounts
  BY DEF Flags
<1>2. flags.iterations \in Int
  BY CommandAssumption DEF Flags
<1>3. (flags.iterations > 1) \in BOOLEAN
  OBVIOUS
<1>4. 0 \in Int /\ -1 \in Int
  OBVIOUS
<1> QED BY <1>1, <1>2, <1>3, <1>4, Zenon DEF Quiet, CommandStates, Pcs

\* A command that is killed, or whose test run or only iteration has ended, has a new step and status.
LEMMA StatusTyped ==
    ASSUME NEW v \in CommandStates, NEW pc \in Pcs, NEW status \in Int
    PROVE  [v EXCEPT !.pc = pc, !.status = status] \in CommandStates
BY DEF CommandStates

\* One of several iterations fails: the iterations that are left change, too.
LEMMA LeftTyped ==
    ASSUME NEW v \in CommandStates, NEW pc \in Pcs, NEW left \in Int, NEW status \in Int
    PROVE  [v EXCEPT !.pc = pc, !.left = left, !.status = status] \in CommandStates
BY DEF CommandStates

\* A command whose iteration has failed ends or begins the next one.
LEMMA IterationFailedGoesOn ==
    ASSUME NEW v \in CommandStates
    PROVE  /\ IterationFailed(v) \in CommandStates
           /\ IterationFailed(v).pc \in {"exit", "configure"}
           /\ IterationFailed(v).user = v.user
<1>1. v.left - 1 \in Int
  BY DEF CommandStates
<1>2. CASE ~ v.several
  <2>1. IterationFailed(v) = [v EXCEPT !.pc = "exit", !.status = 64]
    BY <1>2 DEF IterationFailed
  <2>2. 64 \in Int /\ "exit" \in Pcs
    BY DEF Pcs
  <2>3. [v EXCEPT !.pc = "exit", !.status = 64] \in CommandStates
    BY <2>2, StatusTyped, Zenon
  <2> QED BY <2>1, <2>3 DEF CommandStates
<1>3. CASE v.several
  <2>1. PICK pc \in {"exit", "configure"} :
           IterationFailed(v) = [v EXCEPT !.pc = pc, !.left = @ - 1, !.status = 0]
    BY <1>3 DEF IterationFailed
  <2>2. IterationFailed(v) = [v EXCEPT !.pc = pc, !.left = v.left - 1, !.status = 0]
    BY <2>1
  <2>3. 0 \in Int /\ pc \in Pcs
    BY DEF Pcs
  <2>4. [v EXCEPT !.pc = pc, !.left = v.left - 1, !.status = 0] \in CommandStates
    BY <2>3, <1>1, LeftTyped, Zenon
  <2> QED BY <2>2, <2>4 DEF CommandStates
<1> QED BY <1>2, <1>3

\* The same of a command after its actor system has been shut down or left.
LEMMA IteratedGoesOn ==
    ASSUME NEW v \in CommandStates
    PROVE  /\ Iterated(v) \in CommandStates
           /\ Iterated(v).pc \in {"exit", "configure"}
           /\ Iterated(v).user = v.user
<1>1. CASE v.status = 1
  BY <1>1, IterationFailedGoesOn DEF Iterated
<1>2. CASE v.status # 1
  <2>1. PICK pc \in {"exit", "configure"} : Iterated(v) = [v EXCEPT !.pc = pc, !.left = v.left - 1]
    BY <1>2 DEF Iterated
  <2>2. v.left - 1 \in Int
    BY DEF CommandStates
  <2>3. Iterated(v) \in CommandStates
    BY <2>1, <2>2 DEF CommandStates, Pcs
  <2> QED BY <2>1, <2>3 DEF CommandStates
<1> QED BY <1>1, <1>2

-----------------------------------------------------------------------------
(* The invariant is kept *)

\* Nobody has been invoked, so nobody looks or runs.
LEMMA CliInitially == CliInit => CliInv
<1> SUFFICES ASSUME CliInit PROVE CliInv
  OBVIOUS
<1> USE CommandAssumption
<1>1. PICK flags \in [Commands -> Flags] :
           cli = [c \in Commands |-> Quiet(c, flags[c])]
  BY DEF CliInit, Flags
<1>2. \A c \in Commands : flags[c] \in Flags
  BY <1>1
<1>3. CliTypeOK
  BY <1>1, <1>2, QuietTyped DEF CliInit, CliTypeOK
<1>4. OneHasToLook /\ OwnerIsKnown
  BY <1>1 DEF CliInit, OneHasToLook, OwnerIsKnown, Owns, Runs, Looks, Quiet
<1> QED BY <1>3, <1>4 DEF CliInv

\* Invoke: a command that has just begun has not looked around yet.
LEMMA InvokeKeeps ==
    ASSUME CliInv, NEW c \in Commands, Invoke(c)
    PROVE  CliInv'
<1> USE CommandAssumption DEF Invoke, GoesTo, Set, IsAt
<1>1. CliTypeOK'
  BY DEF CliInv, CliTypeOK, CommandStates, Pcs
<1>2. OneHasToLook'
  BY DEF CommandStates, CliInv, CliTypeOK, OneHasToLook, MayMiss, Runs, Looks
<1>3. OwnerIsKnown'
  BY DEF CommandStates, CliInv, CliTypeOK, OwnerIsKnown, Owns
<1> QED BY <1>1, <1>2, <1>3 DEF CliInv

\* LooksAround: it sees everybody who is past this point.
LEMMA LooksAroundKeeps ==
    ASSUME CliInv, NEW c \in Commands, LooksAround(c)
    PROVE  CliInv'
<1> USE CommandAssumption DEF LooksAround, Set, IsAt, process_iter, Alive
<1>1. CliTypeOK'
  BY DEF CliInv, CliTypeOK, CommandStates, Pcs
<1>2. OneHasToLook'
  BY DEF CommandStates, CliInv, CliTypeOK, OneHasToLook, MayMiss, Runs, Looks
<1>3. OwnerIsKnown'
  BY DEF CommandStates, CliInv, CliTypeOK, OwnerIsKnown, Owns
<1> QED BY <1>1, <1>2, <1>3 DEF CliInv

\* KillFails: who is left alive counts as missed.
LEMMA KillFailsKeeps ==
    ASSUME CliInv, NEW c \in Commands, KillFails(c)
    PROVE  CliInv'
<1> USE CommandAssumption DEF KillFails, Set, IsAt
<1>1. CliTypeOK'
  <2>1. [cli[c] EXCEPT !.others = {}, !.given_up = TRUE] \in CommandStates
    BY DEF CliInv, CliTypeOK, CommandStates
  <2>2. actorFaults' \in Nat
    BY DEF CliInv, CliTypeOK
  <2> QED BY <2>1, <2>2 DEF CliInv, CliTypeOK
<1>2. OneHasToLook'
  BY DEF CommandStates, CliInv, CliTypeOK, OneHasToLook, MayMiss, Runs, Looks
<1>3. OwnerIsKnown'
  BY DEF CommandStates, CliInv, CliTypeOK, OwnerIsKnown, Owns
<1> QED BY <1>1, <1>2, <1>3 DEF CliInv

\* LookAtPort: it has looked at everybody it saw; whoever came later has still to look at it.
LEMMA LookAtPortKeeps ==
    ASSUME CliInv, NEW c \in Commands, LookAtPort(c)
    PROVE  CliInv'
<1> USE CommandAssumption DEF LookAtPort, Set, IsAt
<1>1. CliTypeOK'
  <2>1. actor_system_already_running \in BOOLEAN
    BY DEF actor_system_already_running
  <2>2. [cli[c] EXCEPT !.pc = "bootstrap", !.joined = actor_system_already_running] \in CommandStates
    BY <2>1 DEF CliInv, CliTypeOK, CommandStates, Pcs
  <2> QED BY <2>2 DEF CliInv, CliTypeOK
<1>2. OneHasToLook'
  BY DEF CommandStates, CliInv, CliTypeOK, OneHasToLook, MayMiss, Runs, Looks
<1>3. OwnerIsKnown'
  BY DEF CommandStates, CliInv, CliTypeOK, OwnerIsKnown, Owns
<1> QED BY <1>1, <1>2, <1>3 DEF CliInv

\* bootstrap_actor_system: an actor system that appeared since the port was looked at counts as contested.
LEMMA bootstrap_actor_systemKeeps ==
    ASSUME CliInv, NEW c \in Commands, bootstrap_actor_system(c)
    PROVE  CliInv'
<1> USE CommandAssumption DEF bootstrap_actor_system, GoesTo, Set, IsAt
<1>1. CliTypeOK'
  BY DEF CliInv, CliTypeOK, CommandStates, Pcs
<1>2. OneHasToLook'
  BY DEF CommandStates, CliInv, CliTypeOK, OneHasToLook, MayMiss, Runs, Looks
<1>3. OwnerIsKnown'
  <2> SUFFICES ASSUME ~ contested' PROVE \A d \in Commands : actor_system' = d <=> Owns(d)'
    BY DEF OwnerIsKnown
  <2>1. ~ contested /\ (cli[c].joined <=> actor_system # "nobody")
    BY DEF actor_system_already_running, CliInv, CliTypeOK, CommandStates
  <2>2. \A d \in Commands : actor_system = d <=> Owns(d)
    BY <2>1 DEF CliInv, OwnerIsKnown
  <2>3. cli' = [cli EXCEPT ![c].pc = "running"]
    OBVIOUS
  <2>4. ~ Owns(c) /\ (Owns(c)' <=> actor_system = "nobody")
    BY <2>1, <2>3 DEF CliInv, CliTypeOK, CommandStates, Owns
  <2>5. \A d \in Commands : d # c => (Owns(d)' <=> Owns(d))
    BY <2>3 DEF CliInv, CliTypeOK, CommandStates, Owns
  <2> QED BY <2>2, <2>4, <2>5
<1> QED BY <1>1, <1>2, <1>3 DEF CliInv

\* use_offline_actor_system: what is not on the port is nobody's concern.
LEMMA use_offline_actor_systemKeeps ==
    ASSUME CliInv, NEW c \in Commands, use_offline_actor_system(c)
    PROVE  CliInv'
<1> USE CommandAssumption DEF use_offline_actor_system, Set, IsAt
<1>1. CliTypeOK'
  BY DEF CliInv, CliTypeOK, CommandStates, Pcs
<1>2. OneHasToLook'
  BY DEF CommandStates, CliInv, CliTypeOK, OneHasToLook, MayMiss, Runs, Looks
<1>3. OwnerIsKnown'
  BY DEF CommandStates, CliInv, CliTypeOK, OwnerIsKnown, Owns
<1> QED BY <1>1, <1>2, <1>3 DEF CliInv

\* BootstrapFails: the iteration is given up before there is an actor system.
LEMMA BootstrapFailsKeeps ==
    ASSUME CliInv, NEW c \in Commands, BootstrapFails(c)
    PROVE  CliInv'
<1> USE CommandAssumption DEF BootstrapFails, Set, IsAt
<1>1. CliTypeOK'
  BY IterationFailedGoesOn DEF CliInv, CliTypeOK
<1>2. OneHasToLook'
  BY IterationFailedGoesOn, IteratedGoesOn DEF CommandStates, CliInv, CliTypeOK, OneHasToLook, MayMiss, Runs, Looks
<1>3. OwnerIsKnown'
  BY IterationFailedGoesOn, IteratedGoesOn DEF CommandStates, CliInv, CliTypeOK, OwnerIsKnown, Owns
<1> QED BY <1>1, <1>2, <1>3 DEF CliInv

\* TestRunEnds: the end of a test run changes no owner.
LEMMA TestRunEndsKeeps ==
    ASSUME CliInv, NEW c \in Commands, TestRunEnds(c)
    PROVE  CliInv'
<1> USE CommandAssumption DEF TestRunEnds, Set, IsAt
<1>1. CliTypeOK'
  <2>1. PICK failed \in {0, 1} : cli' = [cli EXCEPT ![c] = [cli[c] EXCEPT !.pc = "shutdown", !.status = failed]]
    OBVIOUS
  <2>2. failed \in Int /\ "shutdown" \in Pcs /\ cli[c] \in CommandStates
    BY DEF CliInv, CliTypeOK, Pcs
  <2>3. [cli[c] EXCEPT !.pc = "shutdown", !.status = failed] \in CommandStates
    BY <2>2, StatusTyped, Zenon
  <2> QED BY <2>1, <2>3 DEF CliInv, CliTypeOK
<1>2. OneHasToLook'
  BY DEF CommandStates, CliInv, CliTypeOK, OneHasToLook, MayMiss, Runs, Looks
<1>3. OwnerIsKnown'
  BY DEF CommandStates, CliInv, CliTypeOK, OwnerIsKnown, Owns
<1> QED BY <1>1, <1>2, <1>3 DEF CliInv

\* Shutdown: a command shuts down what it has created, and nothing that was there before it.
LEMMA ShutdownKeeps ==
    ASSUME CliInv, NEW c \in Commands, Shutdown(c)
    PROVE  CliInv'
<1> USE CommandAssumption DEF Shutdown, Set, IsAt, ShutsDown
<1>1. CliTypeOK'
  <2>1. cli[c] \in CommandStates /\ Iterated(cli[c]) \in CommandStates
    BY IteratedGoesOn DEF CliInv, CliTypeOK
  <2>2. cli' \in [Commands -> CommandStates]
    BY <2>1 DEF CliInv, CliTypeOK
  <2>3. actor_system' \in Commands \union {"nobody", "daemon"} /\ actorFaults' \in Nat
    BY DEF CliInv, CliTypeOK
  <2>4. contested' \in BOOLEAN
    BY DEF CliInv, CliTypeOK
  <2> QED BY <2>2, <2>3, <2>4 DEF CliTypeOK
<1>2. OneHasToLook'
  BY IterationFailedGoesOn, IteratedGoesOn DEF CommandStates, CliInv, CliTypeOK, OneHasToLook, MayMiss, Runs, Looks
<1>3. OwnerIsKnown'
  BY IterationFailedGoesOn, IteratedGoesOn DEF CommandStates, CliInv, CliTypeOK, OwnerIsKnown, Owns
<1> QED BY <1>1, <1>2, <1>3 DEF CliInv

\* LateEnd: only a contested actor system outlasts its command.
LEMMA LateEndKeeps ==
    ASSUME CliInv, NEW c \in Commands, LateEnd(c)
    PROVE  CliInv'
<1> USE CommandAssumption DEF LateEnd
<1>1. CliTypeOK'
  BY DEF CliInv, CliTypeOK
<1>2. OneHasToLook'
  BY DEF CliInv, OneHasToLook, MayMiss, Runs, Looks
<1>3. OwnerIsKnown'
  BY DEF CliInv, OwnerIsKnown, Owns
<1> QED BY <1>1, <1>2, <1>3 DEF CliInv

\* PassesOver: what is passed over has ended, or may be missed.
LEMMA PassesOverKeeps ==
    ASSUME CliInv, NEW c \in Commands, IsAt(c, "look"), NEW d \in cli[c].others, PassesOver(c, d)
    PROVE  CliInv'
<1> USE CommandAssumption DEF PassesOver, Set, IsAt, Visited
<1>1. CliTypeOK'
  BY DEF CliInv, CliTypeOK, CommandStates
<1>2. OneHasToLook'
  BY DEF Present, Alive, CommandStates, CliInv, CliTypeOK, OneHasToLook, MayMiss, Runs, Looks
<1>3. OwnerIsKnown'
  BY DEF CommandStates, CliInv, CliTypeOK, OwnerIsKnown, Owns
<1> QED BY <1>1, <1>2, <1>3 DEF CliInv

\* Finds: a command that finds another one and may not kill it gives its iteration up.
LEMMA FindsKeeps ==
    ASSUME CliInv, NEW c \in Commands, IsAt(c, "look"), NEW d \in cli[c].others, Finds(c, d)
    PROVE  CliInv'
<1> USE CommandAssumption DEF Finds, Set, IsAt
<1>1. CliTypeOK'
  BY IterationFailedGoesOn DEF CliInv, CliTypeOK
<1>2. OneHasToLook'
  BY IterationFailedGoesOn DEF CommandStates, CliInv, CliTypeOK, OneHasToLook, MayMiss, Runs, Looks
<1>3. OwnerIsKnown'
  BY IterationFailedGoesOn DEF CommandStates, CliInv, CliTypeOK, OwnerIsKnown, Owns
<1> QED BY <1>1, <1>2, <1>3 DEF CliInv

\* KillsProcess: a process that is killed neither looks nor runs, and its actor
\* system goes with it or counts as contested.
LEMMA KillsProcessKeeps ==
    ASSUME CliInv, NEW c \in Commands, IsAt(c, "look"), NEW d \in cli[c].others, KillsProcess(c, d)
    PROVE  CliInv'
<1> USE CommandAssumption DEF IsAt
<1>1. d \in Commands /\ cli[c] \in CommandStates /\ cli[d] \in CommandStates
  BY DEF CliInv, CliTypeOK, CommandStates
<1>2. Visited(c, d) \in CommandStates
  BY <1>1 DEF Visited, CommandStates
<1>3. [cli[d] EXCEPT !.pc = "exit", !.status = 137] \in CommandStates
  <2>1. "exit" \in Pcs /\ 137 \in Int
    BY DEF Pcs
  <2> QED BY <2>1, <1>1, StatusTyped, Zenon
<1>4. cli' = [e \in Commands |-> IF e = c THEN Visited(c, d)
                                ELSE IF e = d /\ Alive(d) THEN [cli[d] EXCEPT !.pc = "exit", !.status = 137]
                                ELSE cli[e]]
  BY DEF KillsProcess
<1>5. CliTypeOK'
  <2>1. cli' \in [Commands -> CommandStates]
    BY <1>2, <1>3, <1>4 DEF CliInv, CliTypeOK
  <2>2. actor_system' \in Commands \union {"nobody", "daemon"} /\ actorFaults' \in Nat
    BY DEF CliInv, CliTypeOK, KillsProcess
  <2>3. contested' \in BOOLEAN
    BY DEF CliInv, CliTypeOK, KillsProcess
  <2> QED BY <2>1, <2>2, <2>3 DEF CliTypeOK
<1>6. OneHasToLook'
  BY <1>1, <1>4 DEF Visited, Alive, CommandStates, CliInv, CliTypeOK, OneHasToLook, MayMiss, Runs, Looks
<1>7. OwnerIsKnown'
  <2>1. \/ actor_system' = (IF actor_system = d THEN "nobody" ELSE actor_system) /\ contested' = contested
        \/ contested'
    BY DEF KillsProcess
  <2> QED BY <2>1, <1>1, <1>4 DEF Visited, Alive, CommandStates, CliInv, CliTypeOK, OwnerIsKnown, Owns
<1> QED BY <1>5, <1>6, <1>7 DEF CliInv

\* Look: whichever way a process is dealt with.
LEMMA LookKeeps ==
    ASSUME CliInv, NEW c \in Commands, Look(c)
    PROVE  CliInv'
BY PassesOverKeeps, FindsKeeps, KillsProcessKeeps DEF Look

\* Every step of a command or of the daemon keeps the invariant.
LEMMA CliKept == CliInv /\ [CliNext]_cliVars => CliInv'
<1> SUFFICES ASSUME CliInv, [CliNext]_cliVars PROVE CliInv'
  OBVIOUS
<1> USE CommandAssumption
<1>1. ASSUME NEW c \in Commands, CliStep(c) PROVE CliInv'
  BY <1>1, InvokeKeeps, LooksAroundKeeps, LookKeeps, KillFailsKeeps, LookAtPortKeeps, bootstrap_actor_systemKeeps,
     use_offline_actor_systemKeeps, BootstrapFailsKeeps, TestRunEndsKeeps, ShutdownKeeps, LateEndKeeps DEF CliStep
<1>2. CASE StartDaemon
  BY <1>2 DEF StartDaemon, CliInv, CliTypeOK, OneHasToLook, MayMiss, OwnerIsKnown, Owns, Runs, Looks
<1>3. CASE StopDaemon
  BY <1>3 DEF StopDaemon, CliInv, CliTypeOK, OneHasToLook, MayMiss, OwnerIsKnown, Owns, Runs, Looks
<1>4. CASE UNCHANGED cliVars
  BY <1>4 DEF cliVars, CliInv, CliTypeOK, OneHasToLook, MayMiss, OwnerIsKnown, Owns, Runs, Looks
<1> QED BY <1>1, <1>2, <1>3, <1>4 DEF CliNext

-----------------------------------------------------------------------------
(* What follows from it *)

\* Two commands that run would each have nobody left to look at.
LEMMA OneRuns == CliInv => OneBenchmarkAtATime
BY DEF CliInv, OneHasToLook, MayMiss, Runs, Benchmarking, OneBenchmarkAtATime

\* Whoever shuts an actor system down while the daemon's is there has joined
\* the daemon's, or is offline, and leaves it alone.
LEMMA DaemonIsLeft == CliInv /\ [CliNext]_cliVars => DaemonSurvives
<1> SUFFICES ASSUME CliInv, [CliNext]_cliVars, actor_system = "daemon", ~ contested, ~ contested'
             PROVE  actor_system' = "daemon"
  BY DEF DaemonSurvives
<1> USE CommandAssumption
<1>1. ASSUME NEW c \in Commands, CliStep(c) PROVE actor_system' = "daemon"
  <2>1. ASSUME Look(c) PROVE actor_system' = "daemon"
    <3>1. PICK d \in cli[c].others : PassesOver(c, d) \/ Finds(c, d) \/ KillsProcess(c, d)
      BY <2>1 DEF Look
    <3>2. d \in Commands
      BY DEF CliInv, CliTypeOK, CommandStates
    <3> QED BY <3>1, <3>2 DEF PassesOver, Finds, KillsProcess
  <2>2. CASE bootstrap_actor_system(c)
    BY <2>2 DEF bootstrap_actor_system
  <2>3. CASE Shutdown(c)
    BY <2>3 DEF Shutdown, IsAt, ShutsDown, CliInv, OwnerIsKnown, Owns
  <2>4. CASE LateEnd(c)
    BY <2>4 DEF LateEnd
  <2>5. CASE \/ Invoke(c) \/ LooksAround(c) \/ KillFails(c) \/ LookAtPort(c)
             \/ use_offline_actor_system(c) \/ BootstrapFails(c) \/ TestRunEnds(c)
    BY <2>5 DEF Invoke, LooksAround, KillFails, LookAtPort, use_offline_actor_system, BootstrapFails, TestRunEnds
  <2> QED BY <1>1, <2>1, <2>2, <2>3, <2>4, <2>5 DEF CliStep
<1>2. CASE StartDaemon \/ StopDaemon
  BY <1>2 DEF StartDaemon, StopDaemon
<1>3. CASE UNCHANGED cliVars
  BY <1>3 DEF cliVars
<1> QED BY <1>1, <1>2, <1>3 DEF CliNext

\* The owner of an actor system is alive.
LEMMA NoneIsLeft == CliInv => ActorSystemEndsWithCommand
BY DEF CliInv, CliTypeOK, OwnerIsKnown, Owns, ActorSystemEndsWithCommand, Alive

(***************************************************************************)
(* However many commands of however many users are started at once, and    *)
(* whichever of them kill each other: run_test lets one benchmark of a     *)
(* user run at a time unless a kill was broken off, with_actor_system      *)
(* takes down no actor system that was there before, and leaves none       *)
(* behind unless its shutdown or a kill failed or somebody else            *)
(* interfered.                                                             *)
(***************************************************************************)
THEOREM CommandsAreApart == CliSpec => CommandsDoNotInterfere
<1>1. CliInit => CliInv
  BY CliInitially
<1>2. CliInv /\ [CliNext]_cliVars => CliInv'
  BY CliKept
<1>3. CliInv /\ CliInv' /\ [CliNext]_cliVars =>
        [OneBenchmarkAtATime' /\ DaemonSurvives /\ ActorSystemEndsWithCommand']_cliVars
  <2>1. CliInv' => OneBenchmarkAtATime' /\ ActorSystemEndsWithCommand'
    BY OneRuns, NoneIsLeft, PTL
  <2> QED BY <2>1, DaemonIsLeft
<1> QED BY <1>1, <1>2, <1>3, PTL DEF CliSpec, CommandsDoNotInterfere

-----------------------------------------------------------------------------
(***************************************************************************)
(* The pipelines that start Solr themselves (SolrPipelines)                *)
(***************************************************************************)
(* The inductive invariant *)

Kinds == {"distribution", "sources", "docker"}
Steps == {"idle", "download", "downloading", "install", "extract", "extracting", "rm", "start", "launch",
          "wait", "run", "stop", "clean"}
Ports == [by : {"nobody", "solr", "container", "other"}, mine : BOOLEAN]

PipelineTypeOK ==
    /\ tarball \in {"none", "part", "whole"}
    /\ installation \in {"none", "part", "whole"}
    /\ port \in Ports
    /\ pipeline \in [pc : Steps, kind : Kinds, kinds : SUBSET Kinds, ok : BOOLEAN]
    /\ abandoned \in [solr : BOOLEAN, files : BOOLEAN]

\* While it waits for Solr and measures it, the port is this run's own.
PortIsOwn == pipeline.pc \in {"wait", "run"} => port = Mine

\* Each kind of pipeline stays on its own path.
PathOfKind ==
    /\ pipeline.pc = "rm" => pipeline.kind = "docker"
    /\ pipeline.pc \in {"download", "downloading", "install", "extract", "extracting"} => pipeline.kind # "docker"

\* Solr is started from an installation, which is complete or was abandoned by
\* an extraction that was cut off.
InstalledBefore ==
    /\ pipeline.pc \in {"start", "launch", "wait", "run", "stop"} /\ pipeline.kind # "docker" => installation # "none"
    /\ installation = "part" => pipeline.pc = "extracting" \/ abandoned.files

\* A Solr that was not abandoned belongs to the run, which has still to stop it.
SolrHasRun ==
    port.by \in {"solr", "container"} /\ ~ abandoned.solr => pipeline.pc \in {"wait", "run", "stop"} /\ port = Mine

PipelineInv == PipelineTypeOK /\ PortIsOwn /\ PathOfKind /\ InstalledBefore /\ SolrHasRun

-----------------------------------------------------------------------------
\* What a run finds on the port after it has freed it, or started its Solr.
LEMMA PortsTyped == Free \in Ports /\ Mine \in Ports
BY DEF Free, Mine, Ports

\* Nothing runs on the port yet.
LEMMA PipelineInitially == PipelineInit => PipelineInv
<1> SUFFICES ASSUME PipelineInit PROVE PipelineInv
  OBVIOUS
<1>1. PICK kinds \in {{"distribution"}, {"sources"}, {"docker"}, {"distribution", "sources", "docker"}} :
        pipeline = [pc |-> "idle", kind |-> CHOOSE k \in kinds : TRUE, kinds |-> kinds, ok |-> FALSE]
  BY DEF PipelineInit
<1>2. kinds \in SUBSET Kinds /\ (CHOOSE k \in kinds : TRUE) \in Kinds
  BY DEF Kinds
<1>3. PipelineTypeOK
  BY <1>1, <1>2 DEF PipelineInit, PipelineTypeOK, Steps, Ports, Free
<1>4. PortIsOwn /\ PathOfKind /\ InstalledBefore /\ SolrHasRun
  BY <1>1 DEF PipelineInit, PortIsOwn, PathOfKind, InstalledBefore, SolrHasRun, Free
<1> QED BY <1>3, <1>4 DEF PipelineInv

\* BeginPipeline: what the last run has left is not this one's.
LEMMA BeginPipelineKeeps == ASSUME PipelineInv, BeginPipeline PROVE PipelineInv'
<1> USE DEF BeginPipeline, Doing, NoFault
<1>1. PipelineTypeOK'
  BY DEF PipelineInv, PipelineTypeOK, Kinds, Steps, Ports, Free, Mine
<1>2. PortIsOwn'
  BY DEF PipelineInv, PipelineTypeOK, Ports, PortIsOwn, Kinds, Free, Mine
<1>3. PathOfKind'
  BY DEF PipelineInv, PipelineTypeOK, PathOfKind, Kinds
<1>4. InstalledBefore'
  BY DEF PipelineInv, PipelineTypeOK, InstalledBefore, PathOfKind, Kinds
<1>5. SolrHasRun'
  BY DEF PipelineInv, PipelineTypeOK, Ports, SolrHasRun, PortIsOwn, InstalledBefore, Kinds, Free, Mine
<1> QED BY <1>1, <1>2, <1>3, <1>4, <1>5 DEF PipelineInv

\* Download: the port is not touched.
LEMMA DownloadKeeps == ASSUME PipelineInv, Download PROVE PipelineInv'
<1> USE DEF Download, Doing, Do, NoFault
<1>1. PipelineTypeOK'
  BY DEF PipelineInv, PipelineTypeOK, Kinds, Steps, Ports, Free, Mine
<1>2. PortIsOwn'
  BY DEF PipelineInv, PipelineTypeOK, Ports, PortIsOwn, Free, Mine
<1>3. PathOfKind'
  BY DEF PipelineInv, PipelineTypeOK, PathOfKind, Kinds
<1>4. InstalledBefore'
  BY DEF PipelineInv, PipelineTypeOK, InstalledBefore, PathOfKind, Kinds
<1>5. SolrHasRun'
  BY DEF PipelineInv, PipelineTypeOK, Ports, SolrHasRun, PortIsOwn, InstalledBefore, Kinds, Free, Mine
<1> QED BY <1>1, <1>2, <1>3, <1>4, <1>5 DEF PipelineInv

\* Downloading: the port is not touched.
LEMMA DownloadingKeeps == ASSUME PipelineInv, Downloading PROVE PipelineInv'
<1> USE DEF Downloading, Doing, Do, Fail, NoFault
<1>1. PipelineTypeOK'
  BY DEF PipelineInv, PipelineTypeOK, Kinds, Steps, Ports, Free, Mine
<1>2. PortIsOwn'
  BY DEF PipelineInv, PipelineTypeOK, Ports, PortIsOwn, Free, Mine
<1>3. PathOfKind'
  BY DEF PipelineInv, PipelineTypeOK, PathOfKind, Kinds
<1>4. InstalledBefore'
  BY DEF PipelineInv, PipelineTypeOK, InstalledBefore, PathOfKind, Kinds
<1>5. SolrHasRun'
  BY DEF PipelineInv, PipelineTypeOK, Ports, SolrHasRun, PortIsOwn, InstalledBefore, Kinds, Free, Mine
<1> QED BY <1>1, <1>2, <1>3, <1>4, <1>5 DEF PipelineInv

\* install: a directory that is not complete was abandoned.
LEMMA installKeeps == ASSUME PipelineInv, install PROVE PipelineInv'
<1> USE DEF install, Doing, Do, NoFault
<1>1. PipelineTypeOK'
  BY DEF PipelineInv, PipelineTypeOK, Kinds, Steps, Ports, Free, Mine
<1>2. PortIsOwn'
  BY DEF PipelineInv, PipelineTypeOK, Ports, PortIsOwn, Free, Mine
<1>3. PathOfKind'
  BY DEF PipelineInv, PipelineTypeOK, PathOfKind, Kinds
<1>4. InstalledBefore'
  BY DEF PipelineInv, PipelineTypeOK, InstalledBefore, PathOfKind, Kinds
<1>5. SolrHasRun'
  BY DEF PipelineInv, PipelineTypeOK, Ports, SolrHasRun, PortIsOwn, InstalledBefore, Kinds, Free, Mine
<1> QED BY <1>1, <1>2, <1>3, <1>4, <1>5 DEF PipelineInv

\* Extracting: from here on the installation is partial.
LEMMA ExtractingKeeps == ASSUME PipelineInv, Extracting PROVE PipelineInv'
<1> USE DEF Extracting, Doing, Do, NoFault
<1>1. PipelineTypeOK'
  BY DEF PipelineInv, PipelineTypeOK, Kinds, Steps, Ports, Free, Mine
<1>2. PortIsOwn'
  BY DEF PipelineInv, PipelineTypeOK, Ports, PortIsOwn, Free, Mine
<1>3. PathOfKind'
  BY DEF PipelineInv, PipelineTypeOK, PathOfKind, Kinds
<1>4. InstalledBefore'
  BY DEF PipelineInv, PipelineTypeOK, InstalledBefore, PathOfKind, Kinds
<1>5. SolrHasRun'
  BY DEF PipelineInv, PipelineTypeOK, Ports, SolrHasRun, PortIsOwn, InstalledBefore, Kinds, Free, Mine
<1> QED BY <1>1, <1>2, <1>3, <1>4, <1>5 DEF PipelineInv

\* InstallationExtracted: an extraction that fails abandons its files.
LEMMA InstallationExtractedKeeps == ASSUME PipelineInv, InstallationExtracted PROVE PipelineInv'
<1> USE DEF InstallationExtracted, Doing, Do, Fail, NoFault
<1>1. PipelineTypeOK'
  BY DEF PipelineInv, PipelineTypeOK, Kinds, Steps, Ports, Free, Mine
<1>2. PortIsOwn'
  BY DEF PipelineInv, PipelineTypeOK, Ports, PortIsOwn, Free, Mine
<1>3. PathOfKind'
  BY DEF PipelineInv, PipelineTypeOK, PathOfKind, Kinds
<1>4. InstalledBefore'
  BY DEF PipelineInv, PipelineTypeOK, InstalledBefore, PathOfKind, Kinds
<1>5. SolrHasRun'
  BY DEF PipelineInv, PipelineTypeOK, Ports, SolrHasRun, PortIsOwn, InstalledBefore, Kinds, Free, Mine
<1> QED BY <1>1, <1>2, <1>3, <1>4, <1>5 DEF PipelineInv

\* RemoveContainer: only the docker pipeline comes here, and a container on the port was abandoned.
LEMMA RemoveContainerKeeps == ASSUME PipelineInv, RemoveContainer PROVE PipelineInv'
<1> USE DEF RemoveContainer, Doing, Do, NoFault
<1>1. PipelineTypeOK'
  BY DEF PipelineInv, PipelineTypeOK, Kinds, Steps, Ports, Free, Mine
<1>2. PortIsOwn'
  BY DEF PipelineInv, PipelineTypeOK, Ports, PortIsOwn, Free, Mine
<1>3. PathOfKind'
  BY DEF PipelineInv, PipelineTypeOK, PathOfKind, Kinds
<1>4. InstalledBefore'
  BY DEF PipelineInv, PipelineTypeOK, InstalledBefore, PathOfKind, Kinds
<1>5. SolrHasRun'
  BY DEF PipelineInv, PipelineTypeOK, Ports, SolrHasRun, PortIsOwn, InstalledBefore, Kinds, Free, Mine
<1> QED BY <1>1, <1>2, <1>3, <1>4, <1>5 DEF PipelineInv

\* _assert_port_free: what is on the port here was abandoned, or is somebody else's.
LEMMA assert_port_freeKeeps == ASSUME PipelineInv, _assert_port_free PROVE PipelineInv'
<1> USE DEF _assert_port_free, Doing, Do, NoFault
<1>1. PipelineTypeOK'
  BY DEF PipelineInv, PipelineTypeOK, Kinds, Steps, Ports, Free, Mine
<1>2. PortIsOwn'
  BY DEF PipelineInv, PipelineTypeOK, Ports, PortIsOwn, Free, Mine
<1>3. PathOfKind'
  BY DEF PipelineInv, PipelineTypeOK, PathOfKind, Kinds
<1>4. InstalledBefore'
  BY DEF PipelineInv, PipelineTypeOK, InstalledBefore, PathOfKind, Kinds
<1>5. SolrHasRun'
  BY DEF PipelineInv, PipelineTypeOK, Ports, SolrHasRun, PortIsOwn, InstalledBefore, Kinds, Free, Mine
<1> QED BY <1>1, <1>2, <1>3, <1>4, <1>5 DEF PipelineInv

\* Launch: Solr is this run's own, or did not start.
LEMMA LaunchKeeps == ASSUME PipelineInv, Launch PROVE PipelineInv'
<1> USE DEF Launch, Doing, Do, Fail, LaunchFailed, NoFault
<1>1. PipelineTypeOK'
  <2>1. pipeline' \in [pc : Steps, kind : Kinds, kinds : SUBSET Kinds, ok : BOOLEAN]
    BY DEF PipelineInv, PipelineTypeOK, Steps
  <2>2. port' \in {port, Free, Mine}
    OBVIOUS
  <2> QED BY <2>1, <2>2, PortsTyped DEF PipelineInv, PipelineTypeOK
<1>2. PortIsOwn'
  BY DEF PipelineInv, PipelineTypeOK, Ports, PortIsOwn, Free, Mine
<1>3. PathOfKind'
  BY DEF PipelineInv, PipelineTypeOK, PathOfKind, Kinds
<1>4. InstalledBefore'
  BY DEF PipelineInv, PipelineTypeOK, InstalledBefore, PathOfKind, Kinds
<1>5. SolrHasRun'
  BY DEF PipelineInv, PipelineTypeOK, Ports, SolrHasRun, PortIsOwn, InstalledBefore, Kinds, Free, Mine
<1> QED BY <1>1, <1>2, <1>3, <1>4, <1>5 DEF PipelineInv

\* _wait_for_ready: nobody can take the port of a running Solr.
LEMMA wait_for_readyKeeps == ASSUME PipelineInv, _wait_for_ready PROVE PipelineInv'
<1> USE DEF _wait_for_ready, Doing, Do, Fail, NoFault
<1>1. PipelineTypeOK'
  BY DEF PipelineInv, PipelineTypeOK, Kinds, Steps, Ports, Free, Mine
<1>2. PortIsOwn'
  BY DEF PipelineInv, PipelineTypeOK, Ports, PortIsOwn, Free, Mine
<1>3. PathOfKind'
  BY DEF PipelineInv, PipelineTypeOK, PathOfKind, Kinds
<1>4. InstalledBefore'
  BY DEF PipelineInv, PipelineTypeOK, InstalledBefore, PathOfKind, Kinds
<1>5. SolrHasRun'
  BY DEF PipelineInv, PipelineTypeOK, Ports, SolrHasRun, PortIsOwn, InstalledBefore, Kinds, Free, Mine
<1> QED BY <1>1, <1>2, <1>3, <1>4, <1>5 DEF PipelineInv

\* RunTest: nobody can take the port of a running Solr.
LEMMA RunTestKeeps == ASSUME PipelineInv, RunTest PROVE PipelineInv'
<1> USE DEF RunTest, Doing, Do, Fail, NoFault
<1>1. PipelineTypeOK'
  BY DEF PipelineInv, PipelineTypeOK, Kinds, Steps, Ports, Free, Mine
<1>2. PortIsOwn'
  BY DEF PipelineInv, PipelineTypeOK, Ports, PortIsOwn, Free, Mine
<1>3. PathOfKind'
  BY DEF PipelineInv, PipelineTypeOK, PathOfKind, Kinds
<1>4. InstalledBefore'
  BY DEF PipelineInv, PipelineTypeOK, InstalledBefore, PathOfKind, Kinds
<1>5. SolrHasRun'
  BY DEF PipelineInv, PipelineTypeOK, Ports, SolrHasRun, PortIsOwn, InstalledBefore, Kinds, Free, Mine
<1> QED BY <1>1, <1>2, <1>3, <1>4, <1>5 DEF PipelineInv

\* stop: the command that fits the pipeline ends its Solr, or fails and abandons it.
LEMMA stopKeeps == ASSUME PipelineInv, stop PROVE PipelineInv'
<1> USE DEF stop, Stopped, Doing, Do, Fail, NoFault
<1>1. PipelineTypeOK'
  <2>1. pipeline' \in [pc : Steps, kind : Kinds, kinds : SUBSET Kinds, ok : BOOLEAN]
    BY DEF PipelineInv, PipelineTypeOK, Steps
  <2>2. port' \in {port, Free}
    OBVIOUS
  <2>3. abandoned' \in [solr : BOOLEAN, files : BOOLEAN]
    BY DEF PipelineInv, PipelineTypeOK
  <2> QED BY <2>1, <2>2, <2>3, PortsTyped DEF PipelineInv, PipelineTypeOK
<1>2. PortIsOwn'
  BY DEF PipelineInv, PipelineTypeOK, Ports, PortIsOwn, Free, Mine
<1>3. PathOfKind'
  BY DEF PipelineInv, PipelineTypeOK, PathOfKind, Kinds
<1>4. InstalledBefore'
  BY DEF PipelineInv, PipelineTypeOK, InstalledBefore, PathOfKind, Kinds
<1>5. SolrHasRun'
  BY DEF PipelineInv, PipelineTypeOK, Ports, SolrHasRun, PortIsOwn, InstalledBefore, Kinds, Free, Mine
<1> QED BY <1>1, <1>2, <1>3, <1>4, <1>5 DEF PipelineInv

\* clean: there is no Solr any more, and now no installation.
LEMMA cleanKeeps == ASSUME PipelineInv, clean PROVE PipelineInv'
<1> USE DEF clean, CleanedInstallation, Doing, Do, NoFault
<1>1. PipelineTypeOK'
  BY DEF PipelineInv, PipelineTypeOK, Kinds, Steps, Ports, Free, Mine
<1>2. PortIsOwn'
  BY DEF PipelineInv, PipelineTypeOK, Ports, PortIsOwn, Free, Mine
<1>3. PathOfKind'
  BY DEF PipelineInv, PipelineTypeOK, PathOfKind, Kinds
<1>4. InstalledBefore'
  BY DEF PipelineInv, PipelineTypeOK, InstalledBefore, PathOfKind, Kinds
<1>5. SolrHasRun'
  BY DEF PipelineInv, PipelineTypeOK, Ports, SolrHasRun, PortIsOwn, InstalledBefore, Kinds, Free, Mine
<1> QED BY <1>1, <1>2, <1>3, <1>4, <1>5 DEF PipelineInv

\* KillRun: a kill abandons whatever is there.
LEMMA KillRunKeeps == ASSUME PipelineInv, KillRun PROVE PipelineInv'
<1> USE DEF KillRun, Doing, Do, Fail
<1>1. PipelineTypeOK'
  BY DEF PipelineInv, PipelineTypeOK, Kinds, Steps, Ports, Free, Mine
<1>2. PortIsOwn'
  BY DEF PipelineInv, PipelineTypeOK, Ports, PortIsOwn, Free, Mine
<1>3. PathOfKind'
  BY DEF PipelineInv, PipelineTypeOK, PathOfKind, Kinds
<1>4. InstalledBefore'
  BY DEF PipelineInv, PipelineTypeOK, InstalledBefore, PathOfKind, Kinds
<1>5. SolrHasRun'
  BY DEF PipelineInv, PipelineTypeOK, Ports, SolrHasRun, PortIsOwn, InstalledBefore, Kinds, Free, Mine
<1> QED BY <1>1, <1>2, <1>3, <1>4, <1>5 DEF PipelineInv

\* IntruderComes: the port was free, and nobody has started a Solr.
LEMMA IntruderComesKeeps == ASSUME PipelineInv, IntruderComes PROVE PipelineInv'
<1> USE DEF IntruderComes
<1>1. PipelineTypeOK'
  BY DEF PipelineInv, PipelineTypeOK, Kinds, Steps, Ports, Free, Mine
<1>2. PortIsOwn'
  BY DEF PipelineInv, PipelineTypeOK, Ports, PortIsOwn, Free, Mine
<1>3. PathOfKind'
  BY DEF PipelineInv, PipelineTypeOK, PathOfKind, Kinds
<1>4. InstalledBefore'
  BY DEF PipelineInv, PipelineTypeOK, InstalledBefore, PathOfKind, Kinds
<1>5. SolrHasRun'
  BY DEF PipelineInv, PipelineTypeOK, Ports, SolrHasRun, PortIsOwn, InstalledBefore, Kinds, Free, Mine
<1> QED BY <1>1, <1>2, <1>3, <1>4, <1>5 DEF PipelineInv

\* IntruderLeaves: the intruder's port is no Solr's.
LEMMA IntruderLeavesKeeps == ASSUME PipelineInv, IntruderLeaves PROVE PipelineInv'
<1> USE DEF IntruderLeaves, NoFault
<1>1. PipelineTypeOK'
  BY DEF PipelineInv, PipelineTypeOK, Kinds, Steps, Ports, Free, Mine
<1>2. PortIsOwn'
  BY DEF PipelineInv, PipelineTypeOK, Ports, PortIsOwn, Free, Mine
<1>3. PathOfKind'
  BY DEF PipelineInv, PipelineTypeOK, PathOfKind, Kinds
<1>4. InstalledBefore'
  BY DEF PipelineInv, PipelineTypeOK, InstalledBefore, PathOfKind, Kinds
<1>5. SolrHasRun'
  BY DEF PipelineInv, PipelineTypeOK, Ports, SolrHasRun, PortIsOwn, InstalledBefore, Kinds, Free, Mine
<1> QED BY <1>1, <1>2, <1>3, <1>4, <1>5 DEF PipelineInv

\* Every step of a run, a kill and what happens on the port keep the invariant.
LEMMA PipelineKept == PipelineInv /\ [PipelineNext]_pipelineVars => PipelineInv'
<1> SUFFICES ASSUME PipelineInv, [PipelineNext]_pipelineVars PROVE PipelineInv'
  OBVIOUS
<1>1. CASE PipelineStep
  BY <1>1, BeginPipelineKeeps, DownloadKeeps, DownloadingKeeps, installKeeps, ExtractingKeeps, InstallationExtractedKeeps, RemoveContainerKeeps,
     assert_port_freeKeeps, LaunchKeeps, wait_for_readyKeeps, RunTestKeeps, stopKeeps, cleanKeeps
     DEF PipelineStep
<1>2. CASE KillRun \/ IntruderComes \/ IntruderLeaves
  BY <1>2, KillRunKeeps, IntruderComesKeeps, IntruderLeavesKeeps
<1>3. CASE UNCHANGED pipelineVars
  BY <1>3 DEF pipelineVars, PipelineInv, PipelineTypeOK, Ports, PortIsOwn, PathOfKind, InstalledBefore, SolrHasRun, Mine
<1> QED BY <1>1, <1>2, <1>3 DEF PipelineNext

(***************************************************************************)
(* Whatever fails, is killed or takes the port in between, and whatever    *)
(* earlier runs have left: a pipeline measures the Solr that               *)
(* SolrProvisioner or SolrDockerLauncher has started for it, and none      *)
(* outlives its run unless the run was killed or the stop command failed.  *)
(***************************************************************************)
THEOREM SolrIsOwn == PipelineSpec => []OwnSolrOnly
<1>1. PipelineInit => PipelineInv
  BY PipelineInitially
<1>2. PipelineInv /\ [PipelineNext]_pipelineVars => PipelineInv'
  BY PipelineKept
<1>3. PipelineInv => OwnSolrOnly
  BY DEF PipelineInv, PipelineTypeOK, Ports, PortIsOwn, InstalledBefore, SolrHasRun, OwnSolrOnly, MeasuresItsOwnSolr,
         NothingLeftRunning, Doing
<1> QED BY <1>1, <1>2, <1>3, PTL DEF PipelineSpec

-----------------------------------------------------------------------------
(***************************************************************************)
(* The commands start and stop of a node (NodeCommands)                    *)
(***************************************************************************)
(* The inductive invariant *)

NodePcs == {"idle", "install", "launch", "attach", "store", "find", "detach", "terminate", "metrics", "delete",
        "results", "cleanup"}
Nodes == [pid : Pids \union {0}, disk : {"none", "start", "difference"}]
States == {"none", "node", "other"}
NodeCommandStates == [pc : NodePcs, node : Nodes, preserve : BOOLEAN, test_run : BOOLEAN, size : {"none", "final"},
                  found : States]

NodeTypeOK ==
    /\ node_file \in Nodes
    /\ procs \in [Pids -> States]
    /\ command \in NodeCommandStates
    /\ stored \in [disk : {"none", "start", "difference"}, size : {"none", "final"}]
    /\ unknown \in BOOLEAN /\ died \in BOOLEAN

Starting == command.pc \in {"launch", "attach", "store"}
Stopping == command.pc \in {"find", "detach", "terminate", "metrics", "delete"}

\* start works only without a node file, stop on the node of the node file.
CommandsHaveFile ==
    /\ node_file = NoNode \/ node_file.pid \in Pids
    /\ Starting \/ command.pc \in {"results", "cleanup"} => node_file = NoNode
    /\ command.pc \in {"attach", "store"} => command.node.pid \in Pids
    /\ Stopping => node_file # NoNode /\ command.node.pid = node_file.pid

\* There is one node at most, and who knows its process: the start command,
\* then the node file, or nobody after a start has lost it.
NodeIsKnown ==
    /\ command.pc \in {"launch", "metrics", "delete"} => Live = {}
    /\ command.pc \in {"attach", "store"} => Live \subseteq {command.node.pid}
    /\ node_file # NoNode => Live \subseteq {node_file.pid}
    /\ node_file = NoNode /\ command.pc \notin {"attach", "store"} /\ ~ unknown => Live = {}

\* A node file without its node says that the node is gone, until stop has
\* ended it itself; what stop has found when it looked is still there, or has
\* ended since.
GoneIsNoted ==
    /\ node_file # NoNode /\ command.pc \notin {"metrics", "delete"} /\ procs[node_file.pid] # "node" => died
    /\ command.pc \in {"detach", "terminate"} /\ command.found # "node" => died /\ procs[command.node.pid] # "node"

\* The counters that were read at the start are still there only when no
\* device could be detached.
DiskIsDetached ==
    /\ command.pc = "terminate" => command.node.disk # "start"
    /\ command.pc = "metrics" /\ command.node.disk = "start" => died

NodeInv == NodeTypeOK /\ CommandsHaveFile /\ NodeIsKnown /\ GoneIsNoted /\ DiskIsDetached

-----------------------------------------------------------------------------
(* The invariant is kept *)

\* What is in a node.
LEMMA NodeFields ==
    ASSUME NEW pid \in Pids \union {0}, NEW disk \in {"none", "start", "difference"}
    PROVE  Node(pid, disk) \in Nodes /\ Node(pid, disk).pid = pid /\ Node(pid, disk).disk = disk
BY DEF Node, Nodes

\* There is no process with the PID of NoNode.
LEMMA NoNodeFields == NoNode \in Nodes /\ NoNode.pid = 0 /\ NoNode.disk = "none"
BY DEF NoNode, Node, Nodes

\* What a command consists of that goes on with another node.
LEMMA CommandFields ==
    ASSUME NEW pc \in NodePcs, NEW node \in Nodes, command \in NodeCommandStates,
           command' = [command EXCEPT !.pc = pc, !.node = node]
    PROVE  /\ command' \in NodeCommandStates /\ command'.pc = pc /\ command'.node = node
           /\ command'.found = command.found
BY DEF NodeCommandStates

\* What a command consists of that has ended.
LEMMA RestFields == Rest \in NodeCommandStates /\ Rest.pc = "idle" /\ Rest.node = NoNode
BY NoNodeFields DEF Rest, NodeCommandStates, NodePcs, States

\* The command is always a command.
LEMMA CommandTyped == NodeInv => command \in NodeCommandStates
BY DEF NodeInv, NodeTypeOK

\* There is neither a node nor a command.
LEMMA NodeInitially == NodeInit => NodeInv
<1> SUFFICES ASSUME NodeInit PROVE NodeInv
  OBVIOUS
<1> USE PidAssumption DEF NodeInit, Rest, NoNode, Node
<1>1. NodeTypeOK
  BY DEF NodeTypeOK, NodeCommandStates, Nodes, States, NodePcs, NoMetrics
<1>2. CommandsHaveFile
  BY DEF CommandsHaveFile, Starting, Stopping
<1>3. NodeIsKnown
  BY DEF NodeIsKnown, Live
<1>4. GoneIsNoted /\ DiskIsDetached
  BY DEF GoneIsNoted, DiskIsDetached
<1> QED BY <1>1, <1>2, <1>3, <1>4 DEF NodeInv

\* Install: no process is touched.
LEMMA InstallKeeps == ASSUME NodeInv, Install PROVE NodeInv'
<1> USE PidAssumption DEF Install, Step, Continue
<1>1. NodeTypeOK'
  BY DEF NodeInv, NodeTypeOK, NodeCommandStates, CommandsHaveFile, Stopping, Nodes, States, NodePcs
<1>2. CommandsHaveFile'
  BY DEF NodeInv, NodeTypeOK, NodeCommandStates, Nodes, CommandsHaveFile, Starting, Stopping
<1>3. NodeIsKnown'
  BY DEF NodeInv, NodeTypeOK, NodeCommandStates, Nodes, States, CommandsHaveFile, Starting, Stopping, NodeIsKnown, GoneIsNoted, Live
<1>4. GoneIsNoted'
  BY DEF NodeInv, NodeTypeOK, NodeCommandStates, Nodes, States, CommandsHaveFile, Starting, Stopping, GoneIsNoted
<1>5. DiskIsDetached'
  BY DEF NodeInv, NodeTypeOK, NodeCommandStates, Nodes, CommandsHaveFile, Starting, Stopping, GoneIsNoted, DiskIsDetached
<1> QED BY <1>1, <1>2, <1>3, <1>4, <1>5 DEF NodeInv

\* save_node_configuration: no process is touched.
LEMMA save_node_configurationKeeps == ASSUME NodeInv, save_node_configuration PROVE NodeInv'
<1> USE PidAssumption DEF save_node_configuration, Step, End, Rest, NoNode, Node
<1>1. NodeTypeOK'
  BY DEF NodeInv, NodeTypeOK, NodeCommandStates, CommandsHaveFile, Stopping, Nodes, States, NodePcs
<1>2. CommandsHaveFile'
  BY DEF NodeInv, NodeTypeOK, NodeCommandStates, Nodes, CommandsHaveFile, Starting, Stopping
<1>3. NodeIsKnown'
  BY DEF NodeInv, NodeTypeOK, NodeCommandStates, Nodes, States, CommandsHaveFile, Starting, Stopping, NodeIsKnown, GoneIsNoted, Live
<1>4. GoneIsNoted'
  BY DEF NodeInv, NodeTypeOK, NodeCommandStates, Nodes, States, CommandsHaveFile, Starting, Stopping, GoneIsNoted
<1>5. DiskIsDetached'
  BY DEF NodeInv, NodeTypeOK, NodeCommandStates, Nodes, CommandsHaveFile, Starting, Stopping, GoneIsNoted, DiskIsDetached
<1> QED BY <1>1, <1>2, <1>3, <1>4, <1>5 DEF NodeInv

\* Start: there is no node yet.
LEMMA StartKeeps == ASSUME NodeInv, Start PROVE NodeInv'
<1> USE PidAssumption DEF Start, Step, Continue
<1>1. NodeTypeOK'
  BY DEF NodeInv, NodeTypeOK, NodeCommandStates, CommandsHaveFile, Stopping, Nodes, States, NodePcs
<1>2. CommandsHaveFile'
  BY DEF NodeInv, NodeTypeOK, NodeCommandStates, Nodes, CommandsHaveFile, Starting, Stopping
<1>3. NodeIsKnown'
  BY DEF NodeInv, NodeTypeOK, NodeCommandStates, Nodes, States, CommandsHaveFile, Starting, Stopping, NodeIsKnown, GoneIsNoted, Live
<1>4. GoneIsNoted'
  BY DEF NodeInv, NodeTypeOK, NodeCommandStates, Nodes, States, CommandsHaveFile, Starting, Stopping, GoneIsNoted
<1>5. DiskIsDetached'
  BY DEF NodeInv, NodeTypeOK, NodeCommandStates, Nodes, CommandsHaveFile, Starting, Stopping, GoneIsNoted, DiskIsDetached
<1> QED BY <1>1, <1>2, <1>3, <1>4, <1>5 DEF NodeInv

\* _start_process: only the command knows the new node.
LEMMA start_processKeeps == ASSUME NodeInv, _start_process PROVE NodeInv'
<1>1. command.pc = "launch" /\ UNCHANGED <<node_file, stored, unknown, died>>
  BY DEF _start_process, Step
<1>2. CASE command' = Rest /\ UNCHANGED procs
  <2>1. NodeTypeOK'
    BY <1>1, <1>2, RestFields DEF NodeInv, NodeTypeOK
  <2>2. CommandsHaveFile'
    BY <1>1, <1>2, RestFields, PidAssumption DEF NodeInv, CommandsHaveFile, Starting, Stopping
  <2>3. NodeIsKnown'
    BY <1>1, <1>2, RestFields, NoNodeFields, PidAssumption DEF NodeInv, NodeTypeOK, States, CommandsHaveFile, Starting, NodeIsKnown, Live
  <2>4. GoneIsNoted' /\ DiskIsDetached'
    BY <1>1, <1>2, RestFields DEF NodeInv, CommandsHaveFile, Starting, Stopping, GoneIsNoted, DiskIsDetached
  <2> QED BY <2>1, <2>2, <2>3, <2>4 DEF NodeInv
<1>3. ASSUME NEW p \in Pids, procs' = [procs EXCEPT ![p] = "node"],
             command' = [command EXCEPT !.pc = "attach", !.node = Node(p, "none")]
      PROVE  NodeInv'
  <2>1. Node(p, "none") \in Nodes /\ Node(p, "none").pid = p /\ "attach" \in NodePcs
    BY NodeFields DEF NodePcs
  <2>2. command' \in NodeCommandStates /\ command'.pc = "attach" /\ command'.node.pid = p
    <3>1. command' \in NodeCommandStates /\ command'.pc = "attach" /\ command'.node = Node(p, "none")
      BY <1>3, <2>1, CommandTyped, CommandFields, Zenon
    <3> QED BY <3>1, <2>1
  <2>3. NodeTypeOK'
    BY <1>1, <1>3, <2>2 DEF NodeInv, NodeTypeOK, States
  <2>4. CommandsHaveFile'
    BY <1>1, <1>3, <2>2, PidAssumption DEF NodeInv, CommandsHaveFile, Starting, Stopping
  <2>5. NodeIsKnown'
    BY <1>1, <1>3, <2>2, NoNodeFields, PidAssumption DEF NodeInv, NodeTypeOK, States, CommandsHaveFile, Starting, NodeIsKnown, Live
  <2>6. GoneIsNoted' /\ DiskIsDetached'
    BY <1>1, <1>3, <2>2 DEF NodeInv, CommandsHaveFile, Starting, Stopping, GoneIsNoted, DiskIsDetached
  <2> QED BY <2>3, <2>4, <2>5, <2>6 DEF NodeInv
<1> QED BY <1>2, <1>3 DEF _start_process, End

\* attach_to_node: a start that gives up leaves its node unknown, if it runs.
LEMMA attach_to_nodeKeeps == ASSUME NodeInv, attach_to_node PROVE NodeInv'
<1>1. command.pc = "attach" /\ UNCHANGED <<node_file, procs, stored, died>>
  BY DEF attach_to_node, Step
<1>2. CASE command' = Rest /\ (unknown' = TRUE \/ (unknown' = unknown /\ procs[command.node.pid] # "node"))
  <2>1. NodeTypeOK'
    BY <1>1, <1>2, RestFields DEF NodeInv, NodeTypeOK
  <2>2. CommandsHaveFile'
    BY <1>1, <1>2, RestFields, PidAssumption DEF NodeInv, CommandsHaveFile, Starting, Stopping
  <2>3. NodeIsKnown'
    BY <1>1, <1>2, RestFields, NoNodeFields, PidAssumption DEF NodeInv, NodeTypeOK, States, CommandsHaveFile, Starting, NodeIsKnown, Live
  <2>4. GoneIsNoted' /\ DiskIsDetached'
    BY <1>1, <1>2, RestFields DEF NodeInv, CommandsHaveFile, Starting, Stopping, GoneIsNoted, DiskIsDetached
  <2> QED BY <2>1, <2>2, <2>3, <2>4 DEF NodeInv
<1>3. ASSUME NEW disk \in {"start", "none"}, UNCHANGED unknown,
             command' = [command EXCEPT !.pc = "store", !.node = Node(command.node.pid, disk)]
      PROVE  NodeInv'
  <2> DEFINE node == Node(command.node.pid, disk)
  <2>1. command.node.pid \in Pids
    BY <1>1 DEF NodeInv, CommandsHaveFile
  <2>2. node \in Nodes /\ node.pid = command.node.pid /\ "store" \in NodePcs
    BY <2>1, NodeFields DEF NodePcs
  <2> HIDE DEF node
  <2>3. command' \in NodeCommandStates /\ command'.pc = "store" /\ command'.node.pid = command.node.pid
    <3>1. command' = [command EXCEPT !.pc = "store", !.node = node]
      BY <1>3 DEF node
    <3>2. command' \in NodeCommandStates /\ command'.pc = "store" /\ command'.node = node
      BY <3>1, <2>2, CommandTyped, CommandFields, Zenon
    <3> QED BY <3>2, <2>2
  <2>4. NodeTypeOK'
    BY <1>1, <1>3, <2>3 DEF NodeInv, NodeTypeOK
  <2>5. CommandsHaveFile'
    BY <1>1, <1>3, <2>3, PidAssumption DEF NodeInv, CommandsHaveFile, Starting, Stopping
  <2>6. NodeIsKnown'
    BY <1>1, <1>3, <2>3, NoNodeFields, PidAssumption DEF NodeInv, NodeTypeOK, States, CommandsHaveFile, Starting, NodeIsKnown, Live
  <2>7. GoneIsNoted' /\ DiskIsDetached'
    BY <1>1, <1>3, <2>3 DEF NodeInv, CommandsHaveFile, Starting, Stopping, GoneIsNoted, DiskIsDetached
  <2> QED BY <2>4, <2>5, <2>6, <2>7 DEF NodeInv
<1> QED BY <1>2, <1>3 DEF attach_to_node, End

\* _store_node_file: the node file names the node, and says so when it is gone already.
LEMMA store_node_fileKeeps == ASSUME NodeInv, _store_node_file PROVE NodeInv'
<1> USE PidAssumption DEF _store_node_file, Step, End, Rest, NoNode, Node
<1>1. NodeTypeOK'
  BY DEF NodeInv, NodeTypeOK, NodeCommandStates, CommandsHaveFile, Stopping, Nodes, States, NodePcs
<1>2. CommandsHaveFile'
  BY DEF NodeInv, NodeTypeOK, NodeCommandStates, Nodes, CommandsHaveFile, Starting, Stopping
<1>3. NodeIsKnown'
  BY DEF NodeInv, NodeTypeOK, NodeCommandStates, Nodes, States, CommandsHaveFile, Starting, Stopping, NodeIsKnown, GoneIsNoted, Live
<1>4. GoneIsNoted'
  BY DEF NodeInv, NodeTypeOK, NodeCommandStates, Nodes, States, CommandsHaveFile, Starting, Stopping, GoneIsNoted
<1>5. DiskIsDetached'
  BY DEF NodeInv, NodeTypeOK, NodeCommandStates, Nodes, CommandsHaveFile, Starting, Stopping, GoneIsNoted, DiskIsDetached
<1> QED BY <1>1, <1>2, <1>3, <1>4, <1>5 DEF NodeInv

\* Stop: the node file says which process it is.
LEMMA StopKeeps == ASSUME NodeInv, Stop PROVE NodeInv'
<1> USE PidAssumption DEF Stop, Step, Rest, NoNode, Node
<1>1. NodeTypeOK'
  BY DEF NodeInv, NodeTypeOK, NodeCommandStates, CommandsHaveFile, Stopping, Nodes, States, NodePcs
<1>2. CommandsHaveFile'
  BY DEF NodeInv, NodeTypeOK, NodeCommandStates, Nodes, CommandsHaveFile, Starting, Stopping
<1>3. NodeIsKnown'
  BY DEF NodeInv, NodeTypeOK, NodeCommandStates, Nodes, States, CommandsHaveFile, Starting, Stopping, NodeIsKnown, GoneIsNoted, Live
<1>4. GoneIsNoted'
  BY DEF NodeInv, NodeTypeOK, NodeCommandStates, Nodes, States, CommandsHaveFile, Starting, Stopping, GoneIsNoted
<1>5. DiskIsDetached'
  BY DEF NodeInv, NodeTypeOK, NodeCommandStates, Nodes, CommandsHaveFile, Starting, Stopping, GoneIsNoted, DiskIsDetached
<1> QED BY <1>1, <1>2, <1>3, <1>4, <1>5 DEF NodeInv

\* FindProcess: what is not the node any more was gone before.
LEMMA FindProcessKeeps == ASSUME NodeInv, FindProcess PROVE NodeInv'
<1> USE PidAssumption DEF FindProcess, Step
<1>1. NodeTypeOK'
  BY DEF NodeInv, NodeTypeOK, NodeCommandStates, CommandsHaveFile, Stopping, Nodes, States, NodePcs
<1>2. CommandsHaveFile'
  BY DEF NodeInv, NodeTypeOK, NodeCommandStates, Nodes, CommandsHaveFile, Starting, Stopping
<1>3. NodeIsKnown'
  BY DEF NodeInv, NodeTypeOK, NodeCommandStates, Nodes, States, CommandsHaveFile, Starting, Stopping, NodeIsKnown, GoneIsNoted, Live
<1>4. GoneIsNoted'
  BY DEF NodeInv, NodeTypeOK, NodeCommandStates, Nodes, States, CommandsHaveFile, Starting, Stopping, GoneIsNoted
<1>5. DiskIsDetached'
  BY DEF NodeInv, NodeTypeOK, NodeCommandStates, Nodes, CommandsHaveFile, Starting, Stopping, GoneIsNoted, DiskIsDetached
<1> QED BY <1>1, <1>2, <1>3, <1>4, <1>5 DEF NodeInv

\* DetachRunning: the counters at the start are replaced.
LEMMA DetachRunningKeeps == ASSUME NodeInv, DetachRunning PROVE NodeInv'
<1>1. command.pc = "detach" /\ UNCHANGED <<node_file, procs, stored, unknown, died>>
  BY DEF DetachRunning, Step
<1>2. PICK disk \in {"difference", "none"} :
        command' = [command EXCEPT !.pc = "terminate", !.node = Node(command.node.pid, disk)]
  BY DEF DetachRunning, ResetAfterError
<1> DEFINE node == Node(command.node.pid, disk)
<1>3. node \in Nodes /\ node.pid = command.node.pid /\ node.disk = disk /\ "terminate" \in NodePcs
  <2>1. command.node.pid \in Pids \union {0}
    BY DEF NodeInv, NodeTypeOK, NodeCommandStates, Nodes
  <2> QED BY <2>1, NodeFields DEF NodePcs
<1> HIDE DEF node
<1>4. /\ command' \in NodeCommandStates /\ command'.pc = "terminate" /\ command'.found = command.found
      /\ command'.node.pid = command.node.pid /\ command'.node.disk # "start"
  <2>1. command' = [command EXCEPT !.pc = "terminate", !.node = node]
    BY <1>2 DEF node
  <2>2. /\ command' \in NodeCommandStates /\ command'.pc = "terminate" /\ command'.node = node
        /\ command'.found = command.found
    BY <2>1, <1>3, CommandTyped, CommandFields, Zenon
  <2> QED BY <2>2, <1>3
<1>5. NodeTypeOK'
  BY <1>1, <1>4 DEF NodeInv, NodeTypeOK
<1>6. CommandsHaveFile'
  BY <1>1, <1>4, PidAssumption DEF NodeInv, CommandsHaveFile, Starting, Stopping
<1>7. NodeIsKnown'
  BY <1>1, <1>4, NoNodeFields, PidAssumption DEF NodeInv, NodeTypeOK, States, CommandsHaveFile, Starting, NodeIsKnown, Live
<1>8. GoneIsNoted' /\ DiskIsDetached'
  BY <1>1, <1>4 DEF NodeInv, CommandsHaveFile, Starting, Stopping, GoneIsNoted, DiskIsDetached
<1> QED BY <1>5, <1>6, <1>7, <1>8 DEF NodeInv

\* Terminate: the node, if it was there, has ended.
LEMMA TerminateKeeps == ASSUME NodeInv, Terminate PROVE NodeInv'
<1> USE PidAssumption DEF Terminate, Signalled, Step
<1>1. NodeTypeOK'
  BY DEF NodeInv, NodeTypeOK, NodeCommandStates, CommandsHaveFile, Stopping, Nodes, States, NodePcs
<1>2. CommandsHaveFile'
  BY DEF NodeInv, NodeTypeOK, NodeCommandStates, Nodes, CommandsHaveFile, Starting, Stopping
<1>3. NodeIsKnown'
  BY DEF NodeInv, NodeTypeOK, NodeCommandStates, Nodes, States, CommandsHaveFile, Starting, Stopping, NodeIsKnown, GoneIsNoted, Live
<1>4. GoneIsNoted'
  BY DEF NodeInv, NodeTypeOK, NodeCommandStates, Nodes, States, CommandsHaveFile, Starting, Stopping, GoneIsNoted
<1>5. DiskIsDetached'
  BY DEF NodeInv, NodeTypeOK, NodeCommandStates, Nodes, CommandsHaveFile, Starting, Stopping, GoneIsNoted, DiskIsDetached
<1> QED BY <1>1, <1>2, <1>3, <1>4, <1>5 DEF NodeInv

\* store_system_metrics: no process is touched.
LEMMA store_system_metricsKeeps == ASSUME NodeInv, store_system_metrics PROVE NodeInv'
<1> USE PidAssumption DEF store_system_metrics, Step, Continue
<1>1. NodeTypeOK'
  BY DEF NodeInv, NodeTypeOK, NodeCommandStates, CommandsHaveFile, Stopping, Nodes, States, NodePcs
<1>2. CommandsHaveFile'
  BY DEF NodeInv, NodeTypeOK, NodeCommandStates, Nodes, CommandsHaveFile, Starting, Stopping
<1>3. NodeIsKnown'
  BY DEF NodeInv, NodeTypeOK, NodeCommandStates, Nodes, States, CommandsHaveFile, Starting, Stopping, NodeIsKnown, GoneIsNoted, Live
<1>4. GoneIsNoted'
  BY DEF NodeInv, NodeTypeOK, NodeCommandStates, Nodes, States, CommandsHaveFile, Starting, Stopping, GoneIsNoted
<1>5. DiskIsDetached'
  BY DEF NodeInv, NodeTypeOK, NodeCommandStates, Nodes, CommandsHaveFile, Starting, Stopping, GoneIsNoted, DiskIsDetached
<1> QED BY <1>1, <1>2, <1>3, <1>4, <1>5 DEF NodeInv

\* _delete_node_file: no node is lost with the file.
LEMMA delete_node_fileKeeps == ASSUME NodeInv, _delete_node_file PROVE NodeInv'
<1> USE PidAssumption DEF _delete_node_file, Step, Continue, NoNode, Node
<1>1. NodeTypeOK'
  BY DEF NodeInv, NodeTypeOK, NodeCommandStates, CommandsHaveFile, Stopping, Nodes, States, NodePcs
<1>2. CommandsHaveFile'
  BY DEF NodeInv, NodeTypeOK, NodeCommandStates, Nodes, CommandsHaveFile, Starting, Stopping
<1>3. NodeIsKnown'
  BY DEF NodeInv, NodeTypeOK, NodeCommandStates, Nodes, States, CommandsHaveFile, Starting, Stopping, NodeIsKnown, GoneIsNoted, Live
<1>4. GoneIsNoted'
  BY DEF NodeInv, NodeTypeOK, NodeCommandStates, Nodes, States, CommandsHaveFile, Starting, Stopping, GoneIsNoted
<1>5. DiskIsDetached'
  BY DEF NodeInv, NodeTypeOK, NodeCommandStates, Nodes, CommandsHaveFile, Starting, Stopping, GoneIsNoted, DiskIsDetached
<1> QED BY <1>1, <1>2, <1>3, <1>4, <1>5 DEF NodeInv

\* StoreResults: no process is touched.
LEMMA StoreResultsKeeps == ASSUME NodeInv, StoreResults PROVE NodeInv'
<1> USE PidAssumption DEF StoreResults, Step, Continue, End
<1>1. NodeTypeOK'
  <2>1. command' = Rest \/ command' = [command EXCEPT !.pc = "cleanup"]
    OBVIOUS
  <2>2. [command EXCEPT !.pc = "cleanup"] \in NodeCommandStates
    BY DEF NodeInv, NodeTypeOK, NodeCommandStates, NodePcs
  <2> QED BY <2>1, <2>2, RestFields DEF NodeInv, NodeTypeOK
<1>2. CommandsHaveFile'
  BY RestFields, NoNodeFields DEF NodeCommandStates, NodeInv, NodeTypeOK, CommandsHaveFile, Starting, Stopping
<1>3. NodeIsKnown'
  BY RestFields, NoNodeFields DEF NodeCommandStates, NodeInv, NodeTypeOK, CommandsHaveFile, Starting, Stopping, States, NodeIsKnown, GoneIsNoted, Live
<1>4. GoneIsNoted'
  BY RestFields, NoNodeFields DEF NodeCommandStates, NodeInv, NodeTypeOK, CommandsHaveFile, Starting, Stopping, States, GoneIsNoted
<1>5. DiskIsDetached'
  BY RestFields, NoNodeFields DEF NodeCommandStates, NodeInv, NodeTypeOK, CommandsHaveFile, Starting, Stopping, GoneIsNoted, DiskIsDetached
<1> QED BY <1>1, <1>2, <1>3, <1>4, <1>5 DEF NodeInv

\* cleanup: no process is touched.
LEMMA cleanupKeeps == ASSUME NodeInv, cleanup PROVE NodeInv'
<1> USE PidAssumption DEF cleanup, Step, End, Rest, NoNode, Node
<1>1. NodeTypeOK'
  BY DEF NodeInv, NodeTypeOK, NodeCommandStates, CommandsHaveFile, Stopping, Nodes, States, NodePcs
<1>2. CommandsHaveFile'
  BY DEF NodeInv, NodeTypeOK, NodeCommandStates, Nodes, CommandsHaveFile, Starting, Stopping
<1>3. NodeIsKnown'
  BY DEF NodeInv, NodeTypeOK, NodeCommandStates, Nodes, States, CommandsHaveFile, Starting, Stopping, NodeIsKnown, GoneIsNoted, Live
<1>4. GoneIsNoted'
  BY DEF NodeInv, NodeTypeOK, NodeCommandStates, Nodes, States, CommandsHaveFile, Starting, Stopping, GoneIsNoted
<1>5. DiskIsDetached'
  BY DEF NodeInv, NodeTypeOK, NodeCommandStates, Nodes, CommandsHaveFile, Starting, Stopping, GoneIsNoted, DiskIsDetached
<1> QED BY <1>1, <1>2, <1>3, <1>4, <1>5 DEF NodeInv

\* KillCommand: a start that is killed leaves its node unknown, a stop leaves it noted.
LEMMA KillCommandKeeps == ASSUME NodeInv, KillCommand PROVE NodeInv'
<1> USE PidAssumption DEF KillCommand, Orphaned, Step, End, Rest
<1>1. NodeTypeOK'
  BY NoNodeFields DEF NodeCommandStates, NodeInv, NodeTypeOK, CommandsHaveFile, Starting, Stopping, States, NodePcs
<1>2. CommandsHaveFile'
  BY NoNodeFields DEF NodeCommandStates, NodeInv, NodeTypeOK, CommandsHaveFile, Starting, Stopping
<1>3. NodeIsKnown'
  BY NoNodeFields DEF NodeCommandStates, NodeInv, NodeTypeOK, CommandsHaveFile, Starting, Stopping, States, NodeIsKnown, GoneIsNoted, Live
<1>4. GoneIsNoted'
  BY NoNodeFields DEF NodeCommandStates, NodeInv, NodeTypeOK, CommandsHaveFile, Starting, Stopping, States, GoneIsNoted
<1>5. DiskIsDetached'
  BY NoNodeFields DEF NodeCommandStates, NodeInv, NodeTypeOK, CommandsHaveFile, Starting, Stopping, GoneIsNoted, DiskIsDetached
<1> QED BY <1>1, <1>2, <1>3, <1>4, <1>5 DEF NodeInv

\* NodeDies: a node file is noted to be without its node.
LEMMA NodeDiesKeeps == ASSUME NodeInv, NodeDies PROVE NodeInv'
<1> USE PidAssumption DEF NodeDies, Dies, Orphaned
<1>1. NodeTypeOK'
  BY DEF NodeInv, NodeTypeOK, NodeCommandStates, CommandsHaveFile, Stopping, Nodes, States, NodePcs
<1>2. CommandsHaveFile'
  BY DEF NodeInv, NodeTypeOK, NodeCommandStates, Nodes, CommandsHaveFile, Starting, Stopping
<1>3. NodeIsKnown'
  BY DEF NodeInv, NodeTypeOK, NodeCommandStates, Nodes, States, CommandsHaveFile, Starting, Stopping, NodeIsKnown, GoneIsNoted, Live
<1>4. GoneIsNoted'
  BY DEF NodeInv, NodeTypeOK, NodeCommandStates, Nodes, States, CommandsHaveFile, Starting, Stopping, GoneIsNoted
<1>5. DiskIsDetached'
  BY DEF NodeInv, NodeTypeOK, NodeCommandStates, Nodes, CommandsHaveFile, Starting, Stopping, GoneIsNoted, DiskIsDetached
<1> QED BY <1>1, <1>2, <1>3, <1>4, <1>5 DEF NodeInv

\* Reboot: neither a process nor a command is left.
LEMMA RebootKeeps == ASSUME NodeInv, Reboot PROVE NodeInv'
<1> USE PidAssumption DEF Reboot, Dies, Orphaned, End, Rest, NoNode, Node
<1>1. NodeTypeOK'
  BY DEF NodeInv, NodeTypeOK, NodeCommandStates, CommandsHaveFile, Stopping, Nodes, States, NodePcs
<1>2. CommandsHaveFile'
  BY DEF NodeInv, NodeTypeOK, NodeCommandStates, Nodes, CommandsHaveFile, Starting, Stopping
<1>3. NodeIsKnown'
  BY DEF NodeInv, NodeTypeOK, NodeCommandStates, Nodes, States, CommandsHaveFile, Starting, Stopping, NodeIsKnown, GoneIsNoted, Live
<1>4. GoneIsNoted'
  BY DEF NodeInv, NodeTypeOK, NodeCommandStates, Nodes, States, CommandsHaveFile, Starting, Stopping, GoneIsNoted
<1>5. DiskIsDetached'
  BY DEF NodeInv, NodeTypeOK, NodeCommandStates, Nodes, CommandsHaveFile, Starting, Stopping, GoneIsNoted, DiskIsDetached
<1> QED BY <1>1, <1>2, <1>3, <1>4, <1>5 DEF NodeInv

\* OtherProcess: a PID that is free may be anybody's next.
LEMMA OtherProcessKeeps == ASSUME NodeInv, OtherProcess PROVE NodeInv'
<1> USE PidAssumption DEF OtherProcess
<1>1. NodeTypeOK'
  BY DEF NodeInv, NodeTypeOK, NodeCommandStates, CommandsHaveFile, Stopping, Nodes, States, NodePcs
<1>2. CommandsHaveFile'
  BY DEF NodeInv, NodeTypeOK, NodeCommandStates, Nodes, CommandsHaveFile, Starting, Stopping
<1>3. NodeIsKnown'
  BY DEF NodeInv, NodeTypeOK, NodeCommandStates, Nodes, States, CommandsHaveFile, Starting, Stopping, NodeIsKnown, GoneIsNoted, Live
<1>4. GoneIsNoted'
  BY DEF NodeInv, NodeTypeOK, NodeCommandStates, Nodes, States, CommandsHaveFile, Starting, Stopping, GoneIsNoted
<1>5. DiskIsDetached'
  BY DEF NodeInv, NodeTypeOK, NodeCommandStates, Nodes, CommandsHaveFile, Starting, Stopping, GoneIsNoted, DiskIsDetached
<1> QED BY <1>1, <1>2, <1>3, <1>4, <1>5 DEF NodeInv

\* OtherEnds: somebody else's process ends.
LEMMA OtherEndsKeeps == ASSUME NodeInv, OtherEnds PROVE NodeInv'
<1> USE PidAssumption DEF OtherEnds
<1>1. NodeTypeOK'
  BY DEF NodeInv, NodeTypeOK, NodeCommandStates, CommandsHaveFile, Stopping, Nodes, States, NodePcs
<1>2. CommandsHaveFile'
  BY DEF NodeInv, NodeTypeOK, NodeCommandStates, Nodes, CommandsHaveFile, Starting, Stopping
<1>3. NodeIsKnown'
  BY DEF NodeInv, NodeTypeOK, NodeCommandStates, Nodes, States, CommandsHaveFile, Starting, Stopping, NodeIsKnown, GoneIsNoted, Live
<1>4. GoneIsNoted'
  BY DEF NodeInv, NodeTypeOK, NodeCommandStates, Nodes, States, CommandsHaveFile, Starting, Stopping, GoneIsNoted
<1>5. DiskIsDetached'
  BY DEF NodeInv, NodeTypeOK, NodeCommandStates, Nodes, CommandsHaveFile, Starting, Stopping, GoneIsNoted, DiskIsDetached
<1> QED BY <1>1, <1>2, <1>3, <1>4, <1>5 DEF NodeInv

\* Every step of a command, and whatever happens to the processes, keeps the invariant.
LEMMA NodeKept == NodeInv /\ [NodeNext]_nodeVars => NodeInv'
<1> SUFFICES ASSUME NodeInv, [NodeNext]_nodeVars PROVE NodeInv'
  OBVIOUS
<1>1. CASE NodeNext
  BY <1>1, InstallKeeps, save_node_configurationKeeps, StartKeeps, start_processKeeps, attach_to_nodeKeeps, store_node_fileKeeps,
     StopKeeps, FindProcessKeeps, DetachRunningKeeps, TerminateKeeps, store_system_metricsKeeps, delete_node_fileKeeps,
     StoreResultsKeeps, cleanupKeeps, KillCommandKeeps, NodeDiesKeeps, RebootKeeps, OtherProcessKeeps,
     OtherEndsKeeps
     DEF NodeNext
<1>2. CASE UNCHANGED nodeVars
  BY <1>2 DEF nodeVars, NodeInv, NodeTypeOK, CommandsHaveFile, Starting, Stopping, NodeIsKnown, Live,
              GoneIsNoted, DiskIsDetached
<1> QED BY <1>1, <1>2

-----------------------------------------------------------------------------
(* What follows from it *)

\* Only Terminate ends a process on behalf of stop, and only the one it found.
LEMMA OnlyItsNodeStops == NodeInv /\ [NodeNext]_nodeVars => StopsOnlyItsNode
<1> SUFFICES ASSUME NodeInv, [NodeNext]_nodeVars, NEW p \in Pids, command.pc = "terminate",
                    command'.pc = "metrics", procs[p] = "other", procs'[p] # "other"
             PROVE  command.found = "other" /\ died
  BY DEF StopsOnlyItsNode, Step
<1>1. Terminate
  <2>1. ~ UNCHANGED command
    OBVIOUS
  <2>2. command' # Rest
    BY DEF Rest
  <2> QED BY <2>1, <2>2 DEF NodeNext, nodeVars, Step, End, Install, save_node_configuration, Start, _start_process,
       attach_to_node, _store_node_file, Stop, FindProcess, DetachRunning, store_system_metrics,
       _delete_node_file, StoreResults, cleanup, KillCommand, NodeDies, Reboot, OtherProcess, OtherEnds
<1>2. procs' = [procs EXCEPT ![command.node.pid] = Signalled]
  BY <1>1 DEF Terminate
<1>3. p = command.node.pid /\ Signalled # "other"
  BY <1>2 DEF NodeInv, NodeTypeOK
<1>4. command.found = "other"
  BY <1>3 DEF Signalled
<1> QED BY <1>4 DEF NodeInv, GoneIsNoted

\* Only store_system_metrics stores, after the node has ended.
LEMMA StoredWasMeasured == NodeInv /\ [NodeNext]_nodeVars => StoredIsMeasured
<1> SUFFICES ASSUME NodeInv, [NodeNext]_nodeVars, stored' # stored
             PROVE  (stored'.disk = "start" => died) /\ (stored'.size = "final" => Live = {})
  BY DEF StoredIsMeasured
<1>1. store_system_metrics
  BY DEF NodeNext, nodeVars, Install, save_node_configuration, Start, _start_process, attach_to_node,
         _store_node_file, Stop, FindProcess, DetachRunning, Terminate, _delete_node_file, StoreResults, cleanup,
         KillCommand, NodeDies, Reboot, Dies, OtherProcess, OtherEnds
<1>2. command.pc = "metrics" /\ stored' = [disk |-> command.node.disk, size |-> command.size]
  BY <1>1 DEF store_system_metrics, Step
<1> QED BY <1>2 DEF NodeInv, DiskIsDetached, NodeIsKnown

(***************************************************************************)
(* Whenever commands are killed, nodes die, hosts reboot and PIDs are used *)
(* again: a node that runs is in the node file unless a start lost it      *)
(* before _store_node_file; stop ends no process but the one it looked up, *)
(* which is the node unless the node had gone before; and what             *)
(* store_system_metrics stores was measured at the stop.                   *)
(***************************************************************************)
THEOREM NodesAreNotLost == NodeSpec => NodesAreAccounted
<1>1. NodeInit => NodeInv
  BY NodeInitially
<1>2. NodeInv /\ [NodeNext]_nodeVars => NodeInv'
  BY NodeKept
<1>3. NodeInv => RunningNodeIsKnown
  BY DEF NodeInv, NodeIsKnown, RunningNodeIsKnown, Step
<1>4. NodeInv /\ NodeInv' /\ [NodeNext]_nodeVars =>
        [RunningNodeIsKnown' /\ StopsOnlyItsNode /\ StoredIsMeasured]_nodeVars
  <2>1. NodeInv' => RunningNodeIsKnown'
    BY <1>3, PTL
  <2> QED BY <2>1, OnlyItsNodeStops, StoredWasMeasured
<1> QED BY <1>1, <1>2, <1>4, PTL DEF NodeSpec, NodesAreAccounted

-----------------------------------------------------------------------------
(***************************************************************************)
(* The binary of a node (SourceArtifacts)                                  *)
(***************************************************************************)
(* The inductive invariant *)

Binaries == [revision : Nat, edited : BOOLEAN, whole : BOOLEAN]
Phases == {"idle", "failed", "fetch", "prepare", "build", "add", "copy", "fetch_release", "download",
           "add_release", "done"}
Revisions == 0 .. MaxRevision
Artifacts == [binary : Binaries, old : BOOLEAN]
Trees == [clone : BOOLEAN, commit : Revisions, edited : BOOLEAN, built : Binaries]
Suppliers == [pc : Phases, wants : {"current", "latest", "commit", "release"}, commit : Revisions,
              caching : BOOLEAN, remote : BOOLEAN, resolved : Revisions, cached : Revisions, binary : Binaries]

SupplyTypeOK ==
    /\ upstream \in 1 .. MaxRevision
    /\ tree \in Trees
    /\ cache \in [1 .. MaxRevision -> Artifacts]
    /\ dist \in [file : {"none", "whole"}, tmp : {"none", "part"}]
    /\ sup \in Suppliers
    /\ torn \in BOOLEAN /\ supplyFaults \in Nat

\* An artifact was built from the commit whose name it has, and is complete but
\* while it is copied, or after a copy was cut off.
ArtifactOf(r) ==
    cache[r].binary # Nothing =>
        /\ cache[r].binary.revision = r
        /\ cache[r].binary.whole \/ torn \/ (InPhase("copy") /\ sup.cached = r)
ArtifactsAreNamed == \A r \in 1 .. MaxRevision : ArtifactOf(r)

\* The supplier goes on with the commit that it has resolved, which is the one
\* asked for: the tree is there unless the artifact was found without it.
CommitIsFixed ==
    /\ tree.clone <=> tree.commit # 0
    /\ sup.wants = "commit" /\ sup.pc # "idle" => sup.commit # 0
    /\ InPhase("fetch") => sup.wants # "release" /\ sup.cached = 0 /\ sup.resolved = 0
    /\ sup.pc \in {"prepare", "build", "add", "copy"} =>
          /\ sup.cached \in {0, sup.resolved} /\ sup.wants # "release"
          /\ sup.wants = "commit" => sup.resolved = sup.commit
          /\ cached \/ (sup.resolved # 0 => tree.commit = sup.resolved)
    /\ sup.pc \in {"fetch_release", "download", "add_release"} => sup.wants = "release" /\ sup.resolved = 0

\* What is not in the cache is built, completely, before it is added.
BuiltFromCommit ==
    /\ InPhase("build") => ~ cached
    /\ (InPhase("add") /\ ~ cached) \/ InPhase("copy") => tree.built = Binary(tree.commit, tree.edited, TRUE)
    /\ InPhase("copy") => sup.cached # 0 /\ tree.commit = sup.resolved
    /\ InPhase("add_release") => dist.file = "whole"

SupplyInv == SupplyTypeOK /\ ArtifactsAreNamed /\ CommitIsFixed /\ BuiltFromCommit /\ SuppliedIsRequested

-----------------------------------------------------------------------------
(* The records of the state *)

\* What the supplier keeps when it moves to another phase
Keeps ==
    /\ sup'.wants = sup.wants /\ sup'.commit = sup.commit /\ sup'.caching = sup.caching
    /\ sup'.remote = sup.remote

LEMMA SuppliedBinaries ==
    /\ Nothing \in Binaries
    /\ \A r \in Nat, e, w \in BOOLEAN : Binary(r, e, w) \in Binaries
    /\ \A b \in Binaries : [b EXCEPT !.whole = FALSE] \in Binaries
BY DEF Binaries, Binary, Nothing

LEMMA SupplierMoves ==
    ASSUME SupplyTypeOK, NEW p \in Phases, Move(p)
    PROVE  /\ sup' \in Suppliers /\ sup'.pc = p /\ Keeps
           /\ sup'.resolved = sup.resolved /\ sup'.cached = sup.cached /\ sup'.binary = sup.binary
<1>1. sup \in Suppliers /\ sup' = [sup EXCEPT !.pc = p]
  BY DEF SupplyTypeOK, Move
<1> QED
  BY <1>1 DEF Suppliers, Keeps

LEMMA SupplierResolves ==
    ASSUME SupplyTypeOK, NEW p \in Phases, NEW r \in Revisions, NEW c \in Revisions,
           sup' = [sup EXCEPT !.pc = p, !.resolved = r, !.cached = c]
    PROVE  sup' \in Suppliers /\ sup'.pc = p /\ Keeps /\ sup'.resolved = r /\ sup'.cached = c
<1>1. sup \in Suppliers
  BY DEF SupplyTypeOK
<1> QED
  BY <1>1 DEF Suppliers, Keeps

LEMMA SupplierEnds ==
    ASSUME SupplyTypeOK, NEW b \in Binaries, sup' = [sup EXCEPT !.pc = "done", !.binary = b]
    PROVE  /\ sup' \in Suppliers /\ sup'.pc = "done" /\ Keeps
           /\ sup'.resolved = sup.resolved /\ sup'.cached = sup.cached /\ sup'.binary = b
<1>1. sup \in Suppliers
  BY DEF SupplyTypeOK
<1> QED
  BY <1>1 DEF Suppliers, Keeps, Phases

\* An artifact that is written, and the others
LEMMA ArtifactWritten ==
    ASSUME SupplyTypeOK, NEW r \in 1 .. MaxRevision, NEW a \in Artifacts, cache' = [cache EXCEPT ![r] = a]
    PROVE  /\ cache' \in [1 .. MaxRevision -> Artifacts] /\ cache'[r] = a
           /\ \A q \in 1 .. MaxRevision : q # r => cache'[q] = cache[q]
BY DEF SupplyTypeOK

-----------------------------------------------------------------------------
(* The invariant is kept *)

LEMMA CreateSupply == SupplyInv /\ create => SupplyInv'
<1> SUFFICES ASSUME SupplyInv, create PROVE SupplyInv'
  OBVIOUS
<1> USE SupplyAssumption DEF SupplyInv
<1>a. PICK w \in {"current", "latest", "commit", "release"}, r \in 1 .. upstream,
           caching \in Caching, hasRemote \in HasRemote :
         sup' = [Idle EXCEPT !.pc = IF w = "release" THEN "fetch_release" ELSE "fetch",
                             !.wants = w, !.commit = IF w = "commit" THEN r ELSE 0,
                             !.caching = caching, !.remote = hasRemote]
  BY DEF create
<1>b. r \in Revisions /\ 0 \in Revisions /\ r # 0 /\ caching \in BOOLEAN /\ hasRemote \in BOOLEAN /\ Nothing \in Binaries
  BY SuppliedBinaries DEF SupplyTypeOK, Revisions
<1>c. /\ sup' \in Suppliers /\ sup'.pc = (IF w = "release" THEN "fetch_release" ELSE "fetch") /\ sup'.wants = w
      /\ sup'.commit = (IF w = "commit" THEN r ELSE 0) /\ sup'.resolved = 0 /\ sup'.cached = 0
  BY <1>a, <1>b DEF Idle, Suppliers, Phases
<1>d. /\ cache' = [q \in DOMAIN cache |-> IF sup'.caching /\ cache[q].old THEN Young(Nothing) ELSE cache[q]]
      /\ UNCHANGED <<upstream, tree, dist, torn, supplyFaults>> /\ sup.pc \in {"idle", "failed"}
  BY DEF create
<1>e. Young(Nothing) \in Artifacts /\ Young(Nothing).binary = Nothing
  BY <1>b DEF Young, Artifacts
<1>f. cache' \in [1 .. MaxRevision -> Artifacts]
  BY <1>d, <1>e DEF SupplyTypeOK
<1>1. SupplyTypeOK'
  BY <1>c, <1>d, <1>f DEF SupplyTypeOK
<1>2. ArtifactsAreNamed'
  BY <1>c, <1>d, <1>e DEF ArtifactsAreNamed, ArtifactOf, InPhase, SupplyTypeOK
<1>3. CommitIsFixed'
  BY <1>b, <1>c, <1>d DEF CommitIsFixed, InPhase
<1>4. BuiltFromCommit'
  BY <1>c, <1>d DEF BuiltFromCommit, InPhase
<1>5. SuppliedIsRequested'
  BY <1>c DEF SuppliedIsRequested, InPhase
<1> QED
  BY <1>1, <1>2, <1>3, <1>4, <1>5

LEMMA FetchFromCacheSupply == SupplyInv /\ FetchFromCache => SupplyInv'
<1> SUFFICES ASSUME SupplyInv, FetchFromCache PROVE SupplyInv'
  OBVIOUS
<1> USE SupplyAssumption DEF SupplyInv
<1>1. SupplyTypeOK'
  BY DEF FetchFromCache, InPhase, SupplyTypeOK, Suppliers, Trees, Artifacts, Revisions, Phases, Binaries, Binary, Nothing, Young
<1>2. ArtifactsAreNamed'
  BY <1>1 DEF FetchFromCache, ArtifactsAreNamed, ArtifactOf, CommitIsFixed, BuiltFromCommit, cached, InPhase, SupplyTypeOK, Suppliers, Trees, Artifacts, Revisions, Phases, Binaries, Binary, Nothing, Young
<1>3. CommitIsFixed'
  BY <1>1 DEF FetchFromCache, CommitIsFixed, BuiltFromCommit, cached, InPhase, SupplyTypeOK, Suppliers, Trees, Artifacts, Revisions, Phases, Binaries, Binary, Nothing, Young
<1>4. BuiltFromCommit'
  BY <1>1 DEF FetchFromCache, CommitIsFixed, BuiltFromCommit, cached, InPhase, SupplyTypeOK, Suppliers, Trees, Artifacts, Revisions, Phases, Binaries, Binary, Nothing, Young
<1>5. SuppliedIsRequested'
  BY <1>1 DEF FetchFromCache, SuppliedIsRequested, ArtifactsAreNamed, ArtifactOf, CommitIsFixed, BuiltFromCommit, cached, InPhase, SupplyTypeOK, Suppliers, Trees, Artifacts, Revisions, Phases, Binaries, Binary, Nothing, Young
<1> QED
  BY <1>1, <1>2, <1>3, <1>4, <1>5

\* The tree that SourceRepository.fetch starts from, after a clone where one is needed
SourceTree == IF tree.clone \/ ~ sup.remote THEN tree ELSE [tree EXCEPT !.clone = TRUE, !.commit = upstream]

LEMMA FetchSourcesSupply == SupplyInv /\ FetchSources => SupplyInv'
<1> SUFFICES ASSUME SupplyInv, FetchSources PROVE SupplyInv'
  OBVIOUS
<1> USE SupplyAssumption DEF SupplyInv
<1> DEFINE start == SourceTree
<1>a. /\ start \in Trees /\ start.built = tree.built /\ start.edited = tree.edited
      /\ (start.clone <=> start.commit # 0)
  <2>1. tree \in Trees /\ upstream \in Revisions /\ upstream # 0
    BY DEF SupplyTypeOK, Revisions
  <2>2. tree.clone <=> tree.commit # 0
    BY DEF CommitIsFixed
  <2>3. CASE tree.clone \/ ~ sup.remote
    BY <2>1, <2>2, <2>3 DEF SourceTree
  <2>4. CASE ~ (tree.clone \/ ~ sup.remote)
    <3>1. start = [tree EXCEPT !.clone = TRUE, !.commit = upstream]
      BY <2>4 DEF SourceTree
    <3> QED
      BY <3>1, <2>1 DEF Trees
  <2> QED
    BY <2>3, <2>4
<1>b. InPhase("fetch") /\ UNCHANGED <<upstream, cache, dist, torn>>
  BY DEF FetchSources
<1>c. sup.wants # "release" /\ sup.cached = 0 /\ sup.resolved = 0 /\ (sup.wants = "commit" => sup.commit # 0)
  BY <1>b DEF CommitIsFixed, InPhase
<1>d. Wanted(start) \in Revisions /\ (start.clone => Wanted(start) # 0)
      /\ (sup.wants = "commit" => Wanted(start) = sup.commit)
  BY <1>a, <1>c DEF Wanted, SupplyTypeOK, Suppliers, Trees, Revisions
<1>e. \/ start.clone /\ tree' = [start EXCEPT !.commit = Wanted(start)] /\ sup' = Updated(tree') /\ UNCHANGED supplyFaults
      \/ ~ start.clone /\ sup.wants = "current" /\ tree' = start /\ Move("prepare") /\ UNCHANGED supplyFaults
      \/ tree' = start /\ Move("failed") /\ supplyFaults' \in Nat
  BY DEF FetchSources, SourceTree, Move, Fails, Faulty, SupplyTypeOK
<1>f. 0 \in Revisions /\ {"prepare", "failed"} \subseteq Phases
  BY DEF Revisions, Phases
<1> HIDE DEF start
<1>g. CASE start.clone /\ tree' = [start EXCEPT !.commit = Wanted(start)] /\ sup' = Updated(tree') /\ UNCHANGED supplyFaults
  <2>1. /\ tree' \in Trees /\ tree'.commit = Wanted(start) /\ tree'.clone /\ tree'.commit # 0
    BY <1>a, <1>d, <1>g DEF Trees
  <2>2. tree'.commit \in Revisions /\ (IF sup.caching THEN tree'.commit ELSE 0) \in Revisions
    BY <2>1, <1>d, <1>f
  <2>3. /\ sup' \in Suppliers /\ sup'.pc = "prepare" /\ Keeps /\ sup'.resolved = tree'.commit
        /\ sup'.cached = IF sup.caching THEN tree'.commit ELSE 0
    BY <2>2, <1>f, <1>g, SupplierResolves DEF Updated
  <2>4. SupplyTypeOK'
    BY <2>1, <2>3, <1>b, <1>g DEF SupplyTypeOK
  <2>5. ArtifactsAreNamed' /\ SuppliedIsRequested' /\ BuiltFromCommit'
    BY <2>3, <1>b DEF ArtifactsAreNamed, ArtifactOf, SuppliedIsRequested, BuiltFromCommit, InPhase
  <2>6. CommitIsFixed'
    BY <2>1, <2>3, <1>c, <1>d DEF CommitIsFixed, InPhase, Keeps
  <2> QED
    BY <2>4, <2>5, <2>6
<1>h. CASE ~ start.clone /\ sup.wants = "current" /\ tree' = start /\ Move("prepare") /\ UNCHANGED supplyFaults
  <2>1. sup' \in Suppliers /\ sup'.pc = "prepare" /\ Keeps /\ sup'.resolved = 0 /\ sup'.cached = 0
    BY <1>c, <1>f, <1>h, SupplierMoves
  <2>2. SupplyTypeOK'
    BY <2>1, <1>a, <1>b, <1>h DEF SupplyTypeOK
  <2>3. ArtifactsAreNamed' /\ SuppliedIsRequested' /\ BuiltFromCommit'
    BY <2>1, <1>b DEF ArtifactsAreNamed, ArtifactOf, SuppliedIsRequested, BuiltFromCommit, InPhase
  <2>4. CommitIsFixed'
    BY <2>1, <1>a, <1>c, <1>h DEF CommitIsFixed, InPhase, Keeps
  <2> QED
    BY <2>2, <2>3, <2>4
<1>i. CASE tree' = start /\ Move("failed") /\ supplyFaults' \in Nat
  <2>1. sup' \in Suppliers /\ sup'.pc = "failed" /\ Keeps
    BY <1>f, <1>i, SupplierMoves
  <2>2. SupplyTypeOK'
    BY <2>1, <1>a, <1>b, <1>i DEF SupplyTypeOK
  <2>3. ArtifactsAreNamed' /\ SuppliedIsRequested' /\ BuiltFromCommit'
    BY <2>1, <1>b DEF ArtifactsAreNamed, ArtifactOf, SuppliedIsRequested, BuiltFromCommit, InPhase
  <2>4. CommitIsFixed'
    BY <2>1, <1>a, <1>c, <1>i DEF CommitIsFixed, InPhase, Keeps
  <2> QED
    BY <2>2, <2>3, <2>4
<1> QED
  BY <1>e, <1>g, <1>h, <1>i DEF SupplyInv

LEMMA PrepareSupply == SupplyInv /\ prepare => SupplyInv'
<1> SUFFICES ASSUME SupplyInv, prepare PROVE SupplyInv'
  OBVIOUS
<1> USE SupplyAssumption DEF SupplyInv
<1>a. InPhase("prepare") /\ UNCHANGED <<upstream, cache, dist, torn, supplyFaults>> /\ {"add", "build"} \subseteq Phases
  BY DEF prepare, Phases
<1>b. \/ cached /\ Move("add") /\ UNCHANGED tree
      \/ ~ cached /\ tree' = [tree EXCEPT !.built = Nothing] /\ Move("build")
  BY DEF prepare
<1>c. /\ sup' \in Suppliers /\ sup'.pc \in {"add", "build"} /\ Keeps /\ sup'.resolved = sup.resolved
      /\ sup'.cached = sup.cached /\ (sup'.pc = "add" <=> cached)
  BY <1>a, <1>b, SupplierMoves
<1>d. tree' \in Trees /\ tree'.commit = tree.commit /\ tree'.clone = tree.clone
  BY <1>b, SuppliedBinaries DEF SupplyTypeOK, Trees
<1>e. cached' = cached
  BY <1>a, <1>c DEF cached
<1>1. SupplyTypeOK'
  BY <1>a, <1>c, <1>d DEF SupplyTypeOK
<1>2. ArtifactsAreNamed'
  BY <1>a, <1>c DEF ArtifactsAreNamed, ArtifactOf, InPhase
<1>3. CommitIsFixed'
  BY <1>a, <1>c, <1>d, <1>e DEF CommitIsFixed, InPhase, Keeps
<1>4. BuiltFromCommit'
  BY <1>c, <1>e DEF BuiltFromCommit, InPhase
<1>5. SuppliedIsRequested'
  BY <1>c DEF SuppliedIsRequested, InPhase
<1> QED
  BY <1>1, <1>2, <1>3, <1>4, <1>5

LEMMA BuildSupply == SupplyInv /\ build => SupplyInv'
<1> SUFFICES ASSUME SupplyInv, build PROVE SupplyInv'
  OBVIOUS
<1> USE SupplyAssumption DEF SupplyInv
<1>a. InPhase("build") /\ UNCHANGED <<upstream, cache, dist, torn>> /\ {"add", "failed"} \subseteq Phases
  BY DEF build, Phases
<1>b. \/ tree' = [tree EXCEPT !.built = Binary(tree.commit, tree.edited, TRUE)] /\ Move("add")
      \/ UNCHANGED tree /\ Move("failed")
  BY DEF build, Fails
<1>c. /\ sup' \in Suppliers /\ sup'.pc \in {"add", "failed"} /\ Keeps /\ sup'.resolved = sup.resolved
      /\ sup'.cached = sup.cached
  BY <1>a, <1>b, SupplierMoves
<1>d. tree.commit \in Nat /\ tree.edited \in BOOLEAN
  BY DEF SupplyTypeOK, Trees, Revisions
<1>e. Binary(tree.commit, tree.edited, TRUE) \in Binaries
  BY <1>d, SuppliedBinaries
<1>f. tree' \in Trees /\ tree'.commit = tree.commit /\ tree'.clone = tree.clone /\ tree'.edited = tree.edited
  BY <1>b, <1>e DEF SupplyTypeOK, Trees
<1>g. cached' = cached /\ ~ cached
  BY <1>a, <1>c DEF cached, BuiltFromCommit
<1>h. sup'.pc = "add" => tree'.built = Binary(tree'.commit, tree'.edited, TRUE)
  <2>1. CASE tree' = [tree EXCEPT !.built = Binary(tree.commit, tree.edited, TRUE)]
    <3>1. tree'.built = Binary(tree.commit, tree.edited, TRUE)
      BY <2>1 DEF SupplyTypeOK, Trees
    <3> QED
      BY <3>1, <1>f
  <2>2. CASE Move("failed")
    BY <2>2, <1>a, SupplierMoves
  <2> QED
    BY <2>1, <2>2, <1>b
<1>i. supplyFaults' \in Nat
  <2>1. supplyFaults' = supplyFaults \/ supplyFaults' = supplyFaults + 1
    BY DEF build, Fails, Faulty
  <2> QED
    BY <2>1 DEF SupplyTypeOK
<1>1. SupplyTypeOK'
  BY <1>a, <1>c, <1>f, <1>i DEF SupplyTypeOK
<1>2. ArtifactsAreNamed'
  BY <1>a, <1>c DEF ArtifactsAreNamed, ArtifactOf, InPhase
<1>3. CommitIsFixed'
  BY <1>a, <1>c, <1>f, <1>g DEF CommitIsFixed, InPhase, Keeps
<1>4. BuiltFromCommit'
  BY <1>c, <1>h DEF BuiltFromCommit, InPhase
<1>5. SuppliedIsRequested'
  BY <1>c DEF SuppliedIsRequested, InPhase
<1> QED
  BY <1>1, <1>2, <1>3, <1>4, <1>5

LEMMA AddSupply == SupplyInv /\ add => SupplyInv'
<1> SUFFICES ASSUME SupplyInv, add PROVE SupplyInv'
  OBVIOUS
<1> USE SupplyAssumption DEF SupplyInv
<1>a. InPhase("add") /\ UNCHANGED <<upstream, tree, dist, torn, supplyFaults>> /\ {"copy", "done"} \subseteq Phases
  BY DEF add, Phases
<1>b. tree.commit \in Nat /\ tree.edited \in BOOLEAN /\ tree.built \in Binaries
  BY DEF SupplyTypeOK, Trees, Revisions
<1>c. \/ cached /\ sup' = [sup EXCEPT !.pc = "done", !.binary = cache[sup.cached].binary] /\ UNCHANGED cache
      \/ /\ ~ cached /\ sup.cached # 0 /\ Move("copy")
         /\ cache' = [cache EXCEPT ![sup.cached] = Young([tree.built EXCEPT !.whole = FALSE])]
      \/ ~ cached /\ sup.cached = 0 /\ sup' = [sup EXCEPT !.pc = "done", !.binary = tree.built] /\ UNCHANGED cache
  BY DEF add
<1>d. CASE cached /\ sup' = [sup EXCEPT !.pc = "done", !.binary = cache[sup.cached].binary] /\ UNCHANGED cache
  <2>1. sup.cached \in 1 .. MaxRevision /\ cache[sup.cached].binary # Nothing
    BY <1>d DEF cached, SupplyTypeOK, Suppliers, Revisions
  <2>2. cache[sup.cached].binary \in Binaries
    BY <2>1 DEF SupplyTypeOK, Artifacts
  <2>3. /\ sup' \in Suppliers /\ sup'.pc = "done" /\ Keeps /\ sup'.resolved = sup.resolved
        /\ sup'.binary = cache[sup.cached].binary
    BY <2>2, <1>d, SupplierEnds
  <2>4. cache[sup.cached].binary.revision = sup.cached /\ (cache[sup.cached].binary.whole \/ torn)
    BY <2>1, <1>a DEF ArtifactsAreNamed, ArtifactOf, InPhase
  <2>5. SupplyTypeOK'
    BY <2>3, <1>a, <1>d DEF SupplyTypeOK
  <2>6. ArtifactsAreNamed' /\ CommitIsFixed' /\ BuiltFromCommit'
    BY <2>3, <1>a, <1>d DEF ArtifactsAreNamed, ArtifactOf, CommitIsFixed, BuiltFromCommit, InPhase, Keeps
  <2>7. SuppliedIsRequested'
    BY <2>1, <2>3, <2>4, <1>a DEF SuppliedIsRequested, CommitIsFixed, InPhase, Keeps, SupplyTypeOK, Suppliers
  <2> QED
    BY <2>5, <2>6, <2>7
<1>e. CASE /\ ~ cached /\ sup.cached # 0 /\ Move("copy")
           /\ cache' = [cache EXCEPT ![sup.cached] = Young([tree.built EXCEPT !.whole = FALSE])]
  <2>1. sup.cached \in 1 .. MaxRevision /\ sup.resolved = sup.cached /\ tree.commit = sup.resolved
    BY <1>a, <1>e DEF CommitIsFixed, InPhase, SupplyTypeOK, Suppliers, Revisions
  <2>2. tree.built = Binary(tree.commit, tree.edited, TRUE)
    BY <1>a, <1>e DEF BuiltFromCommit
  <2> DEFINE b == [tree.built EXCEPT !.whole = FALSE]
  <2>3. b \in Binaries /\ b.revision = sup.cached
    <3>1. tree.built.revision = sup.cached
      BY <2>1, <2>2 DEF Binary
    <3> QED
      BY <3>1, <1>b DEF Binaries
  <2> HIDE DEF b
  <2>4. Young(b) \in Artifacts /\ Young(b).binary = b
    BY <2>3 DEF Young, Artifacts
  <2>5. /\ cache' \in [1 .. MaxRevision -> Artifacts] /\ cache'[sup.cached] = Young(b)
        /\ \A q \in 1 .. MaxRevision : q # sup.cached => cache'[q] = cache[q]
    BY <2>1, <2>4, <1>e, ArtifactWritten DEF b
  <2>6. /\ sup' \in Suppliers /\ sup'.pc = "copy" /\ Keeps /\ sup'.resolved = sup.resolved
        /\ sup'.cached = sup.cached
    BY <1>a, <1>e, SupplierMoves
  <2>7. SupplyTypeOK'
    BY <2>5, <2>6, <1>a DEF SupplyTypeOK
  <2>8. ArtifactsAreNamed'
    BY <2>3, <2>4, <2>5, <2>6, <1>a DEF ArtifactsAreNamed, ArtifactOf, InPhase
  <2>9. CommitIsFixed' /\ BuiltFromCommit' /\ SuppliedIsRequested'
    BY <2>1, <2>2, <2>6, <1>a, <1>e DEF CommitIsFixed, BuiltFromCommit, SuppliedIsRequested, InPhase, Keeps
  <2> QED
    BY <2>7, <2>8, <2>9
<1>f. CASE ~ cached /\ sup.cached = 0 /\ sup' = [sup EXCEPT !.pc = "done", !.binary = tree.built] /\ UNCHANGED cache
  <2>1. /\ sup' \in Suppliers /\ sup'.pc = "done" /\ Keeps /\ sup'.resolved = sup.resolved
        /\ sup'.binary = tree.built
    BY <1>b, <1>f, SupplierEnds
  <2>2. tree.built.whole /\ tree.built.revision = tree.commit
    BY <1>a, <1>f DEF BuiltFromCommit, Binary
  <2>3. SupplyTypeOK'
    BY <2>1, <1>a, <1>f DEF SupplyTypeOK
  <2>4. ArtifactsAreNamed' /\ CommitIsFixed' /\ BuiltFromCommit'
    BY <2>1, <1>a, <1>f DEF ArtifactsAreNamed, ArtifactOf, CommitIsFixed, BuiltFromCommit, InPhase, Keeps
  <2>5. SuppliedIsRequested'
    BY <2>1, <2>2, <1>a, <1>f DEF SuppliedIsRequested, CommitIsFixed, InPhase, Keeps
  <2> QED
    BY <2>3, <2>4, <2>5
<1> QED
  BY <1>c, <1>d, <1>e, <1>f DEF SupplyInv

LEMMA CopyEndsSupply == SupplyInv /\ CopyEnds => SupplyInv'
<1> SUFFICES ASSUME SupplyInv, CopyEnds PROVE SupplyInv'
  OBVIOUS
<1> USE SupplyAssumption DEF SupplyInv
<1>a. /\ InPhase("copy") /\ UNCHANGED <<upstream, tree, dist>>
      /\ sup' = [sup EXCEPT !.pc = "done", !.binary = tree.built] /\ "done" \in Phases
  BY DEF CopyEnds, Phases
<1>b. tree.built \in Binaries /\ sup.cached \in 1 .. MaxRevision /\ cache[sup.cached] \in Artifacts
  BY <1>a DEF SupplyTypeOK, Trees, Suppliers, Revisions, BuiltFromCommit
<1>c. tree.built.whole /\ tree.built.revision = tree.commit /\ tree.commit = sup.resolved /\ sup.cached = sup.resolved
  BY <1>a, <1>b DEF BuiltFromCommit, CommitIsFixed, Binary, InPhase
<1>d. /\ sup' \in Suppliers /\ sup'.pc = "done" /\ Keeps /\ sup'.resolved = sup.resolved
      /\ sup'.binary = tree.built
  BY <1>a, <1>b, SupplierEnds
<1> DEFINE a == [cache[sup.cached] EXCEPT !.binary = tree.built]
<1>e. a \in Artifacts /\ a.binary = tree.built
  BY <1>b DEF Artifacts
<1>f. \/ cache' = [cache EXCEPT ![sup.cached] = a] /\ UNCHANGED <<torn, supplyFaults>>
      \/ supplyFaults' = supplyFaults + 1 /\ torn' = TRUE /\ UNCHANGED cache
  BY DEF CopyEnds, Faulty
<1> HIDE DEF a
<1>g. /\ cache' \in [1 .. MaxRevision -> Artifacts] /\ (torn' \/ cache'[sup.cached] = a)
      /\ \A q \in 1 .. MaxRevision : cache'[q] = cache[q] \/ (q = sup.cached /\ cache'[q] = a)
  BY <1>b, <1>e, <1>f, ArtifactWritten DEF SupplyTypeOK
<1>h. torn' \in BOOLEAN /\ supplyFaults' \in Nat /\ (torn => torn')
  <2>1. supplyFaults' = supplyFaults \/ supplyFaults' = supplyFaults + 1
    BY <1>f
  <2>2. supplyFaults' \in Nat
    BY <2>1 DEF SupplyTypeOK
  <2>3. torn' = torn \/ torn' = TRUE
    BY <1>f
  <2> QED
    BY <2>2, <2>3 DEF SupplyTypeOK
<1>1. SupplyTypeOK'
  BY <1>a, <1>d, <1>g, <1>h DEF SupplyTypeOK
<1>2. ArtifactsAreNamed'
  <2> SUFFICES ASSUME NEW r \in 1 .. MaxRevision PROVE ArtifactOf(r)'
    BY DEF ArtifactsAreNamed
  <2>1. CASE r = sup.cached /\ cache'[r] = a
    BY <2>1, <1>c, <1>e DEF ArtifactOf
  <2>2. CASE cache'[r] = cache[r]
    BY <2>2, <1>c, <1>e, <1>g, <1>h DEF ArtifactOf, ArtifactsAreNamed, InPhase
  <2> QED
    BY <2>1, <2>2, <1>g
<1>3. CommitIsFixed'
  BY <1>a, <1>d DEF CommitIsFixed, InPhase, Keeps
<1>4. BuiltFromCommit'
  BY <1>d DEF BuiltFromCommit, InPhase
<1>5. SuppliedIsRequested'
  BY <1>a, <1>c, <1>d DEF SuppliedIsRequested, CommitIsFixed, InPhase, Keeps
<1> QED
  BY <1>1, <1>2, <1>3, <1>4, <1>5

LEMMA FetchReleaseSupply == SupplyInv /\ FetchRelease => SupplyInv'
<1> SUFFICES ASSUME SupplyInv, FetchRelease PROVE SupplyInv'
  OBVIOUS
<1> USE SupplyAssumption DEF SupplyInv
<1>a. /\ sup.pc \in {"fetch_release", "download"} /\ UNCHANGED <<upstream, tree, cache, torn>>
      /\ {"add_release", "download", "failed"} \subseteq Phases /\ supplyFaults' \in Nat
  BY DEF FetchRelease, Phases, InPhase, Fails, Faulty, SupplyTypeOK
<1>b. PICK p \in {"add_release", "download", "failed"} : Move(p) /\ (p = "add_release" => dist'.file = "whole")
  BY DEF FetchRelease, Fails, SupplyTypeOK
<1>c. /\ sup' \in Suppliers /\ sup'.pc \in {"add_release", "download", "failed"} /\ Keeps
      /\ sup'.resolved = sup.resolved /\ (sup'.pc = "add_release" => dist'.file = "whole")
  BY <1>a, <1>b, SupplierMoves
<1>d. dist' \in [file : {"none", "whole"}, tmp : {"none", "part"}]
  BY DEF FetchRelease, DownloadBegins, SupplyTypeOK
<1>1. SupplyTypeOK'
  BY <1>a, <1>c, <1>d DEF SupplyTypeOK
<1>2. ArtifactsAreNamed'
  BY <1>a, <1>c DEF ArtifactsAreNamed, ArtifactOf, InPhase
<1>3. CommitIsFixed'
  BY <1>a, <1>c DEF CommitIsFixed, InPhase, Keeps
<1>4. BuiltFromCommit'
  BY <1>c DEF BuiltFromCommit, InPhase
<1>5. SuppliedIsRequested'
  BY <1>c DEF SuppliedIsRequested, InPhase
<1> QED
  BY <1>1, <1>2, <1>3, <1>4, <1>5

LEMMA DownloadEndsSupply == SupplyInv /\ DownloadEnds => SupplyInv'
<1> SUFFICES ASSUME SupplyInv, DownloadEnds PROVE SupplyInv'
  OBVIOUS
<1> USE SupplyAssumption DEF SupplyInv
<1>a. /\ sup.pc \in {"fetch_release", "download"} /\ UNCHANGED <<upstream, tree, cache, torn>>
      /\ {"add_release", "failed"} \subseteq Phases /\ supplyFaults' \in Nat
  BY DEF DownloadEnds, Phases, InPhase, Fails, Faulty, SupplyTypeOK
<1>b. PICK p \in {"add_release", "failed"} : Move(p) /\ (p = "add_release" => dist'.file = "whole")
  BY DEF DownloadEnds, Fails, SupplyTypeOK
<1>c. /\ sup' \in Suppliers /\ sup'.pc \in {"add_release", "failed"} /\ Keeps
      /\ sup'.resolved = sup.resolved /\ (sup'.pc = "add_release" => dist'.file = "whole")
  BY <1>a, <1>b, SupplierMoves
<1>d. dist' \in [file : {"none", "whole"}, tmp : {"none", "part"}]
  BY DEF DownloadEnds, DownloadBegins, SupplyTypeOK
<1>1. SupplyTypeOK'
  BY <1>a, <1>c, <1>d DEF SupplyTypeOK
<1>2. ArtifactsAreNamed'
  BY <1>a, <1>c DEF ArtifactsAreNamed, ArtifactOf, InPhase
<1>3. CommitIsFixed'
  BY <1>a, <1>c DEF CommitIsFixed, InPhase, Keeps
<1>4. BuiltFromCommit'
  BY <1>c DEF BuiltFromCommit, InPhase
<1>5. SuppliedIsRequested'
  BY <1>c DEF SuppliedIsRequested, InPhase
<1> QED
  BY <1>1, <1>2, <1>3, <1>4, <1>5

LEMMA AddReleaseSupply == SupplyInv /\ AddRelease => SupplyInv'
<1> SUFFICES ASSUME SupplyInv, AddRelease PROVE SupplyInv'
  OBVIOUS
<1> USE SupplyAssumption DEF SupplyInv
<1>1. SupplyTypeOK'
  BY DEF AddRelease, InPhase, SupplyTypeOK, Suppliers, Trees, Artifacts, Revisions, Phases, Binaries, Binary, Nothing, Young
<1>2. ArtifactsAreNamed'
  BY <1>1 DEF AddRelease, ArtifactsAreNamed, ArtifactOf, CommitIsFixed, BuiltFromCommit, cached, InPhase, SupplyTypeOK, Suppliers, Trees, Artifacts, Revisions, Phases, Binaries, Binary, Nothing, Young
<1>3. CommitIsFixed'
  BY <1>1 DEF AddRelease, CommitIsFixed, BuiltFromCommit, cached, InPhase, SupplyTypeOK, Suppliers, Trees, Artifacts, Revisions, Phases, Binaries, Binary, Nothing, Young
<1>4. BuiltFromCommit'
  BY <1>1 DEF AddRelease, CommitIsFixed, BuiltFromCommit, cached, InPhase, SupplyTypeOK, Suppliers, Trees, Artifacts, Revisions, Phases, Binaries, Binary, Nothing, Young
<1>5. SuppliedIsRequested'
  BY <1>1 DEF AddRelease, SuppliedIsRequested, ArtifactsAreNamed, ArtifactOf, CommitIsFixed, BuiltFromCommit, cached, InPhase, SupplyTypeOK, Suppliers, Trees, Artifacts, Revisions, Phases, Binaries, Binary, Nothing, Young
<1> QED
  BY <1>1, <1>2, <1>3, <1>4, <1>5

LEMMA KillSupplierSupply == SupplyInv /\ KillSupplier => SupplyInv'
<1> SUFFICES ASSUME SupplyInv, KillSupplier PROVE SupplyInv'
  OBVIOUS
<1> USE SupplyAssumption DEF SupplyInv
<1>1. SupplyTypeOK'
  BY DEF KillSupplier, Faulty, Idle, InPhase, SupplyTypeOK, Suppliers, Trees, Artifacts, Revisions, Phases, Binaries, Binary, Nothing, Young
<1>2. ArtifactsAreNamed'
  BY <1>1 DEF KillSupplier, Faulty, Idle, ArtifactsAreNamed, ArtifactOf, CommitIsFixed, BuiltFromCommit, cached, InPhase, SupplyTypeOK, Suppliers, Trees, Artifacts, Revisions, Phases, Binaries, Binary, Nothing, Young
<1>3. CommitIsFixed'
  BY <1>1 DEF KillSupplier, Faulty, Idle, CommitIsFixed, BuiltFromCommit, cached, InPhase, SupplyTypeOK, Suppliers, Trees, Artifacts, Revisions, Phases, Binaries, Binary, Nothing, Young
<1>4. BuiltFromCommit'
  BY <1>1 DEF KillSupplier, Faulty, Idle, CommitIsFixed, BuiltFromCommit, cached, InPhase, SupplyTypeOK, Suppliers, Trees, Artifacts, Revisions, Phases, Binaries, Binary, Nothing, Young
<1>5. SuppliedIsRequested'
  BY <1>1 DEF KillSupplier, Faulty, Idle, SuppliedIsRequested, ArtifactsAreNamed, ArtifactOf, CommitIsFixed, BuiltFromCommit, cached, InPhase, SupplyTypeOK, Suppliers, Trees, Artifacts, Revisions, Phases, Binaries, Binary, Nothing, Young
<1> QED
  BY <1>1, <1>2, <1>3, <1>4, <1>5

LEMMA InstalledSupply == SupplyInv /\ Installed => SupplyInv'
<1> SUFFICES ASSUME SupplyInv, Installed PROVE SupplyInv'
  OBVIOUS
<1> USE SupplyAssumption DEF SupplyInv
<1>1. SupplyTypeOK'
  BY DEF Installed, Idle, InPhase, SupplyTypeOK, Suppliers, Trees, Artifacts, Revisions, Phases, Binaries, Binary, Nothing, Young
<1>2. ArtifactsAreNamed'
  BY <1>1 DEF Installed, Idle, ArtifactsAreNamed, ArtifactOf, CommitIsFixed, BuiltFromCommit, cached, InPhase, SupplyTypeOK, Suppliers, Trees, Artifacts, Revisions, Phases, Binaries, Binary, Nothing, Young
<1>3. CommitIsFixed'
  BY <1>1 DEF Installed, Idle, CommitIsFixed, BuiltFromCommit, cached, InPhase, SupplyTypeOK, Suppliers, Trees, Artifacts, Revisions, Phases, Binaries, Binary, Nothing, Young
<1>4. BuiltFromCommit'
  BY <1>1 DEF Installed, Idle, CommitIsFixed, BuiltFromCommit, cached, InPhase, SupplyTypeOK, Suppliers, Trees, Artifacts, Revisions, Phases, Binaries, Binary, Nothing, Young
<1>5. SuppliedIsRequested'
  BY <1>1 DEF Installed, Idle, SuppliedIsRequested, ArtifactsAreNamed, ArtifactOf, CommitIsFixed, BuiltFromCommit, cached, InPhase, SupplyTypeOK, Suppliers, Trees, Artifacts, Revisions, Phases, Binaries, Binary, Nothing, Young
<1> QED
  BY <1>1, <1>2, <1>3, <1>4, <1>5

LEMMA PushSourcesSupply == SupplyInv /\ PushSources => SupplyInv'
<1> SUFFICES ASSUME SupplyInv, PushSources PROVE SupplyInv'
  OBVIOUS
<1> USE SupplyAssumption DEF SupplyInv
<1>1. SupplyTypeOK'
  BY DEF PushSources, InPhase, SupplyTypeOK, Suppliers, Trees, Artifacts, Revisions, Phases, Binaries, Binary, Nothing, Young
<1>2. ArtifactsAreNamed'
  BY <1>1 DEF PushSources, ArtifactsAreNamed, ArtifactOf, CommitIsFixed, BuiltFromCommit, cached, InPhase, SupplyTypeOK, Suppliers, Trees, Artifacts, Revisions, Phases, Binaries, Binary, Nothing, Young
<1>3. CommitIsFixed'
  BY <1>1 DEF PushSources, CommitIsFixed, BuiltFromCommit, cached, InPhase, SupplyTypeOK, Suppliers, Trees, Artifacts, Revisions, Phases, Binaries, Binary, Nothing, Young
<1>4. BuiltFromCommit'
  BY <1>1 DEF PushSources, CommitIsFixed, BuiltFromCommit, cached, InPhase, SupplyTypeOK, Suppliers, Trees, Artifacts, Revisions, Phases, Binaries, Binary, Nothing, Young
<1>5. SuppliedIsRequested'
  BY <1>1 DEF PushSources, SuppliedIsRequested, ArtifactsAreNamed, ArtifactOf, CommitIsFixed, BuiltFromCommit, cached, InPhase, SupplyTypeOK, Suppliers, Trees, Artifacts, Revisions, Phases, Binaries, Binary, Nothing, Young
<1> QED
  BY <1>1, <1>2, <1>3, <1>4, <1>5

LEMMA EditSourcesSupply == SupplyInv /\ EditSources => SupplyInv'
<1> SUFFICES ASSUME SupplyInv, EditSources PROVE SupplyInv'
  OBVIOUS
<1> USE SupplyAssumption DEF SupplyInv
<1>1. SupplyTypeOK'
  BY DEF EditSources, InPhase, SupplyTypeOK, Suppliers, Trees, Artifacts, Revisions, Phases, Binaries, Binary, Nothing, Young
<1>2. ArtifactsAreNamed'
  BY <1>1 DEF EditSources, ArtifactsAreNamed, ArtifactOf, CommitIsFixed, BuiltFromCommit, cached, InPhase, SupplyTypeOK, Suppliers, Trees, Artifacts, Revisions, Phases, Binaries, Binary, Nothing, Young
<1>3. CommitIsFixed'
  BY <1>1 DEF EditSources, CommitIsFixed, BuiltFromCommit, cached, InPhase, SupplyTypeOK, Suppliers, Trees, Artifacts, Revisions, Phases, Binaries, Binary, Nothing, Young
<1>4. BuiltFromCommit'
  BY <1>1 DEF EditSources, CommitIsFixed, BuiltFromCommit, cached, InPhase, SupplyTypeOK, Suppliers, Trees, Artifacts, Revisions, Phases, Binaries, Binary, Nothing, Young
<1>5. SuppliedIsRequested'
  BY <1>1 DEF EditSources, SuppliedIsRequested, ArtifactsAreNamed, ArtifactOf, CommitIsFixed, BuiltFromCommit, cached, InPhase, SupplyTypeOK, Suppliers, Trees, Artifacts, Revisions, Phases, Binaries, Binary, Nothing, Young
<1> QED
  BY <1>1, <1>2, <1>3, <1>4, <1>5

LEMMA ArtifactAgesSupply == SupplyInv /\ ArtifactAges => SupplyInv'
<1> SUFFICES ASSUME SupplyInv, ArtifactAges PROVE SupplyInv'
  OBVIOUS
<1> USE SupplyAssumption DEF SupplyInv
<1>a. PICK r \in DOMAIN cache : cache' = [cache EXCEPT ![r].old = TRUE]
  BY DEF ArtifactAges
<1>b. sup.pc = "idle" /\ UNCHANGED <<upstream, tree, dist, sup, torn, supplyFaults>>
  BY DEF ArtifactAges
<1> DEFINE a == [cache[r] EXCEPT !.old = TRUE]
<1>c. r \in 1 .. MaxRevision /\ a \in Artifacts /\ a.binary = cache[r].binary
  BY DEF SupplyTypeOK, Artifacts
<1>d. cache' = [cache EXCEPT ![r] = a]
  BY <1>a
<1> HIDE DEF a
<1>e. /\ cache' \in [1 .. MaxRevision -> Artifacts]
      /\ \A q \in 1 .. MaxRevision : cache'[q].binary = cache[q].binary
  BY <1>c, <1>d, ArtifactWritten
<1>1. SupplyTypeOK'
  BY <1>b, <1>e DEF SupplyTypeOK
<1>2. ArtifactsAreNamed'
  BY <1>b, <1>e DEF ArtifactsAreNamed, ArtifactOf, InPhase
<1>3. CommitIsFixed'
  BY <1>b DEF CommitIsFixed, InPhase
<1>4. BuiltFromCommit'
  BY <1>b DEF BuiltFromCommit, InPhase
<1>5. SuppliedIsRequested'
  BY <1>b DEF SuppliedIsRequested, InPhase
<1> QED
  BY <1>1, <1>2, <1>3, <1>4, <1>5

LEMMA SupplyBegins == SupplyInit => SupplyInv
<1> SUFFICES ASSUME SupplyInit PROVE SupplyInv
  OBVIOUS
<1> USE SupplyAssumption
<1>a. Nothing \in Binaries /\ 0 \in Revisions /\ 1 \in Revisions /\ 1 \in 1 .. MaxRevision
  BY SuppliedBinaries DEF Revisions
<1>b. Idle \in Suppliers
  BY <1>a DEF Idle, Suppliers, Phases
<1>c. tree \in Trees
  <2>1. PICK c \in BOOLEAN : tree = [clone |-> c, commit |-> IF c THEN 1 ELSE 0, edited |-> FALSE, built |-> Nothing]
    BY DEF SupplyInit
  <2>2. (IF c THEN 1 ELSE 0) \in Revisions
    BY <1>a
  <2> QED
    BY <2>1, <2>2, <1>a DEF Trees
<1>d. cache \in [1 .. MaxRevision -> Artifacts]
  BY <1>a DEF SupplyInit, Artifacts, Young
<1>1. SupplyTypeOK
  BY <1>a, <1>b, <1>c, <1>d DEF SupplyInit, SupplyTypeOK
<1>2. ArtifactsAreNamed /\ CommitIsFixed /\ BuiltFromCommit /\ SuppliedIsRequested
  BY DEF SupplyInit, Idle, InPhase, Young, ArtifactsAreNamed, ArtifactOf, CommitIsFixed, BuiltFromCommit,
         SuppliedIsRequested
<1> QED
  BY <1>1, <1>2 DEF SupplyInv

LEMMA SupplyStays == SupplyInv /\ UNCHANGED supplyVars => SupplyInv'
<1> SUFFICES ASSUME SupplyInv, UNCHANGED supplyVars PROVE SupplyInv'
  OBVIOUS
<1>1. SupplyTypeOK'
  BY DEF supplyVars, SupplyInv, SupplyTypeOK
<1>2. ArtifactsAreNamed'
  BY DEF supplyVars, SupplyInv, ArtifactsAreNamed, ArtifactOf, InPhase
<1>3. CommitIsFixed' /\ BuiltFromCommit'
  BY DEF supplyVars, SupplyInv, CommitIsFixed, BuiltFromCommit, InPhase, cached
<1>4. SuppliedIsRequested'
  BY DEF supplyVars, SupplyInv, SuppliedIsRequested, InPhase
<1> QED
  BY <1>1, <1>2, <1>3, <1>4 DEF SupplyInv

(***************************************************************************)
(* For any number of commits, kills and failing commands: the Solr that    *)
(* supplier.create supplies was built from the commit that was asked for,  *)
(* from the cache or not, and is complete unless the copy of an artifact   *)
(* was cut off before.                                                     *)
(***************************************************************************)
THEOREM SupplyIsRight == SupplySpec => []SuppliedIsRequested
<1>1. SupplyInv /\ [SupplyNext]_supplyVars => SupplyInv'
  BY CreateSupply, FetchFromCacheSupply, FetchSourcesSupply, PrepareSupply, BuildSupply,
     AddSupply, CopyEndsSupply, FetchReleaseSupply, DownloadEndsSupply, AddReleaseSupply,
     KillSupplierSupply, InstalledSupply, PushSourcesSupply, EditSourcesSupply, ArtifactAgesSupply, SupplyStays DEF SupplyNext
<1>2. SupplyInv => SuppliedIsRequested
  BY DEF SupplyInv
<1> QED
  BY <1>1, <1>2, SupplyBegins, PTL DEF SupplySpec

-----------------------------------------------------------------------------
(***************************************************************************)
(* The workload repository (WorkloadRepository)                            *)
(***************************************************************************)
(* The inductive invariant *)

Names == {Main, <<9>>}
Commits == [branch : Names \union {NoBranch}, n : Nat, own : Hosts \union {"none"}]
WorkingCopies ==
    [cloned : BOOLEAN, known : [Names -> Nat], local : [Names -> Commits], head : Commits,
     on : Names \union {NoBranch}, edited : BOOLEAN, rebasing : BOOLEAN]

RepoTypeOK ==
    /\ remote \in [Names -> Nat]
    /\ copy \in [Hosts -> WorkingCopies]
    /\ revision \in Commits
    /\ progress \in [Hosts -> {"idle", "open", "update", "loaded", "failed"}]

\* The others begin when the coordinator is through.
CoordinatorIsFirst ==
    /\ progress[Coordinator] # "idle"
    /\ FirstLoad => \A h \in Hosts \ {Coordinator} : progress[h] = "idle"

\* What has not been cloned cannot have been changed.
Unchanged(w) == ~ w.edited /\ ~ w.rebasing /\ \A b \in Names : w.local[b].own = "none"
UnclonedIsClean == \A h \in Hosts : ~ copy[h].cloned => Unchanged(copy[h])

\* Where the theorem is about: the remote has a branch for the version and the
\* coordinator has no changes of the user.
FollowsRemote ==
    request.remote /\ best_match(Names, request.version) # NoBranch /\ Unchanged(copy[Coordinator])
OthersLoad == ~ FirstLoad /\ Hosts # {Coordinator}

\* The coordinator has recorded a revision before the others get to work, and
\* everybody who has loaded the workload since then has checked that one out.
RevisionIsRecorded ==
    FollowsRemote =>
        /\ (FirstLoad /\ progress[Coordinator] = "loaded") \/ OthersLoad => revision # NoCommit
        /\ OthersLoad => \A h \in Hosts : progress[h] = "loaded" => copy[h].head = revision

RepoInv == RepoTypeOK /\ CoordinatorIsFirst /\ UnclonedIsClean /\ RevisionIsRecorded
-----------------------------------------------------------------------------
(* Working copies *)

LEMMA WorkingCopyFields ==
    ASSUME NEW w \in WorkingCopies
    PROVE  /\ w.known \in [Names -> Nat] /\ w.local \in [Names -> Commits] /\ w.head \in Commits
           /\ w.on \in Names \union {NoBranch} /\ w.edited \in BOOLEAN /\ w.rebasing \in BOOLEAN
           /\ w.cloned \in BOOLEAN
BY DEF WorkingCopies

LEMMA CommitFields ==
    /\ NoCommit \in Commits /\ NoCommit.branch = NoBranch /\ NoCommit.own = "none"
    /\ \A b \in Names \union {NoBranch}, n \in Nat, own \in Hosts \union {"none"} :
          Commit(b, n, own) \in Commits /\ Commit(b, n, own).branch = b /\ Commit(b, n, own).own = own
    /\ \A c \in Commits : c.own \in Hosts \union {"none"}
BY DEF NoCommit, Commit, Commits

LEMMA FetchedCopy ==
    ASSUME RepoTypeOK, NEW w \in WorkingCopies
    PROVE  /\ fetch(w) \in WorkingCopies /\ fetch(w).cloned = w.cloned
           /\ (Unchanged(fetch(w)) <=> Unchanged(w))
BY DEF fetch, WorkingCopies, RepoTypeOK, Unchanged

LEMMA ClonedCopy ==
    ASSUME RepoTypeOK
    PROVE  clone \in WorkingCopies /\ clone.cloned
<1>1. remote[Main] \in Nat /\ Main \in Names /\ Branches = Names
  BY DEF RepoTypeOK, Names, Branches
<1>2. Commit(Main, remote[Main], "none") \in Commits /\ NoCommit \in Commits
  BY <1>1, CommitFields
<1> QED
  BY <1>1, <1>2 DEF clone, WorkingCopy, WorkingCopies, RepoTypeOK

LEMMA CheckedOutCopy ==
    ASSUME RepoTypeOK, NEW w \in WorkingCopies, NEW b \in Names
    PROVE  /\ checkout(w, b) \in WorkingCopies /\ checkout(w, b).cloned = w.cloned
           /\ checkout(w, b).edited = w.edited /\ checkout(w, b).rebasing = w.rebasing
           /\ checkout(w, b).head = checkout(w, b).local[b]
           /\ checkout(w, b).local[b].own = w.local[b].own
           /\ \A c \in Names : c # b => checkout(w, b).local[c] = w.local[c]
           /\ w.local[b] # NoCommit => checkout(w, b).head = w.local[b]
           /\ w.local[b] = NoCommit => checkout(w, b).head.branch = b
<1> DEFINE tip == IF w.local[b] = NoCommit THEN Commit(b, w.known[b], "none") ELSE w.local[b]
<1>1. /\ tip \in Commits /\ tip.own = w.local[b].own
      /\ (w.local[b] # NoCommit => tip = w.local[b]) /\ (w.local[b] = NoCommit => tip.branch = b)
  BY WorkingCopyFields, CommitFields
<1>2. checkout(w, b) = [w EXCEPT !.on = b, !.head = tip, !.local[b] = tip]
  BY DEF checkout
<1> DEFINE local == [w.local EXCEPT ![b] = tip]
<1>3. checkout(w, b) = [w EXCEPT !.on = b, !.head = tip, !.local = local]
  BY <1>2
<1>4. local \in [Names -> Commits] /\ local[b] = tip /\ \A c \in Names : c # b => local[c] = w.local[c]
  BY <1>1, WorkingCopyFields
<1> HIDE DEF tip, local
<1>5. /\ checkout(w, b) \in WorkingCopies /\ checkout(w, b).cloned = w.cloned
      /\ checkout(w, b).edited = w.edited /\ checkout(w, b).rebasing = w.rebasing
      /\ checkout(w, b).head = tip /\ checkout(w, b).local = local
  BY <1>1, <1>3, <1>4 DEF WorkingCopies
<1> QED
  BY <1>1, <1>4, <1>5

LEMMA RebasedCopy ==
    ASSUME RepoTypeOK, NEW w \in WorkingCopies, NEW b \in Names
    PROVE  /\ rebase(w, b) \in WorkingCopies /\ rebase(w, b).cloned = w.cloned
           /\ rebase(w, b).edited = w.edited /\ rebase(w, b).rebasing = w.rebasing
           /\ rebase(w, b).local[b].own = w.local[b].own
           /\ rebase(w, b).head.branch = b /\ rebase(w, b).head \in Commits
           /\ \A c \in Names : c # b => rebase(w, b).local[c] = w.local[c]
<1> DEFINE tip == Commit(b, w.known[b], w.local[b].own)
<1>1. tip \in Commits /\ tip.own = w.local[b].own /\ tip.branch = b
  BY WorkingCopyFields, CommitFields
<1>2. rebase(w, b) = [w EXCEPT !.head = tip, !.local[b] = tip]
  BY DEF rebase
<1> DEFINE local == [w.local EXCEPT ![b] = tip]
<1>3. rebase(w, b) = [w EXCEPT !.head = tip, !.local = local]
  BY <1>2
<1>4. local \in [Names -> Commits] /\ local[b] = tip /\ \A c \in Names : c # b => local[c] = w.local[c]
  BY <1>1, WorkingCopyFields
<1> HIDE DEF tip, local
<1>5. /\ rebase(w, b) \in WorkingCopies /\ rebase(w, b).cloned = w.cloned
      /\ rebase(w, b).edited = w.edited /\ rebase(w, b).rebasing = w.rebasing
      /\ rebase(w, b).head = tip /\ rebase(w, b).local = local
  BY <1>1, <1>3, <1>4 DEF WorkingCopies
<1> QED
  BY <1>1, <1>4, <1>5

LEMMA NamesAreBranches ==
    ASSUME RepoTypeOK
    PROVE  Branches = Names /\ Main \in Names /\ \A w : Clean(w) <=> Unchanged(w)
BY DEF RepoTypeOK, Branches, Names, Clean, Unchanged

-----------------------------------------------------------------------------
(* The invariant is kept *)

\* A host that works on its copy goes from one stage to the next.
HostMoves(h, w, p) ==
    /\ progress[h] \in {"open", "update"} /\ p \in {"update", "loaded", "failed"} /\ w \in WorkingCopies
    /\ copy' = [copy EXCEPT ![h] = w] /\ progress' = [progress EXCEPT ![h] = p]
    /\ UNCHANGED <<remote, request>> /\ revision' \in Commits
    /\ ~ w.cloned => Unchanged(w)
    /\ Unchanged(w) => Unchanged(copy[h])

LEMMA HostMovesOn ==
    ASSUME RepoInv, NEW h \in Hosts, NEW w, NEW p, HostMoves(h, w, p)
    PROVE  /\ RepoTypeOK' /\ CoordinatorIsFirst' /\ UnclonedIsClean'
           /\ (FirstLoad' <=> FirstLoad) /\ (FirstLoad => h = Coordinator)
           /\ FollowsRemote' => FollowsRemote
<1> USE RepoAssumption DEF RepoInv
<1>1. RepoTypeOK'
  BY DEF RepoTypeOK, HostMoves
<1>2. /\ copy'[h] = w /\ progress'[h] = p
      /\ \A g \in Hosts : g # h => copy'[g] = copy[g] /\ progress'[g] = progress[g]
  BY DEF RepoTypeOK, HostMoves
<1>3. progress[h] # "idle" /\ progress'[h] # "idle"
  BY <1>2 DEF HostMoves
<1>4. FirstLoad' <=> FirstLoad
  BY <1>2, <1>3 DEF FirstLoad
<1>5. FirstLoad => h = Coordinator
  BY <1>3 DEF CoordinatorIsFirst
<1>6. CoordinatorIsFirst'
  BY <1>2, <1>3, <1>4, <1>5 DEF CoordinatorIsFirst
<1>7. UnclonedIsClean'
  BY <1>2 DEF UnclonedIsClean, HostMoves
<1>8. FollowsRemote' => FollowsRemote
  <2>1. Unchanged(copy'[Coordinator]) => Unchanged(copy[Coordinator])
    BY <1>2 DEF HostMoves
  <2> QED
    BY <2>1 DEF FollowsRemote, HostMoves
<1> QED
  BY <1>1, <1>4, <1>5, <1>6, <1>7, <1>8

LEMMA HostMovesRightly ==
    ASSUME RepoInv, NEW h \in Hosts, NEW w, NEW p, HostMoves(h, w, p),
           FollowsRemote' => /\ revision' = revision \/ FirstLoad
                             /\ p = "loaded" /\ FirstLoad => revision' # NoCommit
                             /\ p = "loaded" /\ OthersLoad => w.head = revision'
    PROVE  RepoInv'
<1> USE RepoAssumption DEF RepoInv
<1>1. /\ RepoTypeOK' /\ CoordinatorIsFirst' /\ UnclonedIsClean'
      /\ (FirstLoad' <=> FirstLoad) /\ (FirstLoad => h = Coordinator) /\ (FollowsRemote' => FollowsRemote)
  BY HostMovesOn
<1>2. /\ copy'[h] = w /\ progress'[h] = p
      /\ \A g \in Hosts : g # h => copy'[g] = copy[g] /\ progress'[g] = progress[g]
  BY DEF RepoTypeOK, HostMoves
<1>3. ASSUME FollowsRemote' PROVE (FirstLoad' /\ progress'[Coordinator] = "loaded") \/ OthersLoad' => revision' # NoCommit
  <2>1. CASE FirstLoad
    BY <2>1, <1>1, <1>2, <1>3 DEF OthersLoad
  <2>2. CASE ~ FirstLoad
    BY <2>2, <1>1, <1>3 DEF OthersLoad, RevisionIsRecorded
  <2> QED
    BY <2>1, <2>2
<1>4. ASSUME FollowsRemote', OthersLoad', NEW g \in Hosts, progress'[g] = "loaded" PROVE copy'[g].head = revision'
  <2>1. OthersLoad /\ ~ FirstLoad
    BY <1>1, <1>4 DEF OthersLoad
  <2>2. revision' = revision
    BY <2>1, <1>4
  <2>3. CASE g = h
    BY <2>1, <2>3, <1>2, <1>4
  <2>4. CASE g # h
    BY <2>1, <2>2, <2>4, <1>1, <1>2, <1>4 DEF RevisionIsRecorded
  <2> QED
    BY <2>3, <2>4
<1>5. RevisionIsRecorded'
  BY <1>3, <1>4 DEF RevisionIsRecorded
<1> QED
  BY <1>1, <1>5

LEMMA OpeningRepo == ASSUME RepoInv, NEW h \in Hosts, BenchmarkRepository(h) PROVE RepoInv'
<1> DEFINE w == copy'[h]
           p == progress'[h]
<1>0. /\ RepoTypeOK /\ copy[h] \in WorkingCopies /\ progress[h] = "open"
      /\ ~ copy[h].cloned => Unchanged(copy[h])
  BY DEF RepoInv, RepoTypeOK, BenchmarkRepository, UnclonedIsClean
<1>1. copy \in [Hosts -> WorkingCopies] /\ progress \in [Hosts -> {"idle", "open", "update", "loaded", "failed"}]
  BY <1>0 DEF RepoTypeOK
<1>2. UNCHANGED <<remote, request, revision>> /\ revision' \in Commits
  BY <1>0 DEF BenchmarkRepository, RepoTypeOK
<1>3. CASE ~ copy[h].cloned /\ Becomes(h, clone) /\ progress' = [progress EXCEPT ![h] = "update"]
  <2>1. Unchanged(copy[h])
    BY <1>3 DEF RepoInv, UnclonedIsClean
  <2>2. HostMoves(h, clone, "update")
    BY <2>1, <1>0, <1>2, <1>3, ClonedCopy DEF HostMoves, Becomes
  <2> QED
    BY <2>2, <1>2, HostMovesRightly
<1>4. CASE Failed(h) /\ UNCHANGED copy
  <2>1. copy' = [copy EXCEPT ![h] = copy[h]]
    BY <1>1, <1>4
  <2>2. HostMoves(h, copy[h], "failed")
    BY <2>1, <1>0, <1>2, <1>4 DEF HostMoves, Failed
  <2> QED
    BY <2>2, <1>2, HostMovesRightly
<1>5. CASE copy[h].cloned /\ Becomes(h, fetch(copy[h])) /\ progress' = [progress EXCEPT ![h] = "update"]
  <2>1. HostMoves(h, fetch(copy[h]), "update")
    BY <1>0, <1>2, <1>5, FetchedCopy DEF HostMoves, Becomes
  <2> QED
    BY <2>1, <1>2, HostMovesRightly
<1>6. CASE UNCHANGED copy /\ progress' = [progress EXCEPT ![h] = "update"]
  <2>1. copy' = [copy EXCEPT ![h] = copy[h]]
    BY <1>1, <1>6
  <2>2. HostMoves(h, copy[h], "update")
    BY <2>1, <1>0, <1>2, <1>6 DEF HostMoves
  <2> QED
    BY <2>2, <1>2, HostMovesRightly
<1> QED
  BY <1>3, <1>4, <1>5, <1>6 DEF BenchmarkRepository

LEMMA CheckingOutRevision == ASSUME RepoInv, NEW h \in Hosts, CheckoutRevision(h) PROVE RepoInv'
<1>0. /\ RepoTypeOK /\ copy[h] \in WorkingCopies /\ progress[h] = "update" /\ revision \in Commits
      /\ copy \in [Hosts -> WorkingCopies] /\ (~ copy[h].cloned => Unchanged(copy[h]))
  BY DEF RepoInv, RepoTypeOK, CheckoutRevision, UnclonedIsClean
<1>1. revision # NoCommit /\ UNCHANGED <<remote, request, revision>>
  BY DEF CheckoutRevision
<1> DEFINE w == [copy[h] EXCEPT !.head = revision, !.on = NoBranch]
<1>2. /\ w \in WorkingCopies /\ w.head = revision /\ w.local = copy[h].local /\ w.edited = copy[h].edited
      /\ w.rebasing = copy[h].rebasing /\ w.cloned = copy[h].cloned
  BY <1>0 DEF WorkingCopies
<1>3. (Becomes(h, w) /\ Loaded(h)) \/ (UNCHANGED copy /\ Failed(h))
  BY DEF CheckoutRevision
<1> HIDE DEF w
<1>4. CASE Becomes(h, w) /\ Loaded(h)
  <2>1. (Unchanged(w) <=> Unchanged(copy[h])) /\ (~ w.cloned => Unchanged(w))
    BY <1>0, <1>2 DEF Unchanged
  <2>2. HostMoves(h, w, "loaded")
    BY <2>1, <1>0, <1>1, <1>2, <1>4 DEF HostMoves, Becomes, Loaded
  <2> QED
    BY <2>2, <1>1, <1>2, HostMovesRightly
<1>5. CASE UNCHANGED copy /\ Failed(h)
  <2>1. copy' = [copy EXCEPT ![h] = copy[h]]
    BY <1>0, <1>5
  <2>2. HostMoves(h, copy[h], "failed")
    BY <2>1, <1>0, <1>1, <1>5 DEF HostMoves, Failed
  <2> QED
    BY <2>2, <1>1, HostMovesRightly
<1> QED
  BY <1>3, <1>4, <1>5

\* What a checkout and a rebase leave of the user's changes
LEMMA ChangesAreKept ==
    ASSUME RepoTypeOK, NEW w \in WorkingCopies, NEW b \in Names
    PROVE  /\ Unchanged(checkout(w, b)) <=> Unchanged(w)
           /\ Unchanged(rebase(checkout(w, b), b)) <=> Unchanged(w)
<1> DEFINE on == checkout(w, b)
           up == rebase(on, b)
<1>1. /\ on \in WorkingCopies /\ on.edited = w.edited /\ on.rebasing = w.rebasing
      /\ on.local[b].own = w.local[b].own /\ \A c \in Names : c # b => on.local[c] = w.local[c]
  BY CheckedOutCopy
<1> HIDE DEF on
<1>2. /\ up \in WorkingCopies /\ up.edited = on.edited /\ up.rebasing = on.rebasing
      /\ up.local[b].own = on.local[b].own /\ \A c \in Names : c # b => up.local[c] = on.local[c]
  BY <1>1, RebasedCopy
<1> HIDE DEF up
<1>3. (Unchanged(on) <=> Unchanged(w)) /\ (Unchanged(up) <=> Unchanged(on))
  BY <1>1, <1>2 DEF Unchanged
<1> QED
  BY <1>3 DEF on, up

LEMMA UpdatingFromRemote == ASSUME RepoInv, NEW h \in Hosts, UpdateFromRemote(h) PROVE RepoInv'
<1> DEFINE w == copy[h]
           b == best_match(Branches, request.version)
           on == checkout(w, b)
           up == rebase(on, b)
           half == [on EXCEPT !.rebasing = ~ w.edited]
<1>0. /\ RepoTypeOK /\ w \in WorkingCopies /\ progress[h] = "update" /\ revision = NoCommit
      /\ copy \in [Hosts -> WorkingCopies] /\ (~ w.cloned => Unchanged(w))
  BY DEF RepoInv, RepoTypeOK, UpdateFromRemote, UnclonedIsClean
<1>1. UNCHANGED <<remote, request>> /\ b # NoBranch /\ Branches = Names /\ revision \in Commits
  BY <1>0, NamesAreBranches DEF UpdateFromRemote, RepoTypeOK
<1>2. \/ UNCHANGED <<copy, revision>> /\ Failed(h)
      \/ b \in Names /\ Becomes(h, up) /\ Record(up.head) /\ Loaded(h)
      \/ b \in Names /\ (w.edited \/ on.head.own # "none") /\ Becomes(h, half) /\ Loaded(h) /\ UNCHANGED revision
  BY <1>1 DEF UpdateFromRemote
\* The coordinator would have recorded a revision, if it followed the remote.
<1>3. ASSUME FollowsRemote PROVE FirstLoad \/ ~ OthersLoad
  BY <1>0, <1>3 DEF RepoInv, RevisionIsRecorded
<1> HIDE DEF w, b
<1>4. CASE UNCHANGED <<copy, revision>> /\ Failed(h)
  <2>1. copy' = [copy EXCEPT ![h] = w]
    BY <1>0, <1>4 DEF w
  <2>2. HostMoves(h, w, "failed")
    BY <2>1, <1>0, <1>1, <1>4 DEF HostMoves, Failed, w
  <2> QED
    BY <2>2, <1>4, HostMovesRightly
<1>5. CASE b \in Names /\ Becomes(h, up) /\ Record(up.head) /\ Loaded(h)
  <2>1. /\ on \in WorkingCopies /\ on.cloned = w.cloned
        /\ (Unchanged(on) <=> Unchanged(w)) /\ (Unchanged(up) <=> Unchanged(w))
    BY <1>0, <1>5, CheckedOutCopy, ChangesAreKept
  <2> HIDE DEF on
  <2>2. up \in WorkingCopies /\ up.cloned = w.cloned /\ up.head.branch = b /\ up.head \in Commits
    BY <2>1, <1>0, <1>5, RebasedCopy
  <2>3. up.head # NoCommit
    BY <2>2, <1>1, CommitFields
  <2> HIDE DEF up
  <2>4. HostMoves(h, up, "loaded")
    BY <2>1, <2>2, <1>0, <1>1, <1>5 DEF HostMoves, Loaded, Becomes, Record, w
  <2>5. FollowsRemote' => FollowsRemote /\ (FirstLoad \/ ~ OthersLoad)
    BY <2>4, <1>3, HostMovesOn
  <2>6. (FirstLoad => revision' = up.head) /\ (~ FirstLoad => revision' = revision)
    BY <1>5 DEF Record
  <2> QED
    BY <2>3, <2>4, <2>5, <2>6, HostMovesRightly DEF OthersLoad
<1>6. CASE b \in Names /\ (w.edited \/ on.head.own # "none") /\ Becomes(h, half) /\ Loaded(h) /\ UNCHANGED revision
  <2>1. /\ on \in WorkingCopies /\ on.cloned = w.cloned /\ on.edited = w.edited /\ (Unchanged(on) <=> Unchanged(w))
        /\ on.head = on.local[b]
    BY <1>0, <1>6, CheckedOutCopy, ChangesAreKept
  <2>2. ~ Unchanged(on)
    BY <2>1, <1>6 DEF Unchanged
  <2> HIDE DEF on
  <2>3. half \in WorkingCopies /\ half.cloned = on.cloned /\ (half.edited \/ half.rebasing)
    BY <2>1, <1>0, WorkingCopyFields DEF WorkingCopies
  <2> HIDE DEF half
  <2>4. HostMoves(h, half, "loaded") /\ ~ Unchanged(half)
    BY <2>1, <2>2, <2>3, <1>0, <1>1, <1>6 DEF HostMoves, Loaded, Becomes, Unchanged, w
  <2>5. FollowsRemote' => FollowsRemote /\ (FirstLoad \/ ~ OthersLoad) /\ (FirstLoad => h = Coordinator)
    BY <2>4, <1>3, HostMovesOn
  <2>6. FollowsRemote' => h # Coordinator
    BY <2>4, <1>0 DEF FollowsRemote, HostMoves
  <2> QED
    BY <2>4, <2>5, <2>6, <1>6, HostMovesRightly DEF OthersLoad
<1> QED
  BY <1>2, <1>4, <1>5, <1>6

LEMMA UpdatingLocally == ASSUME RepoInv, NEW h \in Hosts, UpdateLocally(h) PROVE RepoInv'
<1> DEFINE w == copy[h]
           b == best_match(LocalBranches(w), request.version)
           on == checkout(w, b)
<1>0. /\ RepoTypeOK /\ w \in WorkingCopies /\ progress[h] = "update" /\ revision \in Commits
      /\ copy \in [Hosts -> WorkingCopies] /\ (~ w.cloned => Unchanged(w))
  BY DEF RepoInv, RepoTypeOK, UpdateLocally, UnclonedIsClean
<1>1. UNCHANGED <<remote, request>> /\ Branches = Names
  BY <1>0, NamesAreBranches DEF UpdateLocally
<1>2. ~ FollowsRemote
  BY <1>1 DEF UpdateLocally, FollowsRemote
<1>3. \/ UNCHANGED <<copy, revision>> /\ (Failed(h) \/ Loaded(h))
      \/ b \in Names /\ Becomes(h, on) /\ Record(on.head) /\ Loaded(h)
  BY <1>1 DEF UpdateLocally, LocalBranches
<1> HIDE DEF w, b
<1>4. CASE UNCHANGED <<copy, revision>> /\ (Failed(h) \/ Loaded(h))
  <2>1. copy' = [copy EXCEPT ![h] = w]
    BY <1>0, <1>4 DEF w
  <2>2. PICK p \in {"loaded", "failed"} : HostMoves(h, w, p)
    BY <2>1, <1>0, <1>1, <1>4 DEF HostMoves, Failed, Loaded, w
  <2>3. ~ FollowsRemote'
    BY <2>2, <1>2, HostMovesOn
  <2> QED
    BY <2>2, <2>3, HostMovesRightly
<1>5. CASE b \in Names /\ Becomes(h, on) /\ Record(on.head) /\ Loaded(h)
  <2>1. on \in WorkingCopies /\ on.cloned = w.cloned /\ (Unchanged(on) <=> Unchanged(w))
    BY <1>0, <1>5, CheckedOutCopy, ChangesAreKept
  <2> HIDE DEF on
  <2>2. on.head \in Commits
    BY <2>1, WorkingCopyFields
  <2>3. HostMoves(h, on, "loaded")
    BY <2>1, <2>2, <1>0, <1>1, <1>5 DEF HostMoves, Loaded, Becomes, Record, w
  <2>4. ~ FollowsRemote'
    BY <2>3, <1>2, HostMovesOn
  <2> QED
    BY <2>3, <2>4, HostMovesRightly
<1> QED
  BY <1>3, <1>4, <1>5

LEMMA PreparingHosts == ASSUME RepoInv, PrepareHosts PROVE RepoInv'
<1> USE RepoAssumption DEF RepoInv
<1>1. /\ progress' = [h \in Hosts |-> "open"] /\ UNCHANGED <<remote, copy, request, revision>>
      /\ FirstLoad /\ progress[Coordinator] = "loaded"
  BY DEF PrepareHosts
<1>2. RepoTypeOK'
  BY <1>1 DEF RepoTypeOK
<1>3. CoordinatorIsFirst' /\ ~ FirstLoad'
  BY <1>1 DEF CoordinatorIsFirst, FirstLoad
<1>4. UnclonedIsClean'
  BY <1>1 DEF UnclonedIsClean
<1>5. RevisionIsRecorded'
  BY <1>1, <1>3 DEF RevisionIsRecorded, FollowsRemote
<1> QED
  BY <1>2, <1>3, <1>4, <1>5

LEMMA Pushing == ASSUME RepoInv, Push \/ UNCHANGED repoVars PROVE RepoInv'
<1> USE DEF RepoInv
<1>1. UNCHANGED <<copy, request, revision, progress>>
  BY DEF Push, repoVars
<1>2. RepoTypeOK'
  BY DEF RepoTypeOK, Push, repoVars, Branches
<1>3. CoordinatorIsFirst' /\ (FirstLoad' <=> FirstLoad)
  BY <1>1 DEF CoordinatorIsFirst, FirstLoad
<1>4. UnclonedIsClean'
  BY <1>1 DEF UnclonedIsClean
<1>5. (FollowsRemote' <=> FollowsRemote) /\ (OthersLoad' <=> OthersLoad)
  BY <1>1, <1>3 DEF FollowsRemote, OthersLoad
<1>6. RevisionIsRecorded'
  BY <1>1, <1>3, <1>5 DEF RevisionIsRecorded
<1> QED
  BY <1>2, <1>3, <1>4, <1>6

LEMMA RepoBegins == RepoInit => RepoInv
<1> SUFFICES ASSUME RepoInit PROVE RepoInv
  OBVIOUS
<1> USE RepoAssumption
<1>1. remote \in [Names -> Nat] /\ Branches = Names /\ Main \in Names
  BY DEF RepoInit, Names, Branches
<1>2. \A own \in Hosts \union {"none"}, edited \in BOOLEAN :
         /\ WorkingCopy(Commit(Main, 1, own), edited) \in WorkingCopies
         /\ WorkingCopy(Commit(Main, 1, own), edited).cloned
  <2> SUFFICES ASSUME NEW own \in Hosts \union {"none"}, NEW edited \in BOOLEAN
               PROVE  /\ WorkingCopy(Commit(Main, 1, own), edited) \in WorkingCopies
                      /\ WorkingCopy(Commit(Main, 1, own), edited).cloned
    OBVIOUS
  <2>1. Commit(Main, 1, own) \in Commits /\ NoCommit \in Commits
    BY <1>1, CommitFields
  <2> QED
    BY <2>1, <1>1 DEF WorkingCopy, WorkingCopies
<1> DEFINE none == Commit(Main, 1, "none")
           whole == WorkingCopy(none, FALSE)
           fresh == [whole EXCEPT !.cloned = FALSE]
<1>3. whole \in WorkingCopies
  BY <1>2
<1>4. none.own = "none" /\ NoCommit.own = "none"
  BY <1>1, CommitFields
<1>5. Unchanged(whole)
  BY <1>1, <1>4 DEF Unchanged, WorkingCopy
<1> HIDE DEF whole
<1>6. fresh \in WorkingCopies /\ Unchanged(fresh)
  BY <1>3, <1>5 DEF WorkingCopies, Unchanged
<1> HIDE DEF fresh
<1>7. copy \in [Hosts -> EarlierCopies]
  BY DEF RepoInit
<1>8. \A w \in EarlierCopies : w \in WorkingCopies /\ (~ w.cloned => Unchanged(w))
  <2> SUFFICES ASSUME NEW w \in EarlierCopies PROVE w \in WorkingCopies /\ (~ w.cloned => Unchanged(w))
    OBVIOUS
  <2>1. \/ w = fresh
        \/ \E user \in [own : Hosts \union {"none"}, edited : BOOLEAN] :
              w = WorkingCopy(Commit(Main, 1, user.own), user.edited)
    BY DEF EarlierCopies, fresh, whole
  <2> QED
    BY <2>1, <1>2, <1>6
<1>9. RepoTypeOK
  BY <1>1, <1>7, <1>8, CommitFields DEF RepoInit, RepoTypeOK
<1>10. CoordinatorIsFirst /\ UnclonedIsClean
  BY <1>7, <1>8 DEF RepoInit, CoordinatorIsFirst, UnclonedIsClean
<1>11. progress[Coordinator] = "open" /\ \A h \in Hosts : progress[h] # "loaded"
  BY DEF RepoInit
<1>12. FirstLoad \/ Hosts = {Coordinator}
  BY DEF RepoInit, FirstLoad
<1>13. RevisionIsRecorded
  BY <1>11, <1>12 DEF RevisionIsRecorded, OthersLoad
<1> QED
  BY <1>9, <1>10, <1>13 DEF RepoInv

LEMMA RecordedIsSame == RepoInv => SameRevisionEverywhere
<1> SUFFICES ASSUME RepoInv, request.remote, best_match(Branches, request.version) # NoBranch, Clean(copy[Coordinator]),
                    NEW g \in Hosts, NEW h \in Hosts, progress[g] = "loaded", progress[h] = "loaded"
             PROVE  copy[g].head = copy[h].head
  BY DEF SameRevisionEverywhere
<1>1. FollowsRemote
  BY NamesAreBranches DEF RepoInv, FollowsRemote
<1>2. CASE OthersLoad
  BY <1>1, <1>2 DEF RepoInv, RevisionIsRecorded
<1>3. CASE ~ OthersLoad
  BY <1>3 DEF RepoInv, CoordinatorIsFirst, OthersLoad
<1> QED
  BY <1>2, <1>3

(***************************************************************************)
(* For any number of hosts, commits and requested versions: where the      *)
(* coordinator has followed the remote without changes of the user, every  *)
(* host that has loaded the workload has the revision that the coordinator *)
(* read, however often the remote moves on between their fetches.          *)
(***************************************************************************)
THEOREM RevisionsAreSame == RepoSpec => []SameRevisionEverywhere
<1>1. RepoInv /\ [RepoNext]_repoVars => RepoInv'
  BY OpeningRepo, CheckingOutRevision, UpdatingFromRemote, UpdatingLocally, PreparingHosts, Pushing DEF RepoNext
<1> QED
  BY <1>1, RepoBegins, RecordedIsSame, PTL DEF RepoSpec

-----------------------------------------------------------------------------
(***************************************************************************)
(* The document files of a corpus (CorpusPreparation)                      *)
(***************************************************************************)
(* The inductive invariant *)

Dirs == {"workload", "corpus"}
Data == {"doc", "archive"}
FileNames == {"doc", "archive", "tmp", "part1", "part2"}
Contents == [v : Int, n : Int]
CorpusPhases == {"idle", "failed", "loop", "download", "receive", "concatenate", "decompress", "extract",
                 "table", "build", "building", "done"}

CorpusTypeOK ==
    /\ conf \in DocumentSets /\ version \in Nat \ {0}
    /\ files \in [Dirs -> [FileNames -> Contents]]
    /\ table \in [Dirs -> [v : Int, fresh : BOOLEAN]]
    /\ prep \in [pc : CorpusPhases, dir : Dirs, part : {1, 2}]
    /\ diskFaults \in Nat /\ cut \in BOOLEAN

\* A file belongs to a version so far and is not longer than that: the size of
\* the current version is the size of no older one.
Genuine(c) == c = Absent \/ (c.v \in 1 .. version /\ c.n \in 0 .. Size(c.v))
FilesAreGenuine == \A d \in Dirs, f \in Data : Genuine(files[d][f])

\* The directory that is worked on is the one the clients will look in.
DirectoryIsRight ==
    /\ prep.pc \notin {"idle", "failed"} =>
          /\ prep.dir = "workload" => conf.simple
          /\ prep.dir = "corpus" /\ conf.simple => files["workload"]["doc"] = Absent
    /\ prep.pc \in {"download", "receive", "concatenate"} => prep.dir = "corpus"

\* What is known about the files in each phase
PhaseIsKnown ==
    /\ prep.pc \in {"decompress", "extract"} => Archive # Absent
    /\ At("extract") => Document.v = Archive.v /\ Document.n \in 0 .. Archive.n
    /\ prep.pc \in {"table", "build", "building", "done"} =>
          Document # Absent /\ (conf.sizes => Document.n = Size(version))

\* The parts of a download belong to one version, and are complete.
PartsAreCurrent ==
    /\ At("receive") => files["corpus"]["tmp"].v = version /\ files["corpus"]["tmp"].n \in 0 .. RemoteSize
    /\ prep.pc \in {"download", "receive"} /\ prep.part = 2 => conf.parts /\ files["corpus"]["part1"].n = 1
    /\ At("concatenate") =>
          /\ conf.parts /\ files["corpus"]["part2"].n = version
          /\ IF prep.part = 1 THEN files["corpus"]["part1"].n = 1
                              ELSE files["corpus"][Target] = [v |-> version, n |-> 1]

\* Only a file that is being written is incomplete, unless writing was broken off.
Complete(c) == c = Absent \/ c.n = Size(c.v)
BeingWritten(d, f) ==
    \/ At("extract") /\ d = prep.dir /\ f = "doc"
    \/ At("concatenate") /\ prep.part = 2 /\ d = "corpus" /\ f = Target
IncompleteIsWritten ==
    ~ cut => \A d \in Dirs, f \in Data : Complete(files[d][f]) \/ BeingWritten(d, f)

\* A table that is not older than its document belongs to it; a document from a tar archive may be older.
TableBelongs(d) ==
    is_valid(d) => \/ table[d].v = files[d]["doc"].v
                   \/ table[d].v = Torn /\ (cut \/ (At("building") /\ d = prep.dir))
TablesBelong ==
    /\ conf.sizes /\ ~ conf.tar => \A d \in Dirs : TableBelongs(d)
    /\ At("building") => table[prep.dir].fresh
    /\ At("done") /\ conf.offsets => is_valid(prep.dir)

CorpusInv ==
    /\ CorpusTypeOK /\ FilesAreGenuine /\ DirectoryIsRight /\ PhaseIsKnown /\ PartsAreCurrent
    /\ IncompleteIsWritten /\ TablesBelong
-----------------------------------------------------------------------------
(* The state of a preparation *)

LEMMA ConfIsBoolean ==
    ASSUME CorpusTypeOK
    PROVE  /\ conf.archive \in BOOLEAN /\ conf.parts \in BOOLEAN /\ conf.sizes \in BOOLEAN /\ conf.url \in BOOLEAN
           /\ conf.tar \in BOOLEAN /\ conf.offline \in BOOLEAN /\ conf.simple \in BOOLEAN /\ conf.source \in BOOLEAN /\ conf.offsets \in BOOLEAN
BY CorpusAssumption DEF CorpusTypeOK

LEMMA PreparationMoves ==
    ASSUME CorpusTypeOK, NEW p \in CorpusPhases, GoTo(p)
    PROVE  /\ prep' \in [pc : CorpusPhases, dir : Dirs, part : {1, 2}]
           /\ prep'.pc = p /\ prep'.dir = prep.dir /\ prep'.part = prep.part
BY DEF CorpusTypeOK, GoTo

LEMMA FileWritten ==
    ASSUME CorpusTypeOK, NEW d \in Dirs, NEW f \in FileNames, NEW c \in Contents, Write(d, f, c)
    PROVE  /\ files' \in [Dirs -> [FileNames -> Contents]] /\ files'[d][f] = c
           /\ \A e \in Dirs, g \in FileNames : e # d \/ g # f => files'[e][g] = files[e][g]
BY DEF CorpusTypeOK, Write

LEMMA DirectoryNames ==
    /\ "corpus" \in Dirs /\ "workload" \in Dirs
    /\ "doc" \in Data /\ "archive" \in Data /\ Data \subseteq FileNames
    /\ "tmp" \in FileNames \ Data /\ "part1" \in FileNames \ Data /\ "part2" \in FileNames \ Data
BY DEF Dirs, Data, FileNames

LEMMA FileTypes ==
    ASSUME CorpusTypeOK
    PROVE  /\ \A d \in Dirs, f \in FileNames : /\ files[d][f] \in Contents
                                              /\ files[d][f].v \in Int /\ files[d][f].n \in Int
           /\ Absent \in Contents /\ Absent.v = 0 /\ Absent.n = -1
           /\ \A v, n \in Int : [v |-> v, n |-> n] \in Contents
BY DEF CorpusTypeOK, Contents, Absent

LEMMA DocumentTypes ==
    ASSUME CorpusTypeOK
    PROVE  /\ prep.dir \in Dirs
           /\ Document \in Contents /\ Document.v \in Int /\ Document.n \in Int
           /\ Archive \in Contents /\ Archive.v \in Int /\ Archive.n \in Int
<1>1. prep.dir \in Dirs
  BY DEF CorpusTypeOK
<1> QED
  BY <1>1, FileTypes, DirectoryNames DEF Document, Archive

\* A step of the process that leaves the files alone
LEMMA FilesLeftAlone ==
    ASSUME CorpusInv, UNCHANGED <<conf, version, files>>
    PROVE  FilesAreGenuine'
BY DEF CorpusInv, FilesAreGenuine, Genuine

\* The documents and archives stay as they are, in a step that may write another file.
SameData == \A d \in Dirs, f \in Data : files'[d][f] = files[d][f]

LEMMA DataLeftAlone ==
    ASSUME CorpusInv, SameData, UNCHANGED <<conf, version>>, prep'.dir = prep.dir
    PROVE  /\ FilesAreGenuine' /\ Document' = Document /\ Archive' = Archive /\ Target' = Target
           /\ files'["workload"]["doc"] = files["workload"]["doc"]
<1>1. "workload" \in Dirs /\ "doc" \in Data /\ "archive" \in Data /\ prep.dir \in Dirs
  BY DirectoryNames DEF CorpusInv, CorpusTypeOK
<1>2. FilesAreGenuine'
  BY DEF CorpusInv, FilesAreGenuine, Genuine, SameData
<1>3. Document' = Document /\ Archive' = Archive /\ files'["workload"]["doc"] = files["workload"]["doc"]
  BY <1>1 DEF SameData, Document, Archive
<1> QED
  BY <1>2, <1>3 DEF Target

-----------------------------------------------------------------------------
(* The invariant is kept *)

LEMMA StartingPreparation == CorpusInv /\ StartPreparation => CorpusInv'
<1> SUFFICES ASSUME CorpusInv, StartPreparation PROVE CorpusInv'
  OBVIOUS
<1> USE DEF CorpusInv
<1>a. UNCHANGED <<conf, version, diskFaults, cut, files, table>> /\ prep.pc \in {"idle", "failed"}
  BY DEF StartPreparation, UnchangedDisk, At
<1>b. /\ prep' \in [pc : CorpusPhases, dir : Dirs, part : {1, 2}] /\ prep'.pc = "loop" /\ prep'.part = 1
      /\ prep'.dir = IF conf.simple THEN "workload" ELSE "corpus"
  BY DEF StartPreparation, data_dir, CorpusPhases, Dirs
<1>1. CorpusTypeOK'
  BY <1>a, <1>b DEF CorpusTypeOK
<1>2. FilesAreGenuine'
  BY <1>a, FilesLeftAlone
<1>3. DirectoryIsRight'
  BY <1>a, <1>b DEF DirectoryIsRight
<1>4. PhaseIsKnown'
  BY <1>a, <1>b DEF PhaseIsKnown, At, Document, Archive
<1>5. PartsAreCurrent'
  BY <1>a, <1>b DEF PartsAreCurrent, At, RemoteSize, PartSize, Target, Size
<1>6. IncompleteIsWritten'
  BY <1>a, <1>b DEF IncompleteIsWritten, Complete, BeingWritten, At, Target
<1>7. TablesBelong'
  BY <1>a, <1>b DEF TablesBelong, TableBelongs, is_valid, At
<1> QED
  BY <1>1, <1>2, <1>3, <1>4, <1>5, <1>6, <1>7

LEMMA PreparingBundled == CorpusInv /\ prepare_bundled_document_set => CorpusInv'
<1> SUFFICES ASSUME CorpusInv, prepare_bundled_document_set PROVE CorpusInv'
  OBVIOUS
<1> USE DEF CorpusInv
<1>a. /\ UNCHANGED <<conf, version, diskFaults, cut, files, table>>
      /\ prep.pc = "loop" /\ prep.dir = "workload" /\ {"table", "failed", "decompress"} \subseteq CorpusPhases
  BY DEF prepare_bundled_document_set, UnchangedDisk, At, CorpusPhases
<1>c. \/ GoTo("table") /\ Document # Absent /\ (conf.sizes => Document.n = Size(version))
      \/ GoTo("failed")
      \/ GoTo("decompress") /\ Archive # Absent
      \/ prep' = [prep EXCEPT !.dir = "corpus"] /\ files["workload"]["doc"] = Absent
  BY <1>a DEF prepare_bundled_document_set, is_locally_available, has_expected_size, Document, Archive
<1>b. /\ prep' \in [pc : CorpusPhases, dir : Dirs, part : {1, 2}]
      /\ \/ prep'.pc = "table" /\ prep'.dir = prep.dir /\ Document # Absent /\ (conf.sizes => Document.n = Size(version))
         \/ prep'.pc = "failed"
         \/ prep'.pc = "decompress" /\ prep'.dir = prep.dir /\ Archive # Absent
         \/ prep'.pc = "loop" /\ prep'.dir = "corpus" /\ files["workload"]["doc"] = Absent
  <2>1. CASE prep' = [prep EXCEPT !.dir = "corpus"] /\ files["workload"]["doc"] = Absent
    BY <2>1, <1>a DEF CorpusTypeOK, Dirs
  <2> QED
    BY <2>1, <1>a, <1>c, PreparationMoves
<1>1. CorpusTypeOK'
  BY <1>a, <1>b DEF CorpusTypeOK
<1>2. FilesAreGenuine'
  BY <1>a, FilesLeftAlone
<1>3. DirectoryIsRight'
  BY <1>a, <1>b DEF DirectoryIsRight
<1>4. PhaseIsKnown'
  BY <1>a, <1>b DEF PhaseIsKnown, At, Document, Archive
<1>5. PartsAreCurrent'
  BY <1>a, <1>b DEF PartsAreCurrent, At, RemoteSize, PartSize, Target, Size
<1>6. IncompleteIsWritten'
  BY <1>a, <1>b DEF IncompleteIsWritten, Complete, BeingWritten, At, Target
<1>7. TablesBelong'
  BY <1>a, <1>b DEF TablesBelong, TableBelongs, is_valid, At
<1> QED
  BY <1>1, <1>2, <1>3, <1>4, <1>5, <1>6, <1>7

LEMMA PreparingDocumentSet == CorpusInv /\ prepare_document_set => CorpusInv'
<1> SUFFICES ASSUME CorpusInv, prepare_document_set PROVE CorpusInv'
  OBVIOUS
<1> USE DEF CorpusInv
<1>a. /\ UNCHANGED <<conf, version, diskFaults, cut, files, table>>
      /\ prep.pc = "loop" /\ prep.dir = "corpus" /\ {"table", "done", "decompress", "download"} \subseteq CorpusPhases
  BY DEF prepare_document_set, UnchangedDisk, At, CorpusPhases
<1>c. \/ /\ Document # Absent /\ (conf.sizes => Document.n = Size(version))
         /\ (conf.offsets /\ GoTo("table")) \/ (~ conf.offsets /\ GoTo("done"))
      \/ prep' = [prep EXCEPT !.pc = "decompress", !.part = 1] /\ Archive # Absent
      \/ prep' = [prep EXCEPT !.pc = "download", !.part = 1]
  BY <1>a DEF prepare_document_set, is_locally_available, has_expected_size, Document, Archive, ArchiveUsable
<1>b. /\ prep' \in [pc : CorpusPhases, dir : Dirs, part : {1, 2}] /\ prep'.dir = prep.dir
      /\ \/ prep'.pc = "table" /\ Document # Absent /\ (conf.sizes => Document.n = Size(version))
         \/ prep'.pc = "done" /\ ~ conf.offsets /\ Document # Absent /\ (conf.sizes => Document.n = Size(version))
         \/ prep'.pc = "decompress" /\ Archive # Absent
         \/ prep'.pc = "download" /\ prep'.part = 1
  <2>1. CASE prep' = [prep EXCEPT !.pc = "decompress", !.part = 1] /\ Archive # Absent
    BY <2>1, <1>a DEF CorpusTypeOK
  <2>2. CASE prep' = [prep EXCEPT !.pc = "download", !.part = 1]
    BY <2>2, <1>a DEF CorpusTypeOK
  <2> QED
    BY <2>1, <2>2, <1>a, <1>c, PreparationMoves
<1>1. CorpusTypeOK'
  BY <1>a, <1>b DEF CorpusTypeOK
<1>2. FilesAreGenuine'
  BY <1>a, FilesLeftAlone
<1>3. DirectoryIsRight'
  BY <1>a, <1>b DEF DirectoryIsRight
<1>4. PhaseIsKnown'
  BY <1>a, <1>b DEF PhaseIsKnown, At, Document, Archive
<1>5. PartsAreCurrent'
  BY <1>a, <1>b DEF PartsAreCurrent, At, RemoteSize, PartSize, Target, Size
<1>6. IncompleteIsWritten'
  BY <1>a, <1>b DEF IncompleteIsWritten, Complete, BeingWritten, At, Target
<1>7. TablesBelong'
  BY <1>a, <1>b DEF TablesBelong, TableBelongs, is_valid, At
<1> QED
  BY <1>1, <1>2, <1>3, <1>4, <1>5, <1>6, <1>7

LEMMA ExtractionEnds == CorpusInv /\ Extracted => CorpusInv'
<1> SUFFICES ASSUME CorpusInv, Extracted PROVE CorpusInv'
  OBVIOUS
<1> USE DEF CorpusInv
<1>a. /\ UNCHANGED <<conf, version, diskFaults, cut, files>> /\ TarKeepsTime
      /\ prep.pc = "extract" /\ Document.n = Archive.n /\ {"loop", "failed"} \subseteq CorpusPhases
  BY DEF Extracted, UnchangedDisk, At, CorpusPhases
<1>c. GoTo("loop") \/ GoTo("failed")
  BY DEF Extracted
<1>b. /\ prep' \in [pc : CorpusPhases, dir : Dirs, part : {1, 2}] /\ prep'.dir = prep.dir /\ prep'.part = prep.part
      /\ prep'.pc \in {"loop", "failed"}
  BY <1>a, <1>c, PreparationMoves
<1>t. table' \in [Dirs -> [v : Int, fresh : BOOLEAN]] /\ (~ conf.tar => UNCHANGED table)
  BY <1>a DEF TarKeepsTime, CorpusTypeOK
<1>1. CorpusTypeOK'
  BY <1>a, <1>b, <1>t DEF CorpusTypeOK
<1>2. FilesAreGenuine'
  BY <1>a, FilesLeftAlone
<1>3. DirectoryIsRight'
  BY <1>a, <1>b DEF DirectoryIsRight
<1>4. PhaseIsKnown'
  BY <1>a, <1>b DEF PhaseIsKnown, At, Document, Archive
<1>5. PartsAreCurrent'
  BY <1>a, <1>b DEF PartsAreCurrent, At, RemoteSize, PartSize, Target, Size
<1>6. IncompleteIsWritten'
  <2>1. /\ \A d \in Dirs, f \in Data : BeingWritten(d, f) => d = prep.dir /\ f = "doc"
    BY <1>a DEF BeingWritten, At
  <2>2. ~ cut => Complete(Archive)
    BY <2>1, DocumentTypes, DirectoryNames DEF IncompleteIsWritten, Archive
  <2>3. ~ cut => Complete(Document)
    BY <2>2, <1>a DEF PhaseIsKnown, At, Complete
  <2> QED
    BY <2>1, <2>3, <1>a, <1>b DEF IncompleteIsWritten, Complete, Document
<1>7. TablesBelong'
  BY <1>a, <1>b, <1>t DEF TablesBelong, TableBelongs, is_valid, At
<1> QED
  BY <1>1, <1>2, <1>3, <1>4, <1>5, <1>6, <1>7

LEMMA DownloadingDocs == CorpusInv /\ download => CorpusInv'
<1> SUFFICES ASSUME CorpusInv, download PROVE CorpusInv'
  OBVIOUS
<1> USE DEF CorpusInv
<1>a. /\ UNCHANGED <<conf, version, cut, table>> /\ diskFaults' \in Nat
      /\ prep.pc = "download" /\ {"receive", "failed"} \subseteq CorpusPhases /\ prep.dir = "corpus"
  BY DEF download, UnchangedDisk, Fault, At, CorpusPhases, CorpusTypeOK, DirectoryIsRight
<1>c. \/ GoTo("failed") /\ UNCHANGED files
      \/ GoTo("receive") /\ Write("corpus", "tmp", [v |-> version, n |-> 0])
      \/ GoTo("failed") /\ Write("corpus", "tmp", Absent)
  BY DEF download
<1>b. /\ prep' \in [pc : CorpusPhases, dir : Dirs, part : {1, 2}] /\ prep'.dir = prep.dir /\ prep'.part = prep.part
      /\ prep'.pc \in {"receive", "failed"}
  BY <1>a, <1>c, PreparationMoves
<1>d. version \in Int /\ [v |-> version, n |-> 0] \in Contents /\ Absent \in Contents
  BY FileTypes DEF CorpusTypeOK
<1>f. /\ files' \in [Dirs -> [FileNames -> Contents]]
      /\ prep'.pc = "receive" => files'["corpus"]["tmp"] = [v |-> version, n |-> 0]
      /\ \A d \in Dirs, f \in FileNames : d # "corpus" \/ f # "tmp" => files'[d][f] = files[d][f]
  <2>1. CASE GoTo("failed") /\ UNCHANGED files
    BY <2>1, <1>a, PreparationMoves DEF CorpusTypeOK
  <2>2. CASE GoTo("receive") /\ Write("corpus", "tmp", [v |-> version, n |-> 0])
    BY <2>2, <1>d, FileWritten, DirectoryNames
  <2>3. CASE GoTo("failed") /\ Write("corpus", "tmp", Absent)
    BY <2>3, <1>a, <1>d, FileWritten, DirectoryNames, PreparationMoves
  <2> QED
    BY <1>c, <2>1, <2>2, <2>3
<1>h. SameData
  BY <1>f, DirectoryNames DEF SameData
<1>g. /\ FilesAreGenuine' /\ Document' = Document /\ Archive' = Archive /\ Target' = Target
      /\ files'["workload"]["doc"] = files["workload"]["doc"] /\ SameData
      /\ files'["corpus"]["part1"] = files["corpus"]["part1"]
  BY <1>a, <1>b, <1>f, <1>h, DataLeftAlone, DirectoryNames
<1>i. RemoteSize' \in Nat /\ (prep'.pc = "receive" => files'["corpus"]["tmp"].v = version /\ files'["corpus"]["tmp"].n = 0)
  BY <1>a, <1>b, <1>f DEF RemoteSize, PartSize, Size, CorpusTypeOK
<1>1. CorpusTypeOK'
  BY <1>a, <1>b, <1>f DEF CorpusTypeOK
<1>2. FilesAreGenuine'
  BY <1>g
<1>3. DirectoryIsRight'
  BY <1>a, <1>b, <1>g DEF DirectoryIsRight
<1>4. PhaseIsKnown'
  BY <1>a, <1>b, <1>g DEF PhaseIsKnown, At
<1>5. PartsAreCurrent'
  BY <1>a, <1>b, <1>f, <1>g, <1>i DEF PartsAreCurrent, At
<1>6. IncompleteIsWritten'
  BY <1>a, <1>b, <1>g DEF IncompleteIsWritten, Complete, BeingWritten, At, SameData
<1>7. TablesBelong'
  BY <1>a, <1>b, <1>g, DirectoryNames DEF TablesBelong, TableBelongs, is_valid, At, SameData
<1> QED
  BY <1>1, <1>2, <1>3, <1>4, <1>5, <1>6, <1>7

LEMMA Receiving == CorpusInv /\ Receive => CorpusInv'
<1> SUFFICES ASSUME CorpusInv, Receive PROVE CorpusInv'
  OBVIOUS
<1> USE DEF CorpusInv
<1>a. /\ UNCHANGED <<conf, version, cut, table>> /\ diskFaults' \in Nat
      /\ prep.pc = "receive" /\ {"receive", "failed"} \subseteq CorpusPhases /\ prep.dir = "corpus"
      /\ files["corpus"]["tmp"].n < RemoteSize
  BY DEF Receive, UnchangedDisk, Fault, At, CorpusPhases, CorpusTypeOK, DirectoryIsRight
<1> DEFINE more == [files["corpus"]["tmp"] EXCEPT !.n = @ + 1]
<1>c. \/ UNCHANGED prep /\ Write("corpus", "tmp", more)
      \/ GoTo("failed") /\ Write("corpus", "tmp", Absent)
  BY DEF Receive
<1>b. /\ prep' \in [pc : CorpusPhases, dir : Dirs, part : {1, 2}] /\ prep'.dir = prep.dir /\ prep'.part = prep.part
      /\ prep'.pc \in {"receive", "failed"}
  BY <1>a, <1>c, PreparationMoves DEF CorpusTypeOK
<1>d. /\ more \in Contents /\ more.v = files["corpus"]["tmp"].v /\ more.n = files["corpus"]["tmp"].n + 1
      /\ Absent \in Contents
  BY FileTypes, DirectoryNames DEF Contents
<1> HIDE DEF more
<1>f. /\ files' \in [Dirs -> [FileNames -> Contents]]
      /\ prep'.pc = "receive" => files'["corpus"]["tmp"] = more
      /\ \A d \in Dirs, f \in FileNames : d # "corpus" \/ f # "tmp" => files'[d][f] = files[d][f]
  <2>2. CASE UNCHANGED prep /\ Write("corpus", "tmp", more)
    BY <2>2, <1>d, FileWritten, DirectoryNames
  <2>3. CASE GoTo("failed") /\ Write("corpus", "tmp", Absent)
    BY <2>3, <1>a, <1>d, FileWritten, DirectoryNames, PreparationMoves
  <2> QED
    BY <1>c, <2>2, <2>3
<1>h. SameData
  BY <1>f, DirectoryNames DEF SameData
<1>g. /\ FilesAreGenuine' /\ Document' = Document /\ Archive' = Archive /\ Target' = Target
      /\ files'["workload"]["doc"] = files["workload"]["doc"] /\ SameData
      /\ files'["corpus"]["part1"] = files["corpus"]["part1"]
  BY <1>a, <1>b, <1>f, <1>h, DataLeftAlone, DirectoryNames
<1>i. RemoteSize \in Int /\ RemoteSize' = RemoteSize /\ files["corpus"]["tmp"].n \in Int
  BY <1>a, <1>b, FileTypes, DirectoryNames DEF RemoteSize, PartSize, Size, CorpusTypeOK
<1>1. CorpusTypeOK'
  BY <1>a, <1>b, <1>f DEF CorpusTypeOK
<1>2. FilesAreGenuine'
  BY <1>g
<1>3. DirectoryIsRight'
  BY <1>a, <1>b, <1>g DEF DirectoryIsRight
<1>4. PhaseIsKnown'
  BY <1>a, <1>b, <1>g DEF PhaseIsKnown, At
<1>5. PartsAreCurrent'
  BY <1>a, <1>b, <1>d, <1>f, <1>g, <1>i DEF PartsAreCurrent, At
<1>6. IncompleteIsWritten'
  BY <1>a, <1>b, <1>g DEF IncompleteIsWritten, Complete, BeingWritten, At, SameData
<1>7. TablesBelong'
  BY <1>a, <1>b, <1>g, DirectoryNames DEF TablesBelong, TableBelongs, is_valid, At, SameData
<1> QED
  BY <1>1, <1>2, <1>3, <1>4, <1>5, <1>6, <1>7

\* A document, or archive, that is written at its end or as a whole, and the table that is then too old
Outdates(d) == DocumentChanged(d) /\ \A e \in Dirs : e # d => files'[e]["doc"] = files[e]["doc"]
KeepsDocuments == UNCHANGED table /\ \A e \in Dirs : files'[e]["doc"] = files[e]["doc"]

LEMMA TablesOfWritten ==
    ASSUME CorpusInv, NEW d \in Dirs, UNCHANGED <<conf, cut>>, Outdates(d) \/ KeepsDocuments,
           prep.pc \notin {"building", "done"}, prep'.pc \notin {"building", "done"}
    PROVE  table' \in [Dirs -> [v : Int, fresh : BOOLEAN]] /\ TablesBelong'
<1>1. table \in [Dirs -> [v : Int, fresh : BOOLEAN]]
  BY DEF CorpusInv, CorpusTypeOK
<1>2. table' \in [Dirs -> [v : Int, fresh : BOOLEAN]]
  BY <1>1 DEF Outdates, KeepsDocuments, DocumentChanged
<1>3. ASSUME NEW e \in Dirs, is_valid(e)' PROVE is_valid(e) /\ table'[e] = table[e] /\ files'[e]["doc"] = files[e]["doc"]
  BY <1>1, <1>3 DEF is_valid, Outdates, KeepsDocuments, DocumentChanged
<1>4. conf.sizes /\ ~ conf.tar => \A e \in Dirs : TableBelongs(e)'
  BY <1>3 DEF TableBelongs, CorpusInv, TablesBelong, At
<1> QED
  BY <1>2, <1>4 DEF TablesBelong, At

LEMMA ReceivedAll == CorpusInv /\ Received => CorpusInv'
<1> SUFFICES ASSUME CorpusInv, Received PROVE CorpusInv'
  OBVIOUS
<1> USE DEF CorpusInv
<1> DEFINE tmp == files["corpus"]["tmp"]
           got == Downloaded
<1>a. /\ UNCHANGED <<conf, version, diskFaults, cut>> /\ prep.pc = "receive" /\ prep.dir = "corpus"
      /\ tmp.n = RemoteSize /\ tmp.v = version /\ files' = RenamedDownload
      /\ {"loop", "download", "concatenate"} \subseteq CorpusPhases
  BY DEF Received, UnchangedDisk, At, CorpusPhases, DirectoryIsRight, PartsAreCurrent
<1>b. /\ prep' \in [pc : CorpusPhases, dir : Dirs, part : {1, 2}] /\ prep'.dir = prep.dir
      /\ \/ ~ conf.parts /\ prep'.pc = "loop" /\ prep'.part = prep.part
         \/ conf.parts /\ prep.part = 1 /\ prep'.pc = "download" /\ prep'.part = 2
         \/ conf.parts /\ prep.part = 2 /\ prep'.pc = "concatenate" /\ prep'.part = 1
  <2>1. prep' = CASE ~ conf.parts -> [prep EXCEPT !.pc = "loop"]
                  [] conf.parts /\ prep.part = 1 -> [prep EXCEPT !.pc = "download", !.part = 2]
                  [] OTHER -> [prep EXCEPT !.pc = "concatenate", !.part = 1]
    BY DEF Received
  <2>2. prep \in [pc : CorpusPhases, dir : Dirs, part : {1, 2}] /\ conf.parts \in BOOLEAN
    BY ConfIsBoolean DEF CorpusTypeOK
  <2>3. CASE ~ conf.parts
    <3>1. prep' = [prep EXCEPT !.pc = "loop"]
      BY <2>1, <2>3
    <3> QED
      BY <3>1, <2>2, <2>3, <1>a
  <2>4. CASE conf.parts /\ prep.part = 1
    <3>1. prep' = [prep EXCEPT !.pc = "download", !.part = 2]
      BY <2>1, <2>4
    <3> QED
      BY <3>1, <2>2, <2>4, <1>a
  <2>5. CASE conf.parts /\ prep.part = 2
    <3>1. prep' = [prep EXCEPT !.pc = "concatenate", !.part = 1]
      BY <2>1, <2>5
    <3> QED
      BY <3>1, <2>2, <2>5, <1>a
  <2> QED
    BY <2>2, <2>3, <2>4, <2>5
<1>c. /\ got \in FileNames /\ got # "tmp" /\ (conf.parts => got \notin Data)
      /\ (conf.parts => got = IF prep.part = 1 THEN "part1" ELSE "part2")
      /\ (~ conf.parts => got = Target /\ RemoteSize = Size(version))
      /\ (conf.parts => RemoteSize = IF prep.part = 1 THEN 1 ELSE version) /\ Target \in Data
  BY ConfIsBoolean DEF Downloaded, Target, FileNames, Data, RemoteSize, PartSize, Size, CorpusTypeOK
<1>d. tmp \in Contents /\ Absent \in Contents /\ version \in Nat \ {0}
  BY FileTypes, DirectoryNames DEF CorpusTypeOK
<1>e. files' = [files EXCEPT !["corpus"][got] = tmp, !["corpus"]["tmp"] = Absent]
  BY <1>a DEF RenamedDownload
<1> HIDE DEF got, tmp
<1>f. /\ files' \in [Dirs -> [FileNames -> Contents]] /\ files'["corpus"][got] = tmp
      /\ \A d \in Dirs, f \in FileNames : d # "corpus" \/ f \notin {"tmp", got} => files'[d][f] = files[d][f]
  BY <1>c, <1>d, <1>e, DirectoryNames DEF CorpusTypeOK
<1>g. /\ files'["workload"]["doc"] = files["workload"]["doc"]
      /\ \A d \in Dirs, f \in Data : files'[d][f] = files[d][f] \/ (~ conf.parts /\ d = "corpus" /\ f = Target /\ files'[d][f] = tmp)
  BY <1>c, <1>f, DirectoryNames
<1>h. (got = "doc" /\ DocumentChanged("corpus")) \/ (got # "doc" /\ UNCHANGED table)
  BY DEF Received, got
<1>i. table' \in [Dirs -> [v : Int, fresh : BOOLEAN]] /\ TablesBelong'
  <2>1. Outdates("corpus") \/ KeepsDocuments
    BY <1>f, <1>h, DirectoryNames DEF Outdates, KeepsDocuments
  <2> QED
    BY <2>1, <1>a, <1>b, TablesOfWritten, DirectoryNames
<1>j. ~ conf.parts => tmp.n = Size(tmp.v) /\ tmp.v \in 1 .. version /\ tmp.n \in 0 .. Size(tmp.v)
  BY <1>a, <1>c, <1>d DEF tmp, Size
<1>1. CorpusTypeOK'
  BY <1>a, <1>b, <1>f, <1>i DEF CorpusTypeOK
<1>2. FilesAreGenuine'
  BY <1>a, <1>g, <1>j DEF FilesAreGenuine, Genuine
<1>3. DirectoryIsRight'
  BY <1>a, <1>b, <1>g DEF DirectoryIsRight
<1>4. PhaseIsKnown'
  BY <1>b DEF PhaseIsKnown, At
<1>5. PartsAreCurrent'
  <2>1. prep'.pc = "download" /\ prep'.part = 2 => files'["corpus"]["part1"].n = 1
    BY <1>a, <1>b, <1>c, <1>f DEF tmp
  <2>2. prep'.pc = "concatenate" => files'["corpus"]["part2"].n = version /\ files'["corpus"]["part1"].n = 1
    BY <1>a, <1>b, <1>c, <1>f, DirectoryNames DEF tmp, PartsAreCurrent, At
  <2> QED
    BY <2>1, <2>2, <1>a, <1>b DEF PartsAreCurrent, At
<1>6. IncompleteIsWritten'
  BY <1>a, <1>b, <1>g, <1>j DEF IncompleteIsWritten, Complete, BeingWritten, At
<1>7. TablesBelong'
  BY <1>i
<1> QED
  BY <1>1, <1>2, <1>3, <1>4, <1>5, <1>6, <1>7

LEMMA Concatenating == CorpusInv /\ Concatenate => CorpusInv'
<1> SUFFICES ASSUME CorpusInv, Concatenate PROVE CorpusInv'
  OBVIOUS
<1> USE DEF CorpusInv
<1> DEFINE part == IF prep.part = 1 THEN "part1" ELSE "part2"
           before == IF prep.part = 1 THEN 0 ELSE files["corpus"][Target].n
           joined == [v |-> version, n |-> before + files["corpus"][part].n]
<1>a. /\ UNCHANGED <<conf, version, diskFaults, cut>> /\ prep.pc = "concatenate" /\ prep.dir = "corpus"
      /\ {"loop", "concatenate"} \subseteq CorpusPhases /\ conf.parts
  BY DEF Concatenate, UnchangedDisk, At, CorpusPhases, DirectoryIsRight, PartsAreCurrent
<1>b. /\ prep' \in [pc : CorpusPhases, dir : Dirs, part : {1, 2}] /\ prep'.dir = prep.dir
      /\ \/ prep.part = 1 /\ prep'.pc = "concatenate" /\ prep'.part = 2
         \/ prep.part = 2 /\ prep'.pc = "loop"
  <2>1. prep' = IF prep.part = 1 THEN [prep EXCEPT !.part = 2] ELSE [prep EXCEPT !.pc = "loop"]
    BY DEF Concatenate
  <2>2. prep \in [pc : CorpusPhases, dir : Dirs, part : {1, 2}]
    BY DEF CorpusTypeOK
  <2>3. CASE prep.part = 1
    BY <2>1, <2>2, <2>3, <1>a
  <2>4. CASE prep.part = 2
    BY <2>1, <2>2, <2>4, <1>a
  <2> QED
    BY <2>2, <2>3, <2>4
<1>c. Target \in Data /\ part \in FileNames /\ part \notin Data /\ version \in Nat \ {0} /\ part # "doc" /\ Target' = Target
  BY <1>a DEF Target, Data, FileNames, CorpusTypeOK
<1>d. joined = [v |-> version, n |-> IF prep.part = 1 THEN 1 ELSE Size(version)]
  BY <1>a, <1>c DEF PartsAreCurrent, At, Size, CorpusTypeOK
<1>e. files' = [files EXCEPT !["corpus"][Target] = joined, !["corpus"][part] = Absent]
  BY DEF Concatenate
<1> HIDE DEF part, before, joined
<1>f. joined \in Contents /\ Absent \in Contents
  BY <1>c, <1>d, FileTypes DEF Size
<1>g. /\ files' \in [Dirs -> [FileNames -> Contents]] /\ files'["corpus"][Target] = joined
      /\ \A d \in Dirs, f \in FileNames : d # "corpus" \/ f \notin {Target, part} => files'[d][f] = files[d][f]
  BY <1>c, <1>e, <1>f, DirectoryNames DEF CorpusTypeOK
<1>h. /\ files'["workload"]["doc"] = files["workload"]["doc"]
      /\ \A d \in Dirs, f \in Data : files'[d][f] = files[d][f] \/ (d = "corpus" /\ f = Target /\ files'[d][f] = joined)
  BY <1>c, <1>g, DirectoryNames
<1>i. (Target = "doc" /\ DocumentChanged("corpus")) \/ (Target # "doc" /\ UNCHANGED table)
  BY DEF Concatenate
<1>j. table' \in [Dirs -> [v : Int, fresh : BOOLEAN]] /\ TablesBelong'
  <2>1. Outdates("corpus") \/ KeepsDocuments
    BY <1>h, <1>i, DirectoryNames DEF Outdates, KeepsDocuments
  <2> QED
    BY <2>1, <1>a, <1>b, TablesOfWritten, DirectoryNames
<1>k. joined.v = version /\ joined.n \in 0 .. Size(version) /\ (prep.part = 2 => joined.n = Size(version))
  BY <1>c, <1>d DEF Size
<1>1. CorpusTypeOK'
  BY <1>a, <1>b, <1>g, <1>j DEF CorpusTypeOK
<1>2. FilesAreGenuine'
  BY <1>a, <1>c, <1>h, <1>k DEF FilesAreGenuine, Genuine
<1>3. DirectoryIsRight'
  BY <1>a, <1>b, <1>h DEF DirectoryIsRight
<1>4. PhaseIsKnown'
  BY <1>b DEF PhaseIsKnown, At
<1>5. PartsAreCurrent'
  <2>1. prep.part = 1 => /\ files'["corpus"]["part2"].n = version
                          /\ files'["corpus"][Target] = [v |-> version, n |-> 1]
    BY <1>a, <1>c, <1>d, <1>g, DirectoryNames DEF part, PartsAreCurrent, At
  <2> QED
    BY <2>1, <1>a, <1>b, <1>c DEF PartsAreCurrent, At
<1>6. IncompleteIsWritten'
  <2> SUFFICES ASSUME ~ cut, NEW d \in Dirs, NEW f \in Data PROVE Complete(files'[d][f]) \/ BeingWritten(d, f)'
    BY <1>a DEF IncompleteIsWritten, Complete
  <2>1. CASE files'[d][f] = files[d][f] /\ ~ (d = "corpus" /\ f = Target)
    BY <2>1, <1>a DEF IncompleteIsWritten, BeingWritten, At
  <2>2. CASE d = "corpus" /\ f = Target /\ prep.part = 1
    BY <2>2, <1>b, <1>c DEF BeingWritten, At
  <2>3. CASE d = "corpus" /\ f = Target /\ prep.part = 2
    BY <2>3, <1>g, <1>k DEF Complete
  <2> QED
    BY <2>1, <2>2, <2>3, <1>b, <1>h
<1>7. TablesBelong'
  BY <1>j
<1> QED
  BY <1>1, <1>2, <1>3, <1>4, <1>5, <1>6, <1>7

LEMMA Decompressing == CorpusInv /\ decompress => CorpusInv'
<1> SUFFICES ASSUME CorpusInv, decompress PROVE CorpusInv'
  OBVIOUS
<1> USE DEF CorpusInv
<1>a. /\ UNCHANGED <<conf, version, diskFaults, cut>> /\ prep.pc = "decompress"
      /\ DocumentChanged(prep.dir) /\ "extract" \in CorpusPhases /\ diskFaults' \in Nat
  BY DEF decompress, UnchangedDisk, At, CorpusPhases, CorpusTypeOK
<1> DEFINE new == [v |-> Archive.v, n |-> 0]
<1>c. GoTo("extract") /\ Write(prep.dir, "doc", new)
  BY DEF decompress
<1>b. /\ prep' \in [pc : CorpusPhases, dir : Dirs, part : {1, 2}] /\ prep'.dir = prep.dir /\ prep'.part = prep.part
      /\ prep'.pc = "extract"
  BY <1>a, <1>c, PreparationMoves
<1>d. prep.dir \in Dirs /\ new \in Contents /\ Archive.v \in Int /\ Archive.n \in Int /\ version \in Nat
  BY DocumentTypes, FileTypes DEF CorpusTypeOK
<1>j. Archive # Absent /\ Archive.v \in 1 .. version /\ Archive.n \in 0 .. Size(Archive.v)
  BY <1>a, <1>d, DirectoryNames DEF PhaseIsKnown, FilesAreGenuine, Genuine, Archive
<1>h. /\ new.v = Archive.v /\ new.n \in 0 .. Archive.n /\ new.v \in 1 .. version /\ new.n \in 0 .. Size(new.v)
      /\ Archive # Absent
  BY <1>d, <1>j DEF Size
<1>e. Write(prep.dir, "doc", new)
  BY <1>c
<1> HIDE DEF new
<1>f. /\ files' \in [Dirs -> [FileNames -> Contents]] /\ files'[prep.dir]["doc"] = new
      /\ \A d \in Dirs, f \in FileNames : d # prep.dir \/ f # "doc" => files'[d][f] = files[d][f]
  BY <1>d, <1>e, FileWritten, DirectoryNames
<1>g. /\ \A d \in Dirs, f \in Data : files'[d][f] = files[d][f] \/ (d = prep.dir /\ f = "doc" /\ files'[d][f] = new)
      /\ prep.dir # "workload" => files'["workload"]["doc"] = files["workload"]["doc"]
      /\ Archive' = Archive
  BY <1>b, <1>d, <1>f, DirectoryNames DEF Archive
<1>i. table' \in [Dirs -> [v : Int, fresh : BOOLEAN]] /\ TablesBelong'
  <2>1. Outdates(prep.dir)
    BY <1>a, <1>f, DirectoryNames DEF Outdates
  <2> QED
    BY <2>1, <1>a, <1>b, <1>d, TablesOfWritten
<1>1. CorpusTypeOK'
  BY <1>a, <1>b, <1>f, <1>i DEF CorpusTypeOK
<1>2. FilesAreGenuine'
  BY <1>a, <1>g, <1>h DEF FilesAreGenuine, Genuine
<1>3. DirectoryIsRight'
  BY <1>a, <1>b, <1>g DEF DirectoryIsRight
<1>4. PhaseIsKnown'
  BY <1>a, <1>b, <1>f, <1>g, <1>h DEF PhaseIsKnown, At, Document, Archive
<1>5. PartsAreCurrent'
  BY <1>a, <1>b DEF PartsAreCurrent, At
<1>6. IncompleteIsWritten'
  BY <1>a, <1>b, <1>g DEF IncompleteIsWritten, Complete, BeingWritten, At
<1>7. TablesBelong'
  BY <1>i
<1> QED
  BY <1>1, <1>2, <1>3, <1>4, <1>5, <1>6, <1>7

LEMMA ExtractingDocs == CorpusInv /\ Extract => CorpusInv'
<1> SUFFICES ASSUME CorpusInv, Extract PROVE CorpusInv'
  OBVIOUS
<1> USE DEF CorpusInv
<1>a. /\ UNCHANGED <<conf, version, cut, prep>> /\ prep.pc = "extract" /\ Document.n < Archive.n
      /\ DocumentChanged(prep.dir) /\ diskFaults' \in Nat
  BY DEF Extract, UnchangedDisk, Fault, At, CorpusTypeOK
<1>c. PICK new : /\ Write(prep.dir, "doc", new)
                 /\ new \in {[Document EXCEPT !.n = @ + 1], [Document EXCEPT !.n = 0]}
  BY DEF Extract
<1>b. /\ prep' \in [pc : CorpusPhases, dir : Dirs, part : {1, 2}] /\ prep'.dir = prep.dir /\ prep'.part = prep.part
      /\ prep'.pc = "extract"
  BY <1>a DEF CorpusTypeOK
<1>j. /\ prep.dir \in Dirs /\ Document \in Contents /\ Document.n \in Int /\ Archive.v \in Int /\ Archive.n \in Int
      /\ version \in Nat
  BY DocumentTypes DEF CorpusTypeOK
<1>k. new \in Contents /\ new.v = Document.v /\ new.n \in {Document.n + 1, 0}
  BY <1>c, <1>j DEF Contents
<1>d. prep.dir \in Dirs /\ new \in Contents
  BY <1>j, <1>k
<1>l. Archive # Absent /\ Archive.v \in 1 .. version /\ Archive.n \in 0 .. Size(Archive.v)
  BY <1>a, <1>j, DirectoryNames DEF PhaseIsKnown, FilesAreGenuine, Genuine, Archive
<1>m. Document.v = Archive.v /\ Document.n \in 0 .. Archive.n
  BY <1>a DEF PhaseIsKnown, At
<1>h. /\ new.v = Archive.v /\ new.n \in 0 .. Archive.n /\ new.v \in 1 .. version /\ new.n \in 0 .. Size(new.v)
      /\ Archive # Absent
  BY <1>a, <1>j, <1>k, <1>l, <1>m DEF Size
<1>e. Write(prep.dir, "doc", new)
  BY <1>c
<1>f. /\ files' \in [Dirs -> [FileNames -> Contents]] /\ files'[prep.dir]["doc"] = new
      /\ \A d \in Dirs, f \in FileNames : d # prep.dir \/ f # "doc" => files'[d][f] = files[d][f]
  BY <1>d, <1>e, FileWritten, DirectoryNames
<1>g. /\ \A d \in Dirs, f \in Data : files'[d][f] = files[d][f] \/ (d = prep.dir /\ f = "doc" /\ files'[d][f] = new)
      /\ prep.dir # "workload" => files'["workload"]["doc"] = files["workload"]["doc"]
      /\ Archive' = Archive
  BY <1>b, <1>d, <1>f, DirectoryNames DEF Archive
<1>i. table' \in [Dirs -> [v : Int, fresh : BOOLEAN]] /\ TablesBelong'
  <2>1. Outdates(prep.dir)
    BY <1>a, <1>f, DirectoryNames DEF Outdates
  <2> QED
    BY <2>1, <1>a, <1>b, <1>d, TablesOfWritten
<1>1. CorpusTypeOK'
  BY <1>a, <1>b, <1>f, <1>i DEF CorpusTypeOK
<1>2. FilesAreGenuine'
  BY <1>a, <1>g, <1>h DEF FilesAreGenuine, Genuine
<1>3. DirectoryIsRight'
  BY <1>a, <1>b, <1>g DEF DirectoryIsRight
<1>4. PhaseIsKnown'
  BY <1>a, <1>b, <1>f, <1>g, <1>h DEF PhaseIsKnown, At, Document, Archive
<1>5. PartsAreCurrent'
  BY <1>a, <1>b DEF PartsAreCurrent, At
<1>6. IncompleteIsWritten'
  BY <1>a, <1>b, <1>g DEF IncompleteIsWritten, Complete, BeingWritten, At
<1>7. TablesBelong'
  BY <1>i
<1> QED
  BY <1>1, <1>2, <1>3, <1>4, <1>5, <1>6, <1>7

\* A document with the size of the current version is of that version.
LEMMA CurrentDocument ==
    ASSUME CorpusInv, prep.pc \in {"table", "build", "building", "done"}
    PROVE  /\ Document # Absent /\ Document.v \in 1 .. version
           /\ conf.sizes => Document = [v |-> version, n |-> Size(version)]
<1>1. Document # Absent /\ (conf.sizes => Document.n = Size(version))
  BY DEF CorpusInv, PhaseIsKnown
<1>2. Document \in Contents /\ Document.v \in Int /\ Document.n \in Int /\ version \in Nat
  BY DocumentTypes DEF CorpusInv, CorpusTypeOK
<1>3. Document.v \in 1 .. version /\ Document.n \in 0 .. Size(Document.v)
  BY <1>1, DocumentTypes, DirectoryNames DEF CorpusInv, FilesAreGenuine, Genuine, Document
<1>4. conf.sizes => Document.v = version
  BY <1>1, <1>2, <1>3 DEF Size
<1> QED
  BY <1>1, <1>2, <1>3, <1>4 DEF Contents

\* Writing one field of the table of a directory
LEMMA TableWritten ==
    ASSUME CorpusTypeOK, NEW d \in Dirs, NEW t \in [v : Int, fresh : BOOLEAN], table' = [table EXCEPT ![d] = t]
    PROVE  /\ table' \in [Dirs -> [v : Int, fresh : BOOLEAN]] /\ table'[d] = t
           /\ \A e \in Dirs : e # d => table'[e] = table[e]
BY DEF CorpusTypeOK

LEMMA LookingForTable == CorpusInv /\ prepare_file_offset_table => CorpusInv'
<1> SUFFICES ASSUME CorpusInv, prepare_file_offset_table PROVE CorpusInv'
  OBVIOUS
<1> USE DEF CorpusInv
<1>a. /\ UNCHANGED <<conf, version, cut, files>> /\ diskFaults' \in Nat /\ prep.pc = "table"
      /\ {"done", "failed", "build"} \subseteq CorpusPhases
  BY DEF prepare_file_offset_table, UnchangedDisk, Fault, At, CorpusPhases, CorpusTypeOK
<1>v. /\ prep.dir \in Dirs /\ table[prep.dir] \in [v : Int, fresh : BOOLEAN] /\ Document.v \in 1 .. version
      /\ version \in Nat /\ (conf.sizes => Document.v = version)
  BY <1>a, CurrentDocument DEF CorpusTypeOK
<1> DEFINE new == [v |-> version, fresh |-> TRUE]
<1>c. \/ UNCHANGED table /\ ((is_valid(prep.dir) /\ GoTo("done")) \/ GoTo("failed") \/ GoTo("build"))
      \/ UNCHANGED prep /\ table' = [table EXCEPT ![prep.dir] = new]
  BY DEF prepare_file_offset_table
<1>b. /\ prep' \in [pc : CorpusPhases, dir : Dirs, part : {1, 2}] /\ prep'.dir = prep.dir /\ prep'.part = prep.part
      /\ prep'.pc \in {"table", "failed", "build", "done"}
      /\ prep'.pc = "done" => is_valid(prep.dir) /\ UNCHANGED table
  BY <1>a, <1>c, PreparationMoves DEF CorpusTypeOK
<1>d. new \in [v : Int, fresh : BOOLEAN] /\ new.v = version
  BY <1>v
<1> HIDE DEF new
<1>t. /\ table' \in [Dirs -> [v : Int, fresh : BOOLEAN]] /\ table'[prep.dir] \in {table[prep.dir], new} /\ new.v = version
      /\ \A e \in Dirs : e # prep.dir => table'[e] = table[e]
  BY <1>c, <1>d, <1>v, TableWritten DEF CorpusTypeOK
<1>1. CorpusTypeOK'
  BY <1>a, <1>b, <1>t DEF CorpusTypeOK
<1>2. FilesAreGenuine'
  BY <1>a, FilesLeftAlone
<1>3. DirectoryIsRight'
  BY <1>a, <1>b DEF DirectoryIsRight
<1>4. PhaseIsKnown'
  BY <1>a, <1>b DEF PhaseIsKnown, At, Document, Archive
<1>5. PartsAreCurrent'
  BY <1>a, <1>b DEF PartsAreCurrent, At, RemoteSize, PartSize, Target, Size
<1>6. IncompleteIsWritten'
  BY <1>a, <1>b DEF IncompleteIsWritten, Complete, BeingWritten, At, Target
<1>7. TablesBelong'
  <2>1. conf.sizes /\ ~ conf.tar => \A d \in Dirs : TableBelongs(d)'
    BY <1>a, <1>b, <1>t, <1>v DEF TablesBelong, TableBelongs, is_valid, At, Document
  <2> QED
    BY <2>1, <1>a, <1>b, <1>t, <1>v DEF TablesBelong, is_valid, At
<1> QED
  BY <1>1, <1>2, <1>3, <1>4, <1>5, <1>6, <1>7

LEMMA OpeningTable == CorpusInv /\ BuildTable => CorpusInv'
<1> SUFFICES ASSUME CorpusInv, BuildTable PROVE CorpusInv'
  OBVIOUS
<1> USE DEF CorpusInv
<1>a. /\ UNCHANGED <<conf, version, diskFaults, cut, files>> /\ prep.pc = "build"
      /\ "building" \in CorpusPhases
  BY DEF BuildTable, UnchangedDisk, At, CorpusPhases
<1>v. /\ prep.dir \in Dirs /\ table[prep.dir] \in [v : Int, fresh : BOOLEAN] /\ Document.v \in 1 .. version
      /\ version \in Nat /\ (conf.sizes => Document.v = version)
  BY <1>a, CurrentDocument DEF CorpusTypeOK
<1> DEFINE new == [v |-> Torn, fresh |-> TRUE]
<1>c. GoTo("building") /\ table' = [table EXCEPT ![prep.dir] = new]
  BY DEF BuildTable
<1>b. /\ prep' \in [pc : CorpusPhases, dir : Dirs, part : {1, 2}] /\ prep'.dir = prep.dir /\ prep'.part = prep.part
      /\ prep'.pc = "building"
  BY <1>a, <1>c, PreparationMoves
<1>d. new \in [v : Int, fresh : BOOLEAN] /\ new.v = Torn /\ new.fresh
  BY DEF Torn
<1> HIDE DEF new
<1>t. /\ table' \in [Dirs -> [v : Int, fresh : BOOLEAN]] /\ table'[prep.dir] = new /\ new.v = Torn /\ new.fresh
      /\ \A e \in Dirs : e # prep.dir => table'[e] = table[e]
  BY <1>c, <1>d, <1>v, TableWritten
<1>1. CorpusTypeOK'
  BY <1>a, <1>b, <1>t DEF CorpusTypeOK
<1>2. FilesAreGenuine'
  BY <1>a, FilesLeftAlone
<1>3. DirectoryIsRight'
  BY <1>a, <1>b DEF DirectoryIsRight
<1>4. PhaseIsKnown'
  BY <1>a, <1>b DEF PhaseIsKnown, At, Document, Archive
<1>5. PartsAreCurrent'
  BY <1>a, <1>b DEF PartsAreCurrent, At, RemoteSize, PartSize, Target, Size
<1>6. IncompleteIsWritten'
  BY <1>a, <1>b DEF IncompleteIsWritten, Complete, BeingWritten, At, Target
<1>7. TablesBelong'
  <2>1. conf.sizes /\ ~ conf.tar => \A d \in Dirs : TableBelongs(d)'
    BY <1>a, <1>b, <1>t, <1>v DEF TablesBelong, TableBelongs, is_valid, At, Document
  <2> QED
    BY <2>1, <1>a, <1>b, <1>t, <1>v DEF TablesBelong, is_valid, At
<1> QED
  BY <1>1, <1>2, <1>3, <1>4, <1>5, <1>6, <1>7

LEMMA WritingTable == CorpusInv /\ create_file_offset_table => CorpusInv'
<1> SUFFICES ASSUME CorpusInv, create_file_offset_table PROVE CorpusInv'
  OBVIOUS
<1> USE DEF CorpusInv
<1>a. /\ UNCHANGED <<conf, version, diskFaults, cut, files>> /\ prep.pc = "building"
      /\ {"failed", "done"} \subseteq CorpusPhases /\ table[prep.dir].fresh
  BY DEF create_file_offset_table, UnchangedDisk, At, CorpusPhases, TablesBelong
<1>v. /\ prep.dir \in Dirs /\ table[prep.dir] \in [v : Int, fresh : BOOLEAN] /\ Document.v \in 1 .. version
      /\ version \in Nat /\ (conf.sizes => Document.v = version)
  BY <1>a, CurrentDocument DEF CorpusTypeOK
<1> DEFINE new(v) == [table[prep.dir] EXCEPT !.v = v]
<1>c. \/ GoTo("failed") /\ table' = [table EXCEPT ![prep.dir] = new(0)]
      \/ GoTo("done") /\ table' = [table EXCEPT ![prep.dir] = new(Document.v)]
  BY DEF create_file_offset_table
<1>d. \A v \in Int : new(v) \in [v : Int, fresh : BOOLEAN] /\ new(v).v = v /\ new(v).fresh
  BY <1>a, <1>v
<1> HIDE DEF new
<1>b. /\ prep' \in [pc : CorpusPhases, dir : Dirs, part : {1, 2}] /\ prep'.dir = prep.dir /\ prep'.part = prep.part
      /\ prep'.pc \in {"failed", "done"}
  BY <1>a, <1>c, PreparationMoves
<1>t. /\ table' \in [Dirs -> [v : Int, fresh : BOOLEAN]] /\ table'[prep.dir].fresh
      /\ table'[prep.dir].v = IF prep'.pc = "done" THEN Document.v ELSE 0
      /\ \A e \in Dirs : e # prep.dir => table'[e] = table[e]
  <2>1. 0 \in Int /\ Document.v \in Int
    BY <1>v
  <2>2. CASE GoTo("failed") /\ table' = [table EXCEPT ![prep.dir] = new(0)]
    BY <2>1, <2>2, <1>a, <1>d, <1>v, TableWritten, PreparationMoves
  <2>3. CASE GoTo("done") /\ table' = [table EXCEPT ![prep.dir] = new(Document.v)]
    BY <2>1, <2>3, <1>a, <1>d, <1>v, TableWritten, PreparationMoves
  <2> QED
    BY <2>2, <2>3, <1>c
<1>1. CorpusTypeOK'
  BY <1>a, <1>b, <1>t DEF CorpusTypeOK
<1>2. FilesAreGenuine'
  BY <1>a, FilesLeftAlone
<1>3. DirectoryIsRight'
  BY <1>a, <1>b DEF DirectoryIsRight
<1>4. PhaseIsKnown'
  BY <1>a, <1>b DEF PhaseIsKnown, At, Document, Archive
<1>5. PartsAreCurrent'
  BY <1>a, <1>b DEF PartsAreCurrent, At, RemoteSize, PartSize, Target, Size
<1>6. IncompleteIsWritten'
  BY <1>a, <1>b DEF IncompleteIsWritten, Complete, BeingWritten, At, Target
<1>7. TablesBelong'
  <2>1. conf.sizes /\ ~ conf.tar => \A d \in Dirs : TableBelongs(d)'
    BY <1>a, <1>b, <1>t, <1>v DEF TablesBelong, TableBelongs, is_valid, At, Document
  <2> QED
    BY <2>1, <1>a, <1>b, <1>t, <1>v DEF TablesBelong, is_valid, At
<1> QED
  BY <1>1, <1>2, <1>3, <1>4, <1>5, <1>6, <1>7

\* A step that is broken off leaves an incomplete file, or a cut table, only where one was being written.
LEMMA BrokenOff ==
    ASSUME CorpusInv, BreaksOff, NEW p \in {"idle", "failed"}, GoTo(p)
    PROVE  CorpusInv'
<1> USE DEF CorpusInv
<1> DEFINE part == IF prep.part = 1 THEN "part1" ELSE "part2"
           before == IF prep.part = 1 THEN 0 ELSE files["corpus"][Target].n
<1>a. /\ UNCHANGED <<conf, version>> /\ cut' = (cut \/ WritesInPlace) /\ diskFaults' \in Nat /\ LeftBehind
      /\ p \in CorpusPhases
  BY DEF BreaksOff, CorpusPhases, CorpusTypeOK
<1>b. /\ prep' \in [pc : CorpusPhases, dir : Dirs, part : {1, 2}] /\ prep'.pc \in {"idle", "failed"}
  BY <1>a, PreparationMoves
<1>c. table \in [Dirs -> [v : Int, fresh : BOOLEAN]] /\ prep.dir \in Dirs /\ Document.v \in Int
  BY DocumentTypes DEF CorpusTypeOK
<1>d. \/ UNCHANGED <<files, table>>
      \/ /\ At("concatenate") /\ (Outdates("corpus") \/ KeepsDocuments)
         /\ \E n \in 0 .. Size(version) : Write("corpus", Target, [v |-> version, n |-> n])
      \/ At("building") /\ table' = [table EXCEPT ![prep.dir].v = Document.v] /\ UNCHANGED files
  <2>1. ASSUME At("concatenate"), NEW n \in before .. before + files["corpus"][part].n,
               Write("corpus", Target, [v |-> version, n |-> n]),
               IF Target = "doc" THEN DocumentChanged("corpus") ELSE UNCHANGED table
        PROVE  (Outdates("corpus") \/ KeepsDocuments) /\ n \in 0 .. Size(version)
    <3>1. /\ Target \in Data /\ version \in Nat \ {0} /\ [v |-> version, n |-> n] \in Contents
      <4>1. before \in Int /\ files["corpus"][part].n \in Int
        BY <2>1, DirectoryNames, FileTypes DEF PartsAreCurrent, Target
      <4> QED
        BY <4>1, FileTypes DEF Target, Data, CorpusTypeOK
    <3>2. n \in 0 .. Size(version)
      BY <2>1, <3>1 DEF PartsAreCurrent, Size
    <3>3. \A e \in Dirs, g \in FileNames : e # "corpus" \/ g # Target => files'[e][g] = files[e][g]
      BY <2>1, <3>1, FileWritten, DirectoryNames
    <3> QED
      BY <2>1, <3>2, <3>3, DirectoryNames DEF Outdates, KeepsDocuments
  <2> QED
    BY <2>1, <1>a DEF LeftBehind
<1> HIDE DEF part, before
<1> DEFINE Partial(c) == cut' /\ c.v = version /\ c.n \in 0 .. Size(version)
<1>e. /\ files' \in [Dirs -> [FileNames -> Contents]]
      /\ \A d \in Dirs, f \in Data : files'[d][f] = files[d][f] \/ Partial(files'[d][f])
  <2>1. ASSUME At("concatenate"), NEW n \in 0 .. Size(version), Write("corpus", Target, [v |-> version, n |-> n])
        PROVE  /\ files' \in [Dirs -> [FileNames -> Contents]]
               /\ \A d \in Dirs, f \in Data : files'[d][f] = files[d][f] \/ Partial(files'[d][f])
    <3>1. Target \in Data /\ version \in Int /\ Size(version) \in Int
      BY DEF Target, Data, CorpusTypeOK, Size
    <3>4. cut'
      BY <2>1, <1>a DEF WritesInPlace, At
    <3>2. [v |-> version, n |-> n] \in Contents
      BY <2>1, <3>1, FileTypes
    <3>3. /\ files' \in [Dirs -> [FileNames -> Contents]] /\ files'["corpus"][Target] = [v |-> version, n |-> n]
          /\ \A d \in Dirs, f \in FileNames : d # "corpus" \/ f # Target => files'[d][f] = files[d][f]
      BY <2>1, <3>1, <3>2, FileWritten, DirectoryNames
    <3> QED
      BY <2>1, <3>1, <3>3, <3>4, DirectoryNames
  <2> QED
    BY <2>1, <1>d DEF CorpusTypeOK
<1>f. table' \in [Dirs -> [v : Int, fresh : BOOLEAN]] /\ TablesBelong'
  <2>1. CASE UNCHANGED <<files, table>>
    BY <2>1, <1>a, <1>b, <1>c DEF TablesBelong, TableBelongs, is_valid, At, WritesInPlace
  <2>2. CASE At("concatenate") /\ (Outdates("corpus") \/ KeepsDocuments)
    <3>1. table' \in [Dirs -> [v : Int, fresh : BOOLEAN]]
      BY <2>2, <1>c DEF Outdates, KeepsDocuments, DocumentChanged
    <3>2. ASSUME NEW e \in Dirs, is_valid(e)'
          PROVE  is_valid(e) /\ table'[e] = table[e] /\ files'[e]["doc"] = files[e]["doc"]
      BY <1>c, <2>2, <3>2 DEF is_valid, Outdates, KeepsDocuments, DocumentChanged
    <3>3. conf.sizes /\ ~ conf.tar => \A e \in Dirs : TableBelongs(e)'
      BY <3>2, <2>2, <1>a DEF TableBelongs, TablesBelong, At
    <3> QED
      BY <3>1, <3>3, <1>a, <1>b DEF TablesBelong, At
  <2>3. CASE At("building") /\ table' = [table EXCEPT ![prep.dir].v = Document.v] /\ UNCHANGED files
    <3>1. table' \in [Dirs -> [v : Int, fresh : BOOLEAN]]
      BY <2>3, <1>c
    <3>2. ASSUME conf.sizes, ~ conf.tar, NEW d \in Dirs PROVE TableBelongs(d)'
      <4>1. CASE d = prep.dir
        BY <4>1, <2>3, <1>c DEF TableBelongs, Document
      <4>2. CASE d # prep.dir
        <5>1. table'[d] = table[d]
          BY <4>2, <2>3, <1>c
        <5>2. TableBelongs(d) /\ (cut => cut')
          BY <1>a, <3>2 DEF TablesBelong
        <5> QED
          BY <5>1, <5>2, <4>2, <2>3 DEF TableBelongs, is_valid
      <4> QED
        BY <4>1, <4>2
    <3> QED
      BY <3>1, <3>2, <1>a, <1>b DEF TablesBelong, At
  <2> QED
    BY <2>1, <2>2, <2>3, <1>d
<1>1. CorpusTypeOK'
  <2>1. cut' \in BOOLEAN
    BY <1>a DEF CorpusTypeOK
  <2> QED
    BY <2>1, <1>a, <1>b, <1>e, <1>f DEF CorpusTypeOK
<1>2. FilesAreGenuine'
  <2>1. version \in 1 .. version
    BY DEF CorpusTypeOK
  <2> QED
    BY <2>1, <1>a, <1>e DEF FilesAreGenuine, Genuine
<1>3. DirectoryIsRight'
  BY <1>b DEF DirectoryIsRight
<1>4. PhaseIsKnown'
  BY <1>b DEF PhaseIsKnown, At
<1>5. PartsAreCurrent'
  BY <1>b DEF PartsAreCurrent, At
<1>6. IncompleteIsWritten'
  BY <1>a, <1>e DEF IncompleteIsWritten, Complete, BeingWritten, At, WritesInPlace
<1>7. TablesBelong'
  BY <1>f
<1> QED
  BY <1>1, <1>2, <1>3, <1>4, <1>5, <1>6, <1>7

LEMMA WritingFailed == CorpusInv /\ WriteFails => CorpusInv'
BY BrokenOff DEF WriteFails

LEMMA PreparationKilled == CorpusInv /\ Kill => CorpusInv'
BY BrokenOff DEF Kill

LEMMA NewVersion == CorpusInv /\ Publish => CorpusInv'
<1> SUFFICES ASSUME CorpusInv, Publish PROVE CorpusInv'
  OBVIOUS
<1> USE DEF CorpusInv
<1>a. /\ UNCHANGED <<conf, files, table, diskFaults, cut>> /\ version' = version + 1
      /\ "idle" \in CorpusPhases /\ GoTo("idle") /\ prep.pc \in {"idle", "failed", "done"}
  BY DEF Publish, CorpusPhases
<1>b. prep' \in [pc : CorpusPhases, dir : Dirs, part : {1, 2}] /\ prep'.pc = "idle"
  BY <1>a, PreparationMoves
<1>c. version \in Nat \ {0}
  BY DEF CorpusTypeOK
<1>1. CorpusTypeOK'
  BY <1>a, <1>b, <1>c DEF CorpusTypeOK
<1>2. FilesAreGenuine'
  BY <1>a, <1>c DEF FilesAreGenuine, Genuine
<1>3. DirectoryIsRight'
  BY <1>b DEF DirectoryIsRight
<1>4. PhaseIsKnown'
  BY <1>b DEF PhaseIsKnown, At
<1>5. PartsAreCurrent'
  BY <1>b DEF PartsAreCurrent, At
<1>6. IncompleteIsWritten'
  BY <1>a, <1>b DEF IncompleteIsWritten, BeingWritten, Complete, At
<1>7. TablesBelong'
  BY <1>a, <1>b DEF TablesBelong, TableBelongs, is_valid, At
<1> QED
  BY <1>1, <1>2, <1>3, <1>4, <1>5, <1>6, <1>7

LEMMA CorpusBegins == CorpusInit => CorpusInv
<1> SUFFICES ASSUME CorpusInit PROVE CorpusInv
  OBVIOUS
<1>1. PICK bundled \in SUBSET {"doc", "archive"} :
        files = [d \in {"workload", "corpus"} |-> [f \in {"doc", "archive", "tmp", "part1", "part2"} |->
                IF d = "workload" /\ f \in bundled THEN [v |-> 1, n |-> Size(1)] ELSE Absent]]
  BY DEF CorpusInit
<1> DEFINE whole == [v |-> 1, n |-> Size(1)]
<1>2. whole \in Contents /\ Absent \in Contents /\ whole.v = 1 /\ whole.n = Size(1) /\ Size(1) = 2
  BY DEF Contents, Absent, Size
<1> HIDE DEF whole
<1>3. \A d \in Dirs, f \in FileNames : files[d][f] \in {whole, Absent}
  BY <1>1 DEF Dirs, FileNames, whole
<1>4. files \in [Dirs -> [FileNames -> Contents]]
  BY <1>1, <1>2 DEF Dirs, FileNames, whole
<1>5. /\ conf \in DocumentSets /\ version = 1 /\ diskFaults = 0 /\ cut = FALSE
      /\ prep = [pc |-> "idle", dir |-> "corpus", part |-> 1]
      /\ table = [d \in Dirs |-> [v |-> 0, fresh |-> FALSE]]
  BY DEF CorpusInit, Dirs
<1>6. CorpusTypeOK
  <2>1. prep \in [pc : CorpusPhases, dir : Dirs, part : {1, 2}]
    BY <1>5, DirectoryNames DEF CorpusPhases
  <2>2. table \in [Dirs -> [v : Int, fresh : BOOLEAN]]
    BY <1>5
  <2>3. version \in Nat \ {0} /\ diskFaults \in Nat
    BY <1>5
  <2>4. cut \in BOOLEAN
    BY <1>5
  <2> QED
    BY <2>1, <2>2, <2>3, <2>4, <1>4, <1>5 DEF CorpusTypeOK
<1>7. FilesAreGenuine /\ IncompleteIsWritten
  BY <1>2, <1>3, <1>5, DirectoryNames DEF FilesAreGenuine, Genuine, IncompleteIsWritten, Complete
<1>8. DirectoryIsRight /\ PhaseIsKnown /\ PartsAreCurrent
  BY <1>5 DEF DirectoryIsRight, PhaseIsKnown, PartsAreCurrent, At
<1>9. TablesBelong
  BY <1>5 DEF TablesBelong, TableBelongs, is_valid, At
<1> QED
  BY <1>6, <1>7, <1>8, <1>9 DEF CorpusInv

LEMMA CorpusStays == CorpusInv /\ UNCHANGED corpusVars => CorpusInv'
<1> SUFFICES ASSUME CorpusInv, UNCHANGED corpusVars PROVE CorpusInv'
  OBVIOUS
<1> USE DEF CorpusInv, corpusVars
<1>1. CorpusTypeOK'
  BY DEF CorpusTypeOK
<1>2. FilesAreGenuine'
  BY DEF FilesAreGenuine, Genuine
<1>3. DirectoryIsRight' /\ PhaseIsKnown'
  BY DEF DirectoryIsRight, PhaseIsKnown, At, Document, Archive
<1>4. PartsAreCurrent'
  BY DEF PartsAreCurrent, At, RemoteSize, PartSize, Target
<1>5. IncompleteIsWritten'
  BY DEF IncompleteIsWritten, Complete, BeingWritten, At, Target
<1>6. TablesBelong'
  BY DEF TablesBelong, TableBelongs, is_valid, At
<1> QED
  BY <1>1, <1>2, <1>3, <1>4, <1>5, <1>6

LEMMA PreparedFollows == CorpusInv => PreparedIsUsable
<1> SUFFICES ASSUME CorpusInv, Prepared PROVE PreparedIsUsable
  BY DEF PreparedIsUsable, PreparedIsCurrent, UndeclaredIsComplete, TableMatchesDocument
<1>1. prep.pc = "done" /\ prep.dir \in Dirs
  BY DEF Prepared, At, CorpusInv, CorpusTypeOK
<1>2. Document # Absent /\ (conf.sizes => Document = [v |-> version, n |-> Size(version)])
  BY <1>1, CurrentDocument
<1>3. set_absolute_data_path = prep.dir
  BY <1>1, <1>2 DEF set_absolute_data_path, is_locally_available, CorpusInv, DirectoryIsRight, Document, Dirs
<1>4. Opened = Document
  BY <1>3 DEF Opened, Document
<1>5. PreparedIsCurrent
  BY <1>2, <1>4 DEF PreparedIsCurrent
<1>6. UndeclaredIsComplete
  <2>1. ~ cut => Complete(Document)
    BY <1>1, DirectoryNames DEF CorpusInv, IncompleteIsWritten, BeingWritten, At, Document
  <2> QED
    BY <2>1, <1>2, <1>4 DEF UndeclaredIsComplete, Complete
<1>7. TableMatchesDocument
  BY <1>1, <1>3, <1>4 DEF TableMatchesDocument, CorpusInv, TablesBelong, TableBelongs, At, Document
<1> QED
  BY <1>5, <1>6, <1>7 DEF PreparedIsUsable

(***************************************************************************)
(* For any document set, any number of corpus versions, kills, broken      *)
(* connections and errors while files are written: what                    *)
(* prepare_document_set calls prepared is the complete document file of    *)
(* the declared version where the corpus declares sizes, an incomplete one *)
(* only after a concatenation, decompression or table was broken off where *)
(* it does not, and the offset table belongs to the file unless it was cut *)
(* so or the file came from a tar archive.                                 *)
(***************************************************************************)
THEOREM CorpusIsUsable == CorpusSpec => []PreparedIsUsable
<1>1. CorpusInv /\ [PreparationStep \/ Kill \/ Publish]_corpusVars => CorpusInv'
  BY StartingPreparation, PreparingBundled, PreparingDocumentSet, DownloadingDocs, Receiving, ReceivedAll, Concatenating,
     Decompressing, ExtractingDocs, ExtractionEnds, LookingForTable, OpeningTable, WritingTable, WritingFailed, PreparationKilled,
     NewVersion, CorpusStays DEF PreparationStep
<1> QED
  BY <1>1, CorpusBegins, PreparedFollows, PTL DEF CorpusSpec
=============================================================================
