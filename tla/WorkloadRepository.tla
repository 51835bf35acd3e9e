------------------------ MODULE WorkloadRepository -------------------------
(***************************************************************************)
(* The git repository of workloads on every host (utils/repo.py,           *)
(* utils/git.py, workload/loader.py).  The coordinator updates its working *)
(* copy, reads the workload and records the revision in the configuration; *)
(* the other hosts check that revision out before they load its plugins.   *)
(* Meanwhile the remote moves on, fetching may fail and the user may have  *)
(* changed a working copy.                                                 *)
(***************************************************************************)
EXTENDS Versions

CONSTANTS
    Hosts,          \* the hosts of a test run
    Coordinator,    \* the one that coordinates it
    Requests,       \* bound: the distribution versions asked for
    MaxPushes       \* bound: commits pushed while the hosts work

ASSUME RepoAssumption == Coordinator \in Hosts

VARIABLES
    remote,         \* tip of every branch of the remote
    copy,           \* working copy of every host, see Cloned
    request,        \* the distribution version; whether a remote is configured and reachable
    revision,       \* "repository.revision" of the configuration that the hosts get
    progress        \* how far a host has come with the workload

repoVars == <<remote, copy, request, revision, progress>>

\* A commit: its branch, its number and the host that has not pushed it, if any.
Commit(b, n, own) == [branch |-> b, n |-> n, own |-> own]
NoCommit == Commit(NoBranch, 0, "none")
Branches == DOMAIN remote

\* known: the tips as of the last fetch; local: local branches; on: the branch checked out;
\* edited: the files have uncommitted changes; rebasing: a rebase has stopped half way.
WorkingCopy(main, edited) ==
    [cloned |-> TRUE, known |-> remote, local |-> [b \in Branches |-> IF b = Main THEN main ELSE NoCommit],
     head |-> main, on |-> Main, edited |-> edited, rebasing |-> FALSE]

clone == WorkingCopy(Commit(Main, remote[Main], "none"), FALSE)

fetch(w) == [w EXCEPT !.known = remote]

\* A working copy that is changed keeps its branch, and one in the middle of a rebase keeps everything.
CanCheckout(w, b) == ~ w.rebasing /\ (w.edited => w.on = b)

checkout(w, b) ==
    LET tip == IF w.local[b] = NoCommit THEN Commit(b, w.known[b], "none") ELSE w.local[b]
    IN  [w EXCEPT !.on = b, !.head = tip, !.local[b] = tip]

\* Git has the commit: its own, or one that has been fetched.
Has(h, w, c) == c.own \in {"none", h} /\ c.n <= w.known[c.branch]

rebase(w, b) ==
    LET tip == Commit(b, w.known[b], w.local[b].own)
    IN  [w EXCEPT !.head = tip, !.local[b] = tip]

Failed(h) == progress' = [progress EXCEPT ![h] = "failed"]
Loaded(h) == progress' = [progress EXCEPT ![h] = "loaded"]
Becomes(h, w) == copy' = [copy EXCEPT ![h] = w]

-----------------------------------------------------------------------------
\* BenchmarkRepository.__init__: clone or fetch; without a connection the local state has to do.
BenchmarkRepository(h) ==
    /\ progress[h] = "open"
    /\ \/ /\ request.remote /\ ~ copy[h].cloned
          /\ \/ Becomes(h, clone) /\ progress' = [progress EXCEPT ![h] = "update"]
             \/ Failed(h) /\ UNCHANGED copy
       \/ /\ copy[h].cloned
          /\ progress' = [progress EXCEPT ![h] = "update"]
          /\ \/ request.remote /\ Becomes(h, fetch(copy[h]))
             \/ UNCHANGED copy
    /\ UNCHANGED <<remote, request, revision>>

FirstLoad == \E g \in Hosts : progress[g] = "idle"

\* Mutant: the hosts update to whatever the remote has now.
NeverRecorded(r) == revision' = revision

\* The configuration of the coordinator, and not that of another actor, goes to everybody.
Record(r) == revision' = IF FirstLoad THEN r ELSE revision

\* BenchmarkRepository.checkout of the revision that the coordinator has recorded.
CheckoutRevision(h) ==
    /\ progress[h] = "update" /\ revision # NoCommit
    /\ LET w == copy[h]
       IN  IF ~ w.rebasing /\ Has(h, w, revision) /\ (w.edited => w.head = revision)
           THEN Becomes(h, [w EXCEPT !.head = revision, !.on = NoBranch]) /\ Loaded(h)
           ELSE UNCHANGED copy /\ Failed(h)
    /\ UNCHANGED <<remote, request, revision>>

LocalBranches(w) == {b \in Branches : w.local[b] # NoCommit}

\* BenchmarkRepository.update where the remote has a matching branch: check it out and rebase it.
\* Changes of the user prevent that, or leave the rebase unfinished; the benchmark goes on.
UpdateFromRemote(h) ==
    /\ progress[h] = "update" /\ revision = NoCommit /\ request.remote
    /\ LET w == copy[h]
           b == best_match(Branches, request.version)
           on == checkout(w, b)
       IN  /\ b # NoBranch
           /\ \/ ~ (b \in Branches /\ CanCheckout(w, b)) /\ UNCHANGED <<copy, revision>> /\ Failed(h)
              \/ /\ b \in Branches /\ CanCheckout(w, b) /\ ~ w.edited
                 /\ Becomes(h, rebase(on, b)) /\ Record(rebase(on, b).head) /\ Loaded(h)
              \/ /\ b \in Branches /\ CanCheckout(w, b) /\ (w.edited \/ on.head.own # "none")
                 /\ Becomes(h, [on EXCEPT !.rebasing = ~ w.edited]) /\ Loaded(h) /\ UNCHANGED revision
    /\ UNCHANGED <<remote, request>>

\* BenchmarkRepository.update with what is there: a local branch.  The repository has no tags.
UpdateLocally(h) ==
    /\ progress[h] = "update" /\ revision = NoCommit
    /\ request.remote => best_match(Branches, request.version) = NoBranch
    /\ LET w == copy[h]
           b == best_match(LocalBranches(w), request.version)
       IN  \/ /\ b \in LocalBranches(w) /\ w.on = b
              /\ Loaded(h) /\ UNCHANGED <<copy, revision>>
           \/ /\ b \in LocalBranches(w) /\ w.on # b /\ CanCheckout(w, b)
              /\ Becomes(h, checkout(w, b)) /\ Record(checkout(w, b).head) /\ Loaded(h)
           \/ /\ ~ (b \in LocalBranches(w) /\ (w.on # b => CanCheckout(w, b)))
              /\ Failed(h) /\ UNCHANGED <<copy, revision>>
    /\ UNCHANGED <<remote, request>>

\* The coordinator has read the workload: the preparation actors of all hosts get its configuration.
PrepareHosts ==
    /\ progress[Coordinator] = "loaded" /\ FirstLoad
    /\ progress' = [h \in Hosts |-> "open"]
    /\ UNCHANGED <<remote, copy, request, revision>>

Push ==
    /\ \E b \in Branches : remote[b] < MaxPushes /\ remote' = [remote EXCEPT ![b] = @ + 1]
    /\ UNCHANGED <<copy, request, revision, progress>>

\* What earlier test runs and the user have left on a host: no clone, or one with changes or without.
EarlierCopies ==
    {[WorkingCopy(Commit(Main, 1, "none"), FALSE) EXCEPT !.cloned = FALSE]} \union
    {WorkingCopy(Commit(Main, 1, user.own), user.edited) : user \in [own : Hosts \union {"none"}, edited : BOOLEAN]}

RepoInit ==
    /\ remote = [b \in {Main, <<9>>} |-> 1]
    /\ request \in [version : Requests, remote : BOOLEAN]
    /\ copy \in [Hosts -> EarlierCopies]
    /\ \A h \in Hosts : copy[h].head.own \in {"none", h} /\ (request.remote \/ copy[h].cloned)
    /\ revision = NoCommit
    /\ progress = [h \in Hosts |-> IF h = Coordinator THEN "open" ELSE "idle"]

RepoNext ==
    \/ \E h \in Hosts :
         BenchmarkRepository(h) \/ CheckoutRevision(h) \/ UpdateFromRemote(h) \/ UpdateLocally(h)
    \/ PrepareHosts \/ Push

RepoSpec == RepoInit /\ [][RepoNext]_repoVars

-----------------------------------------------------------------------------
Clean(w) == ~ w.edited /\ ~ w.rebasing /\ \A b \in Branches : w.local[b].own = "none"

(***************************************************************************)
(* All hosts run the same revision of the workload, and the one that the   *)
(* coordinator read, although the remote moves on between their fetches    *)
(* and a fetch may fail: as long as the coordinator's working copy has no  *)
(* changes of the user, which BenchmarkRepository.update only warns about. *)
(***************************************************************************)
SameRevisionEverywhere ==
    (/\ request.remote /\ best_match(Branches, request.version) # NoBranch
     /\ Clean(copy[Coordinator])) =>
        \A g, h \in Hosts : progress[g] = "loaded" /\ progress[h] = "loaded" => copy[g].head = copy[h].head
=============================================================================
