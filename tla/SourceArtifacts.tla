-------------------------- MODULE SourceArtifacts --------------------------
(***************************************************************************)
(* Supplying the Solr binary that a node installs (builder/supplier.py):   *)
(* a released distribution that is downloaded, or one that is built from   *)
(* a source tree and kept in an artifact cache under its revision.  The    *)
(* process may be killed or fail at any step and be started again, while   *)
(* sources are pushed upstream, edited locally, and artifacts grow old.    *)
(***************************************************************************)
EXTENDS Integers, FiniteSets

CONSTANTS
    MaxRevision,    \* bound: commits of the source repository
    MaxSupplyFaults,\* bound: kills and failing commands
    Caching,        \* values of "source.cache", or of the distribution repository's "cache"
    HasRemote       \* values of "remote.repo.url": whether there is one

ASSUME SupplyAssumption == MaxRevision \in Nat \ {0} /\ Caching \subseteq BOOLEAN /\ HasRemote \subseteq BOOLEAN

VARIABLES
    upstream,       \* newest commit of the remote source repository
    tree,           \* source tree: whether it is a clone, its commit, edited files, what was built last
    cache,          \* artifacts by commit
    dist,           \* downloaded distribution, its temporary file
    sup,            \* the supplier that runs
    torn,           \* whether a kill has interrupted the copy of an artifact
    supplyFaults    \* kills and failing commands so far

supplyVars == <<upstream, tree, cache, dist, sup, torn, supplyFaults>>

\* A binary: the commit it was built from, with edited files or not, and whether it is complete.
Binary(r, edited, whole) == [revision |-> r, edited |-> edited, whole |-> whole]
Nothing == Binary(0, FALSE, FALSE)
Young(b) == [binary |-> b, old |-> FALSE]

Idle == [pc |-> "idle", wants |-> "current", commit |-> 0, caching |-> FALSE, remote |-> FALSE,
         resolved |-> 0, cached |-> 0, binary |-> Nothing]
InPhase(pc) == sup.pc = pc
Move(pc) == sup' = [sup EXCEPT !.pc = pc]
Faulty == supplyFaults < MaxSupplyFaults /\ supplyFaults' = supplyFaults + 1
Fails == Move("failed") /\ Faulty

cached == sup.cached # 0 /\ cache[sup.cached].binary # Nothing

-----------------------------------------------------------------------------
\* supplier.create: decides between sources and a distribution and removes artifacts that are too old.
create ==
    /\ sup.pc \in {"idle", "failed"}
    /\ \E wants \in {"current", "latest", "commit", "release"}, r \in 1 .. upstream,
          caching \in Caching, hasRemote \in HasRemote :
         sup' = [Idle EXCEPT !.pc = IF wants = "release" THEN "fetch_release" ELSE "fetch",
                             !.wants = wants, !.commit = IF wants = "commit" THEN r ELSE 0,
                             !.caching = caching, !.remote = hasRemote]
    /\ cache' = [r \in DOMAIN cache |-> IF sup'.caching /\ cache[r].old THEN Young(Nothing) ELSE cache[r]]
    /\ UNCHANGED <<upstream, tree, dist, torn, supplyFaults>>

\* The artifact of a given commit may be there already; else the sources are needed.
FetchFromCache ==
    /\ InPhase("fetch") /\ sup.caching /\ sup.wants = "commit" /\ cache[sup.commit].binary # Nothing
    /\ sup' = [sup EXCEPT !.pc = "prepare", !.cached = sup.commit, !.resolved = sup.commit]
    /\ UNCHANGED <<upstream, tree, cache, dist, torn, supplyFaults>>

\* The commit SourceRepository._update ends at.
Wanted(t) == CASE sup.wants = "latest" /\ sup.remote -> upstream
               [] sup.wants = "commit" -> sup.commit
               [] OTHER -> t.commit

\* Mutant: the artifact is looked up under the commit before the update.
UpdatedBefore(t) == [sup EXCEPT !.pc = "prepare", !.resolved = Wanted(t),
                                !.cached = IF sup.caching THEN tree.commit ELSE 0]

\* SourceSupplier.fetch has resolved the commit, which names the artifact in the cache.
Updated(t) == [sup EXCEPT !.pc = "prepare", !.resolved = t.commit,
                          !.cached = IF sup.caching THEN t.commit ELSE 0]

\* SourceRepository.fetch: clone if needed, then check out what is wanted.
FetchSources ==
    /\ InPhase("fetch")
    /\ ~ (sup.caching /\ sup.wants = "commit" /\ cache[sup.commit].binary # Nothing)
    /\ LET start == IF tree.clone \/ ~ sup.remote THEN tree ELSE [tree EXCEPT !.clone = TRUE, !.commit = upstream]
           moves == Wanted(start) # start.commit
       IN  \/ /\ start.clone /\ (moves => ~ start.edited) /\ (sup.wants = "latest" => sup.remote)
              /\ tree' = [start EXCEPT !.commit = Wanted(start)]
              /\ sup' = Updated(tree') /\ UNCHANGED supplyFaults
           \* not a git repository: "current" is built without a revision, and is not cached
           \/ /\ ~ start.clone /\ sup.wants = "current"
              /\ tree' = start /\ sup' = [sup EXCEPT !.pc = "prepare"] /\ UNCHANGED supplyFaults
           \* git refuses, for example because of edited files
           \/ /\ \/ ~ start.clone /\ sup.wants # "current"
                 \/ start.clone /\ ((moves /\ start.edited) \/ (sup.wants = "latest" /\ ~ sup.remote))
              /\ tree' = start /\ Move("failed") /\ UNCHANGED supplyFaults
           \/ tree' = start /\ Fails
    /\ UNCHANGED <<upstream, cache, dist, torn>>

\* SourceSupplier.prepare: clean, then build; nothing when the artifact is cached.
prepare ==
    /\ InPhase("prepare")
    /\ \/ cached /\ Move("add") /\ UNCHANGED <<tree, supplyFaults>>
       \/ ~ cached /\ tree' = [tree EXCEPT !.built = Nothing] /\ Move("build") /\ UNCHANGED supplyFaults
    /\ UNCHANGED <<upstream, cache, dist, torn>>

build ==
    /\ InPhase("build")
    /\ \/ /\ tree' = [tree EXCEPT !.built = Binary(tree.commit, tree.edited, TRUE)]
          /\ Move("add") /\ UNCHANGED supplyFaults
       \/ Fails /\ UNCHANGED tree
    /\ UNCHANGED <<upstream, cache, dist, torn>>

\* CachedSourceSupplier.add: the cached artifact, or the build, which is then copied to the cache.
add ==
    /\ InPhase("add")
    /\ IF cached
       THEN sup' = [sup EXCEPT !.pc = "done", !.binary = cache[sup.cached].binary] /\ UNCHANGED cache
       ELSE IF sup.cached # 0
       THEN /\ cache' = [cache EXCEPT ![sup.cached] = Young([tree.built EXCEPT !.whole = FALSE])]
            /\ Move("copy")
       ELSE sup' = [sup EXCEPT !.pc = "done", !.binary = tree.built] /\ UNCHANGED cache
    /\ UNCHANGED <<upstream, tree, dist, torn, supplyFaults>>

\* The copy ends; when it cannot be written, the build is used where it is.
CopyEnds ==
    /\ InPhase("copy")
    /\ sup' = [sup EXCEPT !.pc = "done", !.binary = tree.built]
    /\ \/ cache' = [cache EXCEPT ![sup.cached].binary = tree.built] /\ UNCHANGED <<torn, supplyFaults>>
       \/ Faulty /\ torn' = TRUE /\ UNCHANGED cache
    /\ UNCHANGED <<upstream, tree, dist>>

-----------------------------------------------------------------------------
DownloadBegins == [dist EXCEPT !.tmp = "part"]

\* DistributionSupplier.fetch: an existing download is good enough when the repository is cached.
FetchRelease ==
    /\ InPhase("fetch_release")
    /\ \/ sup.caching /\ dist.file # "none" /\ Move("add_release") /\ UNCHANGED <<dist, supplyFaults>>
       \/ ~ (sup.caching /\ dist.file # "none") /\ dist' = DownloadBegins /\ Move("download") /\ UNCHANGED supplyFaults
       \/ ~ (sup.caching /\ dist.file # "none") /\ Fails /\ UNCHANGED dist
    /\ UNCHANGED <<upstream, tree, cache, torn>>

DownloadEnds ==
    /\ InPhase("download")
    /\ \/ dist' = [file |-> "whole", tmp |-> "none"] /\ Move("add_release") /\ UNCHANGED supplyFaults
       \/ dist' = [dist EXCEPT !.tmp = "none"] /\ Fails
    /\ UNCHANGED <<upstream, tree, cache, torn>>

AddRelease ==
    /\ InPhase("add_release")
    /\ sup' = [sup EXCEPT !.pc = "done", !.binary = Binary(0, FALSE, dist.file = "whole")]
    /\ UNCHANGED <<upstream, tree, cache, dist, torn, supplyFaults>>

-----------------------------------------------------------------------------
KillSupplier ==
    /\ sup.pc \notin {"idle", "failed", "done"} /\ Faulty
    /\ sup' = Idle /\ torn' = (torn \/ InPhase("copy"))
    /\ UNCHANGED <<upstream, tree, cache, dist>>

Installed == InPhase("done") /\ sup' = Idle /\ UNCHANGED <<upstream, tree, cache, dist, torn, supplyFaults>>

PushSources ==
    /\ upstream < MaxRevision /\ upstream' = upstream + 1
    /\ UNCHANGED <<tree, cache, dist, sup, torn, supplyFaults>>

EditSources ==
    /\ tree' = [tree EXCEPT !.edited = ~ @]
    /\ sup.pc \in {"idle", "failed"}
    /\ UNCHANGED <<upstream, cache, dist, sup, torn, supplyFaults>>

ArtifactAges ==
    /\ \E r \in DOMAIN cache :
         cache[r].binary # Nothing /\ ~ cache[r].old /\ cache' = [cache EXCEPT ![r].old = TRUE]
    /\ sup.pc = "idle"
    /\ UNCHANGED <<upstream, tree, dist, sup, torn, supplyFaults>>

SupplyInit ==
    /\ upstream = 1 /\ cache = [r \in 1 .. MaxRevision |-> Young(Nothing)]
    /\ tree \in {[clone |-> c, commit |-> IF c THEN 1 ELSE 0, edited |-> FALSE, built |-> Nothing] : c \in BOOLEAN}
    /\ dist = [file |-> "none", tmp |-> "none"] /\ sup = Idle /\ torn = FALSE /\ supplyFaults = 0

SupplyNext ==
    \/ create \/ FetchFromCache \/ FetchSources \/ prepare \/ build \/ add \/ CopyEnds
    \/ FetchRelease \/ DownloadEnds \/ AddRelease
    \/ KillSupplier \/ Installed \/ PushSources \/ EditSources \/ ArtifactAges

SupplySpec == SupplyInit /\ [][SupplyNext]_supplyVars

-----------------------------------------------------------------------------
(***************************************************************************)
(* The binary a node gets is complete and was built from the commit that   *)
(* the revision on the command line stands for, from the cache or not.     *)
(* The one way to an incomplete one is a copy to the cache that was cut    *)
(* off: CachedSourceSupplier.add copies under the final name.              *)
(***************************************************************************)
SuppliedIsRequested ==
    InPhase("done") => /\ sup.binary.whole \/ torn
                       /\ sup.resolved # 0 => sup.binary.revision = sup.resolved
                       /\ sup.wants = "commit" => sup.binary.revision = sup.commit
=============================================================================
