------------------------------ MODULE Versions ------------------------------
(***************************************************************************)
(* Matching a distribution version with the branches and tags of a         *)
(* repository (osbenchmark/utils/versions.py).  A version is the sequence  *)
(* of its components: major, minor, patch and suffix; a branch is a        *)
(* version with one or more components, or main.                           *)
(***************************************************************************)
EXTENDS Integers, Sequences, FiniteSetsExt

Main == <<>>            \* the branch "main", and a version that is not given
NoBranch == <<-1>>      \* None

\* From the most specific to the most generic variant.
variants_of(version) == [i \in 1 .. Len(version) |-> SubSeq(version, 1, Len(version) + 1 - i)]

_latest_major(alternatives) == Max({-1} \union {a[1] : a \in alternatives \ {Main}})

\* The minors that best_match may fall back to; a minor of zero counts as none.
EligibleMinors(alternatives, version) ==
    {a[2] : a \in {b \in alternatives : Len(b) = 2 /\ b[1] = version[1] /\ b[2] # 0 /\ b[2] <= version[2]}}

latest_bounded_minor(alternatives, version) ==
    LET minors == EligibleMinors(alternatives, version)
    IN  IF minors = {} THEN NoBranch ELSE <<version[1], Max(minors)>>

\* Mutant: the nearest prior minor is preferred to an exact patch.
MinorBeforePatch(alternatives, version) ==
    IF version # Main /\ latest_bounded_minor(alternatives, version) # NoBranch
    THEN latest_bounded_minor(alternatives, version) ELSE Main

best_match(alternatives, version) ==
    LET exact == {i \in 1 .. Len(version) : variants_of(version)[i] \in alternatives}
        specific == {i \in exact : Len(variants_of(version)[i]) >= 2}
    IN  CASE version = Main -> Main
          [] specific # {} -> variants_of(version)[Min(specific)]
          [] specific = {} /\ latest_bounded_minor(alternatives, version) # NoBranch ->
                latest_bounded_minor(alternatives, version)
          [] specific = {} /\ latest_bounded_minor(alternatives, version) = NoBranch /\ exact # {} ->
                variants_of(version)[Min(exact)]
          [] OTHER -> IF version[1] > _latest_major(alternatives) THEN Main ELSE NoBranch

\* Lexicographic order of versions of the same length or not, as of Python lists.
AtMost(a, b) ==
    \/ \E i \in 1 .. Min({Len(a), Len(b)}) : a[i] < b[i] /\ SubSeq(a, 1, i - 1) = SubSeq(b, 1, i - 1)
    \/ Len(a) <= Len(b) /\ a = SubSeq(b, 1, Len(a))

\* BenchmarkRepository._select_branch_version: the newest bundled configuration that is not too new.
_select_branch_version(version, bundled) ==
    LET usable == {b \in bundled \ {Main} : AtMost(b, version)}
    IN  CASE version = Main -> Main
          [] version # Main /\ usable = {} -> NoBranch
          [] OTHER -> CHOOSE b \in usable : \A c \in usable : AtMost(c, b)
=============================================================================
