------------------------- MODULE QueryRandomization -------------------------
(***************************************************************************)
(* Randomized queries (QueryRandomizerWorkloadProcessor of                 *)
(* workload/loader.py and the standard values of workload/params.py) in    *)
(* one process.  A query has sections, one per field; a section is a       *)
(* record of the bounds it has.  The pool of a field holds the standard    *)
(* values a query repeats; a value is a pair of bounds drawn by a source   *)
(* of the workload (external), which numbers its draws.                    *)
(***************************************************************************)
EXTENDS Integers, SequencesExt, FiniteSetsExt

CONSTANTS Queries,      \* operations: the fields of their query, which of them are ranges, and
                        \* the fields the workload registers a standard value source for
          PoolSize,     \* randomization.n
          Weights,      \* H_list, scaled to integers: sums of 1 / j ^ alpha
          Steps,        \* bound: values random.random() may have, evenly spaced
          MaxDraws      \* bound: values drawn from the sources

VARIABLES query,        \* the operation
          randomizer,   \* "off" before the workload is loaded, "on" after it, or "failed"
          pool,         \* __STANDARD_VALUES: standard values of each field
          body,         \* the operation's parameters: the draw each bound of a section is from
          drawn,        \* values drawn so far
          last          \* how the last parameters came about

randomVars == <<query, randomizer, pool, body, drawn, last>>

Lower == {"gte", "gt"}
Upper == {"lte", "lt"}
Original == 0           \* the value of the specification

\* check_one_of_each_name_present, extract_fields_helper: the sections that are randomized
FieldsOf(q) == {f \in DOMAIN q.sections : /\ q.sections[f].in_range
                                          /\ q.sections[f].names \cap Lower # {}
                                          /\ q.sections[f].names \cap Upper # {}}

\* zipf_cdf_inverse, for u = k / steps: the first candidate whose share of the weight exceeds u
zipf_cdf_inverse(k, steps) ==
    LET n == Len(Weights)
        beyond == {i \in 1 .. n - 1 : k * Weights[n] < Weights[i] * steps}
    IN  IF beyond = {} THEN n ELSE Min(beyond)

RandomInit ==
    /\ query \in Queries
    /\ randomizer = "off"
    /\ pool = [f \in {} |-> <<>>]
    /\ body = [f \in DOMAIN query.sections |-> [b \in query.sections[f].names |-> Original]]
    /\ drawn = 0 /\ last = "none"

\* Mutant: the standard values are drawn whenever the workload is loaded.
GeneratedAnew(f, values) == values

\* generate_standard_values_if_absent
GeneratedIfAbsent(f, values) == IF f \in DOMAIN pool THEN pool[f] ELSE values

\* on_after_load_workload of an operation of the default test procedure; the workload may be
\* loaded several times in a process.  The fields are taken in some order, so that each of the
\* fields that are absent has its own draws.
RandomizerLoads ==
    LET fields == FieldsOf(query)
        lacking == fields \ (query.sources \cup DOMAIN pool)
        order == SetToSeq(fields)
        Drawn(i) == [k \in 1 .. PoolSize |-> drawn + (i - 1) * PoolSize + k]
    IN  /\ randomizer # "failed"
        /\ drawn + Len(order) * PoolSize <= MaxDraws
        /\ IF query.type # "search" THEN randomizer' = "on" /\ UNCHANGED <<pool, drawn>>
           ELSE IF lacking # {} THEN randomizer' = "failed" /\ UNCHANGED <<pool, drawn>>
           ELSE /\ randomizer' = "on"
                /\ pool' = [f \in fields |-> GeneratedIfAbsent(f, Drawn(CHOOSE i \in DOMAIN order : order[i] = f))]
                /\ drawn' = IF fields \subseteq DOMAIN pool THEN drawn ELSE drawn + Len(order) * PoolSize
        /\ UNCHANGED <<query, body, last>>

\* Mutant: an upper bound that is exclusive is left alone.
set_range_inclusive(values) ==
    [f \in DOMAIN body |-> IF f \notin DOMAIN values THEN body[f]
                           ELSE [b \in DOMAIN body[f] |-> IF b \in Lower \cup {"lte"} THEN values[f] ELSE body[f][b]]]

\* set_range: every bound of a randomized section is replaced; an optional parameter is looked up
\* in the list of values, where it never is.
set_range(values) ==
    [f \in DOMAIN body |-> IF f \notin DOMAIN values THEN body[f]
                           ELSE [b \in DOMAIN body[f] |-> IF b \in Lower \cup Upper THEN values[f] ELSE body[f][b]]]

\* Mutant: every field has an index of its own.
RepeatedApart(steps) ==
    /\ randomizer = "on" /\ query.type = "search"
    /\ \E index \in [FieldsOf(query) -> 1 .. PoolSize] :
         /\ body' = set_range([f \in FieldsOf(query) |-> pool[f][index[f]]])
         /\ last' = "repeated"
    /\ UNCHANGED <<query, randomizer, pool, drawn>>

\* get_randomized_values: a repeated query, with one index for all fields
RepeatedValues(steps) ==
    /\ randomizer = "on" /\ query.type = "search"
    /\ \E k \in 0 .. steps - 1 :
         LET index == zipf_cdf_inverse(k, steps) IN
         /\ body' = set_range([f \in FieldsOf(query) |-> pool[f][index]])
         /\ last' = "repeated"
    /\ UNCHANGED <<query, randomizer, pool, drawn>>

\* get_randomized_values: a query with new values
NewValues ==
    LET order == SetToSeq(FieldsOf(query)) IN
    /\ randomizer = "on" /\ query.type = "search"
    /\ drawn + Len(order) <= MaxDraws
    /\ body' = set_range([f \in FieldsOf(query) |-> drawn + (CHOOSE i \in DOMAIN order : order[i] = f)])
    /\ last' = "new"
    /\ drawn' = drawn + Len(order)
    /\ UNCHANGED <<query, randomizer, pool>>

RandomNext == RandomizerLoads \/ RepeatedValues(Steps) \/ NewValues

-----------------------------------------------------------------------------
(***************************************************************************)
(* The bounds of a range always belong together: they are from one draw,   *)
(* whichever of gte and gt, lte and lt the query uses, so that a query     *)
(* never has an empty range its source would not give.  What is not a      *)
(* range is left alone.                                                    *)
(***************************************************************************)
BoundsBelongTogether ==
    \A f \in DOMAIN body :
        /\ \A b, c \in DOMAIN body[f] \cap (Lower \cup Upper) : body[f][b] = body[f][c]
        /\ f \notin FieldsOf(query) => \A b \in DOMAIN body[f] : body[f][b] = Original

(***************************************************************************)
(* A query repeats: the pools never change once they are there, however    *)
(* often the workload is loaded.                                           *)
(***************************************************************************)
PoolsAreKept == \A f \in DOMAIN pool : f \in DOMAIN pool' /\ pool'[f] = pool[f]

(***************************************************************************)
(* A repeated query is one of the pool's as a whole: the ranges of all its *)
(* fields have the same index, so that Solr has seen it before.            *)
(***************************************************************************)
RepeatsAreWhole ==
    last = "repeated" => \E i \in 1 .. PoolSize : \A f \in FieldsOf(query) :
        \A b \in DOMAIN body[f] \cap (Lower \cup Upper) : body[f][b] = pool[f][i]

(***************************************************************************)
(* Randomized queries are valid and really repeat: their bounds belong     *)
(* together, a repeated query is one of the pool's, and the pool is never  *)
(* drawn anew.                                                             *)
(***************************************************************************)
QueriesRepeat == [][BoundsBelongTogether' /\ RepeatsAreWhole' /\ PoolsAreKept]_randomVars
=============================================================================
