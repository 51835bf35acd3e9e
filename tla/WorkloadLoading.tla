-------------------------- MODULE WorkloadLoading --------------------------
(***************************************************************************)
(* Loading a workload (workload/loader.py and workload/workload.py): the   *)
(* specification file is read into test procedures and corpora, or is      *)
(* rejected; the task filter and the test mode then change the workload in *)
(* place, and a test procedure is chosen.  The rendered file is a record;  *)
(* rendering and validation against the schema are external and have an    *)
(* outcome only.  A task name is a sequence: <<n>>, or <<n, clients>> for  *)
(* a task that a list of clients has been expanded to.  An entry of a      *)
(* schedule that is a plain task has no clients, times or completed_by of  *)
(* its own.                                                                *)
(***************************************************************************)
EXTENDS Integers, SequencesExt, FiniteSetsExt

CONSTANTS WorkloadSpecs,   \* rendered workload files
          LoadOptions      \* filters, test mode, procedure and parameters asked for by the user

VARIABLES spec, options,   \* the workload file and the options
          loading,         \* how far loading has come, or why it failed
          procedures,      \* test procedures of the workload
          corpora,         \* document sets of the workload, one after the other
          found            \* the test procedure that will be run

loaderVars == <<spec, options, loading, procedures, corpora, found>>

None == -1                 \* a number that is not given
NoName == <<>>             \* a name that is not given
TestModeDocuments == 1000
TestModeSeconds == 10
SUPPORTED_SOURCE_FORMAT == {"bulk", "hdf5", "big-ann"}

Leaves(schedule) == FlattenSeq([i \in DOMAIN schedule |-> schedule[i].tasks])
Occurs(x, s) == Cardinality({i \in DOMAIN s : s[i] = x})

-----------------------------------------------------------------------------
\* WorkloadFileReader.read, up to the specification reader: what is wrong with the file
FileError ==
    CASE spec.rendered = "missing" -> "SystemSetupError"
      [] spec.rendered = "malformed" -> "WorkloadSyntaxError"
      [] spec.rendered \in {"fine", "invalid"} /\ spec.version = None -> "InvalidSyntax"
      [] spec.rendered \in {"fine", "invalid"} /\ spec.version \notin {None, 2} -> "BenchmarkError"
      [] spec.rendered = "invalid" /\ spec.version = 2 -> "WorkloadSyntaxError"
      [] OTHER -> "none"

\* CompleteWorkloadParams.unused_user_defined_workload_params
UnusedParams == options.params \ spec.params

\* parse_operation(s): an operation that is not defined is one of the type of its name.
OperationType(operation) ==
    LET defined == {i \in DOMAIN spec.operations : spec.operations[i].name = operation}
    IN  IF defined = {} THEN operation ELSE spec.operations[Min(defined)].type

\* _r with a default value, for the times of a task: its own or those of the parallel element
Inherit(times, defaults) == [f \in DOMAIN times |-> IF times[f] # None THEN times[f] ELSE defaults[f]]

NoTimes == [warmup_iterations |-> None, iterations |-> None, warmup_time_period |-> None, time_period |-> None,
            ramp_up |-> None, ramp_down |-> None]

\* parse_task
parse_task(t, defaults, completed_by) ==
    [name |-> t.name, type |-> OperationType(t.operation), tags |-> t.tags, clients |-> t.clients,
     times |-> Inherit(t.times, defaults), completes |-> t.name = completed_by, throttle |-> t.throttle]

\* What parse_task accepts
TimesAccepted(x) ==
    LET iterates == x.warmup_iterations # None \/ x.iterations # None IN
    /\ ~ (x.warmup_iterations # None /\ x.time_period # None)
    /\ ~ (x.warmup_time_period # None /\ x.iterations # None)
    /\ x.ramp_up # None => ~ iterates /\ x.warmup_time_period # None /\ x.warmup_time_period >= x.ramp_up
    /\ x.ramp_down # None => ~ iterates /\ x.time_period # None /\ x.time_period >= x.ramp_down

\* parse_parallel: what it accepts of the tasks it has parsed
ParallelAccepted(e, tasks) ==
    /\ \A i \in DOMAIN tasks : /\ tasks[i].times.ramp_up = e.times.ramp_up
                               /\ tasks[i].times.ramp_down = e.times.ramp_down
    /\ e.completed_by # NoName => Cardinality({i \in DOMAIN tasks : tasks[i].completes}) = 1

\* The elements an entry of the schedule becomes; an entry with a list of clients becomes several.
ElementsOf(e, procedure) ==
    LET Sized(n) == [parse_task(e.tasks[1], NoTimes, NoName) EXCEPT !.name = <<procedure, n>>, !.clients = n]
    IN  IF e.clients_list # <<>>
        THEN [i \in DOMAIN e.clients_list |->
                 [parallel |-> FALSE, clients |-> 0, tasks |-> <<Sized(e.clients_list[i])>>]]
        ELSE <<[parallel |-> e.parallel, clients |-> e.clients,
                tasks |-> [i \in DOMAIN e.tasks |-> parse_task(e.tasks[i], e.times, e.completed_by)]]>>

\* _create_test_procedures: the schedule of a procedure
ScheduleOf(p) == FlattenSeq([i \in DOMAIN p.schedule |-> ElementsOf(p.schedule[i], p.name)])

EntryAccepted(e, procedure) ==
    LET elements == ElementsOf(e, procedure) IN
    /\ \A i \in DOMAIN elements : \A j \in DOMAIN elements[i].tasks : TimesAccepted(elements[i].tasks[j].times)
    /\ e.parallel => ParallelAccepted(e, elements[1].tasks)

\* Mutant: only the names of tasks outside of parallel elements are compared.
OuterNamesUnique(schedule) ==
    LET outer == Leaves(SelectSeq(schedule, LAMBDA e : ~ e.parallel))
    IN  \A i, j \in DOMAIN outer : i # j => outer[i].name # outer[j].name

NamesUnique(schedule) ==
    LET tasks == Leaves(schedule) IN \A i, j \in DOMAIN tasks : i # j => tasks[i].name # tasks[j].name

\* _create_test_procedures: a single procedure is the default one and selected, whatever is asked for.
Procedure(p) ==
    LET single == Len(spec.procedures) = 1
    IN  [name |-> p.name, default |-> single \/ p.default,
         selected |-> single \/ options.procedure = p.name, schedule |-> ScheduleOf(p)]

Procedures == [i \in DOMAIN spec.procedures |-> Procedure(spec.procedures[i])]

\* What _get_test_procedure_specs, parse_operations and _create_test_procedures accept
ProceduresAccepted ==
    /\ Cardinality(spec.defined) = 1
    /\ \A i, j \in DOMAIN spec.operations : i # j => spec.operations[i].name # spec.operations[j].name
    /\ \A i, j \in DOMAIN Procedures : i # j => Procedures[i].name # Procedures[j].name
    /\ \A i \in DOMAIN Procedures : /\ \A k \in DOMAIN spec.procedures[i].schedule :
                                           EntryAccepted(spec.procedures[i].schedule[k], Procedures[i].name)
                                    /\ NamesUnique(Procedures[i].schedule)
    /\ Cardinality({i \in DOMAIN Procedures : Procedures[i].default}) = 1

-----------------------------------------------------------------------------
\* _create_corpora: the target of a corpus; of its documents
CorpusTarget(c) ==
    CASE Len(spec.collections) = 0 -> NoName
      [] Len(spec.collections) = 1 -> IF c.target # NoName THEN c.target ELSE spec.collections[1]
      [] OTHER -> c.target

DocumentTarget(c, d) ==
    CASE d.meta -> NoName
      [] ~ d.meta /\ d.target # NoName -> d.target
      [] OTHER -> CorpusTarget(c)

DocumentSets(c) ==
    [i \in DOMAIN c.documents |->
        [format |-> c.documents[i].format, meta |-> c.documents[i].meta, count |-> c.documents[i].count,
         sizes |-> c.documents[i].sizes, reduced |-> FALSE, target |-> DocumentTarget(c, c.documents[i])]]

\* Mutant: documents need no target.
TargetOptional(c, d) == d.format \in SUPPORTED_SOURCE_FORMAT /\ (c.streaming \/ d.count # None)

DocumentAccepted(c, d) ==
    /\ d.format \in SUPPORTED_SOURCE_FORMAT
    /\ c.streaming \/ d.count # None
    /\ (~ d.meta /\ Len(spec.collections) > 0 /\ CorpusTarget(c) = NoName) => d.target # NoName

CorporaAccepted ==
    /\ \A i, j \in DOMAIN spec.corpora : i # j => spec.corpora[i].name # spec.corpora[j].name
    /\ \A i \in DOMAIN spec.corpora : \A k \in DOMAIN spec.corpora[i].documents :
           DocumentAccepted(spec.corpora[i], spec.corpora[i].documents[k])

-----------------------------------------------------------------------------
LoaderInit ==
    /\ spec \in WorkloadSpecs /\ options \in LoadOptions
    /\ loading = "file" /\ procedures = <<>> /\ corpora = <<>> /\ found = NoName

\* WorkloadFileReader.read and WorkloadSpecificationReader.__call__: corpora before procedures,
\* parameters that nothing uses last
read ==
    /\ loading = "file"
    /\ loading' = CASE FileError # "none" -> FileError
                    [] FileError = "none" /\ ~ (CorporaAccepted /\ ProceduresAccepted) -> "WorkloadSyntaxError"
                    [] FileError = "none" /\ CorporaAccepted /\ ProceduresAccepted /\ UnusedParams # {} ->
                           "WorkloadConfigError"
                    [] OTHER -> "read"
    /\ procedures' = IF loading' = "read" THEN Procedures ELSE <<>>
    /\ corpora' = IF loading' = "read"
                  THEN FlattenSeq([i \in DOMAIN spec.corpora |-> DocumentSets(spec.corpora[i])]) ELSE <<>>
    /\ UNCHANGED <<spec, options, found>>

\* TaskNameFilter, TaskOpTypeFilter and TaskTagFilter
Matches(t, f) ==
    CASE f.kind = "name" -> t.name = f.value
      [] f.kind = "type" -> t.type = f.value
      [] f.kind = "tag" -> f.value \in t.tags

MatchesAny(t) == \E f \in options.filters : Matches(t, f)

\* Mutant: a parallel element with a task to exclude is excluded.
FilterOutWhole(e) ==
    LET matching == \E i \in DOMAIN e.tasks : MatchesAny(e.tasks[i])
    IN  IF matching THEN options.exclude ELSE ~ options.exclude

\* _filter_out_match of an element; a parallel one matches if one of its tasks does, and is
\* then never excluded as a whole.
_filter_out_match(e) ==
    LET matching == \E i \in DOMAIN e.tasks : MatchesAny(e.tasks[i])
    IN  IF matching THEN options.exclude /\ ~ e.parallel ELSE ~ options.exclude

FilteredSchedule(schedule) ==
    LET kept == SelectSeq(schedule, LAMBDA e : ~ _filter_out_match(e))
    IN  [i \in DOMAIN kept |->
            [kept[i] EXCEPT !.tasks = SelectSeq(@, LAMBDA t : MatchesAny(t) # options.exclude)]]

\* TaskFilterWorkloadProcessor.on_after_load_workload
TaskFilter ==
    /\ loading = "read" /\ loading' = "filtered"
    /\ procedures' = IF options.filters = {} THEN procedures
                     ELSE [i \in DOMAIN procedures |->
                              [procedures[i] EXCEPT !.schedule = FilteredSchedule(@)]]
    /\ UNCHANGED <<spec, options, corpora, found>>

\* Tasks stay throttled, but at the highest rate.
AtHighestRate(t) == [t EXCEPT !.throttle = IF @ = "none" THEN @ ELSE "max"]

AtMostOr(limit, n) == IF n # None /\ n > limit THEN limit ELSE n

\* Mutant: one iteration is enough for a test.
ReducedToOne(t) ==
    [AtHighestRate(t) EXCEPT !.times.warmup_iterations = AtMostOr(1, @), !.times.iterations = AtMostOr(1, @),
              !.times.warmup_time_period = AtMostOr(0, @), !.times.time_period = AtMostOr(TestModeSeconds, @)]

Reduced(t) ==
    [AtHighestRate(t) EXCEPT !.times.warmup_iterations = AtMostOr(t.clients, @), !.times.iterations = AtMostOr(t.clients, @),
              !.times.warmup_time_period = AtMostOr(0, @), !.times.time_period = AtMostOr(TestModeSeconds, @)]

ReducedSchedule(schedule) ==
    [i \in DOMAIN schedule |-> [schedule[i] EXCEPT !.tasks = [j \in DOMAIN @ |-> Reduced(@[j])]]]

\* TestModeWorkloadProcessor.on_after_load_workload
TestMode ==
    /\ loading = "filtered" /\ loading' = "adapted"
    /\ IF options.test_mode
       THEN /\ procedures' = [i \in DOMAIN procedures |-> [procedures[i] EXCEPT !.schedule = ReducedSchedule(@)]]
            /\ corpora' = [i \in DOMAIN corpora |->
                              IF corpora[i].format # "bulk" THEN corpora[i]
                              ELSE [corpora[i] EXCEPT !.count = TestModeDocuments, !.sizes = FALSE, !.reduced = TRUE]]
       ELSE UNCHANGED <<procedures, corpora>>
    /\ UNCHANGED <<spec, options, found>>

FirstOf(those) == IF those = {} THEN NoName ELSE <<procedures[Min(those)].name>>
Default == {i \in DOMAIN procedures : procedures[i].default}
Named(n) == {i \in DOMAIN procedures : procedures[i].name = n}

\* Workload.selected_test_procedure_or_default: whose corpora are prepared (used_corpora)
selected_test_procedure_or_default ==
    LET selected == {i \in DOMAIN procedures : procedures[i].selected}
    IN  FirstOf(IF selected # {} THEN selected ELSE Default)

\* Mutant: the first procedure is run unless another one is asked for.
FirstByDefault ==
    /\ loading = "adapted"
    /\ found' = IF options.procedure = "none" THEN <<procedures[1].name>>
                ELSE FirstOf(Named(options.procedure))
    /\ loading' = IF found' = NoName THEN "InvalidName" ELSE "loaded"
    /\ UNCHANGED <<spec, options, procedures, corpora>>

\* Workload.find_test_procedure_or_default: what will be run
find_test_procedure_or_default ==
    /\ loading = "adapted"
    /\ found' = IF options.procedure = "none" THEN FirstOf(Default)
                ELSE FirstOf(Named(options.procedure))
    /\ loading' = IF found' = NoName THEN "InvalidName" ELSE "loaded"
    /\ UNCHANGED <<spec, options, procedures, corpora>>

LoaderNext == read \/ TaskFilter \/ TestMode \/ find_test_procedure_or_default

-----------------------------------------------------------------------------
(***************************************************************************)
(* A workload that has been read is coherent: task names are unique in a   *)
(* procedure, whichever way they came about; all clients have been started *)
(* when a task's warm-up ends and none is stopped before its measurement   *)
(* begins; the tasks of a parallel element ramp up and down together.      *)
(***************************************************************************)
ReadIsCoherent ==
    loading = "read" => \A p \in ToSet(procedures) :
        /\ \A t \in ToSet(Leaves(p.schedule)) :
              /\ Occurs(t.name, [i \in DOMAIN Leaves(p.schedule) |-> Leaves(p.schedule)[i].name]) = 1
              /\ t.times.ramp_up <= t.times.warmup_time_period /\ t.times.ramp_down <= t.times.time_period
        /\ \A e \in ToSet(p.schedule) : \A s, t \in ToSet(e.tasks) :
              /\ s.times.ramp_up = t.times.ramp_up /\ s.times.ramp_down = t.times.ramp_down
              /\ s.completes /\ t.completes => s = t

(***************************************************************************)
(* Reference for the task filter: exactly the tasks that are asked for     *)
(* remain, in their order, also those of parallel elements of which only   *)
(* some match, and no element without tasks unless all were excluded.      *)
(***************************************************************************)
FilterIsExact ==
    (loading = "filtered" /\ options.filters # {}) => \A k \in DOMAIN procedures :
        LET before == Procedures[k].schedule
            after == procedures[k].schedule
        IN  /\ Leaves(after) = SelectSeq(Leaves(before), LAMBDA t : MatchesAny(t) # options.exclude)
            /\ \A e \in ToSet(after) : e.tasks = <<>> => options.exclude /\ e.parallel

(***************************************************************************)
(* Test mode shortens every task and skips none: a task stays based on     *)
(* time or on iterations, and a client that had an iteration still has one *)
(* (they are divided among the clients); a throttled task stays throttled. *)
(***************************************************************************)
TestModeSkipsNothing ==
    (loading = "adapted" /\ options.test_mode) => \A k \in DOMAIN procedures :
        LET before == Leaves(IF options.filters = {} THEN Procedures[k].schedule
                             ELSE FilteredSchedule(Procedures[k].schedule))
            after == Leaves(procedures[k].schedule)
        IN  /\ Len(before) = Len(after)
            /\ \A i \in DOMAIN after : after[i].throttle = "none" <=> before[i].throttle = "none"
            /\ \A i \in DOMAIN after : \A f \in DOMAIN NoTimes :
                  LET was == before[i].times[f]
                      is == after[i].times[f]
                  IN  /\ is <= was /\ (is = None <=> was = None)
                      /\ f \in {"iterations", "warmup_iterations"} => Min({was, after[i].clients}) <= is

(***************************************************************************)
(* The corpora that are prepared are those of the procedure that is run.   *)
(***************************************************************************)
PreparedIsRun == loading = "loaded" => found = selected_test_procedure_or_default

(***************************************************************************)
(* Documents without action lines of their own have a collection to go to  *)
(* if the workload has any, and a corpus is as large as it says: in test   *)
(* mode the reduced files, whose sizes are not checked.                    *)
(***************************************************************************)
EveryDocumentHasATarget ==
    \A i \in DOMAIN corpora :
        /\ (~ corpora[i].meta /\ Len(spec.collections) > 0) => corpora[i].target # NoName
        /\ corpora[i].reduced => corpora[i].count = TestModeDocuments /\ ~ corpora[i].sizes

(***************************************************************************)
(* A workload survives its loading: what is read is coherent, filter and   *)
(* test mode keep what they should, the procedure that is prepared is run, *)
(* and its documents have somewhere to go.                                 *)
(***************************************************************************)
WorkloadIsKept ==
    ReadIsCoherent /\ FilterIsExact /\ TestModeSkipsNothing /\ PreparedIsRun /\ EveryDocumentHasATarget
=============================================================================
