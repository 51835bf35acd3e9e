-------------------------- MODULE LoadGenerationMC --------------------------
(***************************************************************************)
(* Two clients under schedules of every kind.                              *)
(***************************************************************************)
EXTENDS LoadGeneration

CONSTANTS c1, c2

TwoClients == {c1, c2}
IndexOf(c) == IF c = c1 THEN 0 ELSE 1

TaskFor(c) ==
    [warmup_iterations |-> None, iterations |-> None, warmup_time_period |-> None,
     time_period |-> None, ramp_up_time_period |-> None, ramp_down_time_period |-> None,
     client_index |-> IndexOf(c), clients |-> 2, global_client_index |-> IndexOf(c),
     total_clients |-> 2, completes_parent |-> FALSE, interval |-> 0, unit |-> "same",
     params |-> None, runner_completes |-> FALSE, on_error |-> "continue"]

Scenario(redline, timed, T(_)) == [redline |-> redline, timed |-> timed, tasks |-> [c \in TwoClients |-> T(c)]]

\* A throttled task with warm-up iterations; errors abort the benchmark.
Throttled == Scenario(FALSE, TRUE, LAMBDA c :
    [TaskFor(c) EXCEPT !.warmup_iterations = 1, !.iterations = 2, !.interval = 2, !.on_error = "abort"])

\* A shorter one in redline testing, with a throughput in ops/s and weights in docs.
Redline == Scenario(TRUE, FALSE, LAMBDA c :
    [TaskFor(c) EXCEPT !.warmup_iterations = 1, !.iterations = 1, !.interval = 1, !.unit = "ops",
                       !.on_error = "abort"])

\* A time based task with ramp-up and ramp-down.
Ramped == Scenario(FALSE, TRUE, LAMBDA c :
    [TaskFor(c) EXCEPT !.warmup_time_period = 2, !.time_period = 2, !.ramp_up_time_period = 2,
                       !.ramp_down_time_period = 2, !.interval = 1])

\* A task that completes its parent beside one without an end.
Completing == Scenario(FALSE, FALSE, LAMBDA c :
    IF c = c1 THEN [TaskFor(c) EXCEPT !.iterations = 2, !.completes_parent = TRUE, !.clients = 1]
    ELSE [TaskFor(c) EXCEPT !.warmup_time_period = 0, !.client_index = 0, !.clients = 1])

\* Parameter sources that end, and a runner that knows when it is complete.
Finite == Scenario(FALSE, TRUE, LAMBDA c :
    [TaskFor(c) EXCEPT !.params = 2, !.runner_completes = c = c1, !.interval = 1,
                       !.unit = IF c = c1 THEN "other" ELSE "same"])

AllScenarios == {Throttled, Redline, Ramped, Completing, Finite}
=============================================================================
