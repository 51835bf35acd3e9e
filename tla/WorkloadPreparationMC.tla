----------------------- MODULE WorkloadPreparationMC -----------------------
(***************************************************************************)
(* Two load generator hosts, one with two cores and one with a single one; *)
(* two processors, of which the first has nothing to do on the second      *)
(* host.                                                                   *)
(***************************************************************************)
EXTENDS WorkloadPreparation, TLC

CONSTANTS h1, h2, e1, e2, e3

TwoHosts == {h1, h2}
ThreeExecutors == {e1, e2, e3}
TwoAndOne == e1 :> h1 @@ e2 :> h1 @@ e3 :> h2
SomeTasks == h1 :> <<2, 1>> @@ h2 :> <<0, 1>>
=============================================================================
