------------------------- MODULE FeedbackScalingMC -------------------------
(***************************************************************************)
(* Instances of FeedbackScaling: two workers, three clients.               *)
(***************************************************************************)
EXTENDS FeedbackScaling, TLC

CONSTANTS w1, w2, c1, c2, c3

TwoWorkers == {w1, w2}
ThreeClients == {c1, c2, c3}
ThreeOnTwo == c1 :> w1 @@ c2 :> w1 @@ c3 :> w2
=============================================================================
