------------------------ MODULE StreamingIngestionMC ------------------------
(***************************************************************************)
(* Instances of StreamingIngestion with two and three consumers.                     *)
(***************************************************************************)
EXTENDS StreamingIngestion

CONSTANTS c1, c2, c3

TwoConsumers == {c1, c2}
ThreeConsumers == {c1, c2, c3}
=============================================================================
