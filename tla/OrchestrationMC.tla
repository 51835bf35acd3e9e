-------------------------- MODULE OrchestrationMC --------------------------
(***************************************************************************)
(* A local and a remote target host and a schedule of two elements.        *)
(***************************************************************************)
EXTENDS Orchestration

CONSTANTS local, remote

LocalAndRemote == {local, remote}
OneLocal == {local}
=============================================================================
