---------------------------- MODULE StepBarrier ----------------------------
(***************************************************************************)
(* What the worker coordinator promises about the steps of a test          *)
(* procedure: the load generators move through the join points of the      *)
(* allocation matrix in lockstep.  A worker reaches its next join point    *)
(* only after the coordinator has released it from the previous one, and   *)
(* the coordinator releases a join point only when every worker reached it.*)
(*                                                                         *)
(* reached[w] counts the join points worker w has reached, released counts *)
(* the join points every worker has been released from.                    *)
(***************************************************************************)
EXTENDS Naturals

CONSTANTS Workers, NumJoinPoints

VARIABLES reached, released

barrierVars == <<reached, released>>

BarrierInit ==
    /\ reached = [w \in Workers |-> 0]
    /\ released = 0

\* A worker finishes all tasks before its next join point.
Reach(w) ==
    /\ reached[w] = released
    /\ released < NumJoinPoints
    /\ reached' = [reached EXCEPT ![w] = released + 1]
    /\ UNCHANGED released

\* The coordinator moves on: this is the only way a join point is passed.
Release ==
    /\ \A w \in Workers : reached[w] = released + 1
    /\ released' = released + 1
    /\ UNCHANGED reached

BarrierNext == Release \/ \E w \in Workers : Reach(w)

BarrierSpec == BarrierInit /\ [][BarrierNext]_barrierVars

-----------------------------------------------------------------------------
BarrierTypeOK ==
    /\ reached \in [Workers -> 0 .. NumJoinPoints]
    /\ released \in 0 .. NumJoinPoints

\* No worker is ever more than one join point ahead of what was released,
\* and none lags behind: nobody works on a step its peers have not reached.
Lockstep == \A w \in Workers : reached[w] \in {released, released + 1}
=============================================================================
