------------------------------- MODULE Faults -------------------------------
(***************************************************************************)
(* Faults that the environment of a component may inject: a statement or a *)
(* call that fails, applied or not, or a process that dies.  Their number  *)
(* is bounded, so that a run explores every placement of a few of them.    *)
(***************************************************************************)
EXTENDS Naturals

CONSTANT MaxFaults

ASSUME FaultsAssumption == MaxFaults \in Nat

VARIABLE faults  \* how many there have been

FaultsTypeOK == faults \in 0..MaxFaults

FaultsInit == faults = 0

Fault     == faults < MaxFaults /\ faults' = faults + 1
Unfailing == UNCHANGED faults
=============================================================================
