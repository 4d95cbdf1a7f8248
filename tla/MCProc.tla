------------------------------- MODULE MCProc -------------------------------
(* Instances of Proc for TLC. *)
EXTENDS Proc, TLC

\* The CPUs are interchangeable.
CPUSymmetry == Permutations(CPUS)

\* Only the behaviours in which the timer interrupts user code alone.
NoKernelPreemption == \A p \in Slots : ret[p] \in {"none", "user"}
=============================================================================
