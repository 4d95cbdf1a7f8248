------------------------------ MODULE MCBcache ------------------------------
(* Instances of Bcache for TLC. *)
EXTENDS Bcache, TLC

CONSTANTS v0

MCInitDisk == [bn \in Blocks |-> v0]

Symmetry ==
  Permutations(Bufs) \cup Permutations(Blocks) \cup Permutations(Procs)
=============================================================================
