------------------------------- MODULE MCLog -------------------------------
(* Instances of Log for TLC. *)
EXTENDS Log, TLC

CONSTANTS b1, b2, b3, b4, v0, v1

MCBlocks3 == {b1, b2, b3}
MCBlocks4 == {b1, b2, b3, b4}
MCInitDisk == [b \in Blocks |-> v0]

Symmetry == Permutations(Procs) \cup Permutations(Blocks)
=============================================================================
