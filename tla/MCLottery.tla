----------------------------- MODULE MCLottery -----------------------------
(* Instances of Lottery for TLC. *)
EXTENDS Lottery, TLC

CPUSymmetry == Permutations(CPUS)
=============================================================================
