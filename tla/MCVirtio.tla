------------------------------ MODULE MCVirtio ------------------------------
(* Instances of Virtio for TLC. *)
EXTENDS Virtio

=============================================================================
