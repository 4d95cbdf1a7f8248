----------------------------- MODULE BlockStore -----------------------------
(***************************************************************************)
(* What kernel/bio.c promises the file system: a store of blocks, each of  *)
(* which one process at a time may hold, look at and change.               *)
(***************************************************************************)
CONSTANTS Blocks, Procs, Values, InitDisk, NULL, NoValue

VARIABLES
  value,   \* the contents of each block
  holder,  \* the process that holds it, or NULL
  view     \* what each process sees in the block it holds

vars == <<value, holder, view>>

Init ==
  /\ value = InitDisk
  /\ holder = [bn \in Blocks |-> NULL]
  /\ view = [p \in Procs |-> NoValue]

bread(p, bn) ==
  /\ holder[bn] = NULL
  /\ holder' = [holder EXCEPT ![bn] = p]
  /\ view' = [view EXCEPT ![p] = value[bn]]
  /\ UNCHANGED value

modify(p, bn, v) ==
  /\ holder[bn] = p
  /\ value' = [value EXCEPT ![bn] = v]
  /\ view' = [view EXCEPT ![p] = v]
  /\ UNCHANGED holder

brelse(p, bn) ==
  /\ holder[bn] = p
  /\ holder' = [holder EXCEPT ![bn] = NULL]
  /\ view' = [view EXCEPT ![p] = NoValue]
  /\ UNCHANGED value

Next ==
  \E p \in Procs, bn \in Blocks :
    \/ bread(p, bn)
    \/ brelse(p, bn)
    \/ \E v \in Values : modify(p, bn, v)

Spec == Init /\ [][Next]_vars
=============================================================================
