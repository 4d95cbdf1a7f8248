-------------------------------- MODULE Txn --------------------------------
(***************************************************************************)
(* What kernel/log.c promises the file system: a disk whose contents only  *)
(* ever change by whole groups of finished system calls, whatever the      *)
(* moment of a crash.                                                      *)
(***************************************************************************)
CONSTANTS Procs, Blocks, Values, InitDisk

VARIABLES
  durable,  \* the contents of the disk after a crash and recovery
  current,  \* the contents that system calls read and write
  active    \* the processes inside begin_op() ... end_op()

vars == <<durable, current, active>>

Init ==
  /\ durable = InitDisk
  /\ current = InitDisk
  /\ active = {}

begin_op(p) ==
  /\ p \notin active
  /\ active' = active \cup {p}
  /\ UNCHANGED <<durable, current>>

write(p, b, v) ==
  /\ p \in active
  /\ current' = [current EXCEPT ![b] = v]
  /\ UNCHANGED <<durable, active>>

end_op(p) ==
  /\ p \in active
  /\ active' = active \ {p}
  /\ UNCHANGED <<durable, current>>

\* Everything written so far becomes durable at once, and only between
\* system calls.
commit ==
  /\ active = {}
  /\ durable' = current
  /\ UNCHANGED <<current, active>>

crash ==
  /\ current' = durable
  /\ active' = {}
  /\ UNCHANGED durable

Next ==
  \/ \E p \in Procs :
       \/ begin_op(p)
       \/ end_op(p)
       \/ \E b \in Blocks, v \in Values : write(p, b, v)
  \/ commit
  \/ crash

Spec == Init /\ [][Next]_vars
=============================================================================
