------------------------------ MODULE Channel ------------------------------
(***************************************************************************)
(* What kernel/pipe.c promises its readers and writers: a bounded queue of *)
(* bytes with two ends.                                                    *)
(***************************************************************************)
EXTENDS Naturals, Sequences

CONSTANTS Bytes, Capacity, NoByte

VARIABLES
  contents,  \* the bytes written and not yet read
  out,       \* the last byte read
  ropen,     \* the read end is open
  wopen      \* the write end is open

vars == <<contents, out, ropen, wopen>>

Init ==
  /\ contents = <<>>
  /\ out = NoByte
  /\ ropen = TRUE
  /\ wopen = TRUE

write(b) ==
  /\ ropen /\ wopen
  /\ Len(contents) < Capacity
  /\ contents' = Append(contents, b)
  /\ UNCHANGED <<out, ropen, wopen>>

read ==
  /\ ropen
  /\ contents # <<>>
  /\ out' = Head(contents)
  /\ contents' = Tail(contents)
  /\ UNCHANGED <<ropen, wopen>>

close_read ==
  /\ ropen
  /\ ropen' = FALSE
  /\ UNCHANGED <<contents, out, wopen>>

close_write ==
  /\ wopen
  /\ wopen' = FALSE
  /\ UNCHANGED <<contents, out, ropen>>

Next == (\E b \in Bytes : write(b)) \/ read \/ close_read \/ close_write

Spec == Init /\ [][Next]_vars
=============================================================================
