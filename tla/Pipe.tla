-------------------------------- MODULE Pipe --------------------------------
(***************************************************************************)
(* A pipe of kernel/pipe.c: the ring buffer, and the readers and writers   *)
(* that sleep while it is empty or full.                                   *)
(*                                                                         *)
(* pi->lock is held over the loops of pipewrite() and piperead(), one      *)
(* iteration of which is a step, because pr->killed is read in them        *)
(* without a lock.  wakeup() and the hand-over of pi->lock in sleep() are  *)
(* atomic, as Proc shows.  The counters are unsigned and wrap around.      *)
(***************************************************************************)
EXTENDS Integers, FiniteSets

CONSTANTS
  Readers,    \* processes that have the read end open
  Writers,    \* processes that have the write end open
  Bytes,      \* values of a byte
  NoByte,     \* not a byte: an uninitialised one
  NULL,       \* not a process
  PIPESIZE,
  UINT,       \* the number of values of a uint
  MaxN,       \* bound: the largest count passed to read() and write()
  Victims     \* the processes that somebody kills

ASSUME SizeAssumption ==
  /\ {PIPESIZE, UINT, MaxN} \subseteq Nat \ {0}
  /\ UINT > PIPESIZE /\ UINT % PIPESIZE = 0
ASSUME ProcAssumption ==
  /\ Readers \cap Writers = {} /\ NULL \notin Readers \cup Writers
  /\ NoByte \notin Bytes
  /\ Victims \subseteq Readers \cup Writers

Procs == Readers \cup Writers

VARIABLES
  lock,       \* the process that holds pi->lock, or NULL
  data, nread, nwrite, readopen, writeopen,   \* struct pipe
  freed,      \* how often the page of the pipe has been freed
  ch,         \* the last byte piperead() took out
  pc,         \* where each process is
  left,       \* n - i in pipewrite() and piperead(): the bytes still to move
  killed,     \* pr->killed
  has         \* the processes whose end of the pipe is still open

pipeVars == <<data, nread, nwrite, readopen, writeopen, freed>>
procVars == <<left, killed, has>>
vars == <<lock, pipeVars, ch, pc, procVars>>

\* pipealloc()
Init ==
  /\ lock = NULL
  /\ data = [k \in 0..(PIPESIZE - 1) |-> NoByte]
  /\ nread = 0 /\ nwrite = 0
  /\ readopen = TRUE /\ writeopen = TRUE
  /\ freed = 0
  /\ ch = NoByte
  /\ pc = [p \in Procs |-> "idle"]
  /\ left = [p \in Procs |-> 0]
  /\ killed = [p \in Procs |-> FALSE]
  /\ has = Procs

Goto(p, l) == pc' = [pc EXCEPT ![p] = l]

\* p goes to label l and wakes those that sleep at label s: they try to get
\* pi->lock again and go on at label next.
WakeupAnd(p, l, s, next) ==
  pc' = [q \in Procs |-> IF q = p THEN l
                         ELSE IF pc[q] = s THEN next ELSE pc[q]]

WakeReaders(p, l) == WakeupAnd(p, l, "r_asleep", "r_acquire")
WakeWriters(p, l) == WakeupAnd(p, l, "w_asleep", "w_acquire")

Empty == nread = nwrite

\* Fault: the writer takes the ring for full one byte too late.
FullLate == nwrite = (nread + PIPESIZE + 1) % UINT

Full == nwrite = (nread + PIPESIZE) % UINT

\* write(fd, addr, n) and read(fd, addr, n) up to acquire(&pi->lock).
call(p) ==
  /\ pc[p] = "idle" /\ p \in has
  /\ \E n \in 0..MaxN : left' = [left EXCEPT ![p] = n]
  /\ Goto(p, IF p \in Writers THEN "w_acquire" ELSE "r_acquire")
  /\ UNCHANGED <<lock, pipeVars, ch, killed, has>>

\* acquire(&pi->lock), on entry and at the end of sleep().
acquire(p) ==
  /\ lock = NULL
  /\ \/ pc[p] = "w_acquire" /\ Goto(p, "w_loop")
     \/ pc[p] = "r_acquire" /\ Goto(p, "r_loop")
  /\ lock' = p
  /\ UNCHANGED <<pipeVars, ch, procVars>>

\* release(&pi->lock) on the way out of the call.
Return(p) ==
  /\ lock' = NULL
  /\ left' = [left EXCEPT ![p] = 0]

\* sleep(..., &pi->lock) gives the lock up.
sleep(p) ==
  /\ \/ pc[p] = "w_sleep" /\ Goto(p, "w_asleep")
     \/ pc[p] = "r_sleep" /\ Goto(p, "r_asleep")
  /\ lock' = NULL
  /\ UNCHANGED <<pipeVars, ch, procVars>>

-----------------------------------------------------------------------------
(* pipewrite()                                                             *)

\* The reader is gone or the writer killed: it returns -1.
pipewrite_fail(p) ==
  /\ pc[p] = "w_loop" /\ left[p] > 0
  /\ ~readopen \/ killed[p]
  /\ Goto(p, "idle")
  /\ Return(p)
  /\ UNCHANGED <<pipeVars, ch, killed, has>>

CanWrite(p) == pc[p] = "w_loop" /\ left[p] > 0 /\ readopen /\ ~killed[p]

\* Fault: a writer that finds the pipe full does not wake the readers.
pipewrite_fullSilent(p) ==
  /\ CanWrite(p) /\ Full
  /\ Goto(p, "w_sleep")
  /\ UNCHANGED <<lock, pipeVars, ch, procVars>>

\* The pipe is full: wake the readers and sleep.
pipewrite_full(p) ==
  /\ CanWrite(p) /\ Full
  /\ WakeReaders(p, "w_sleep")
  /\ UNCHANGED <<lock, pipeVars, ch, procVars>>

\* Fault: nwrite is wider than nread.
pipewrite_byteWide(p) ==
  /\ CanWrite(p) /\ ~Full
  /\ \E b \in Bytes : data' = [data EXCEPT ![nwrite % PIPESIZE] = b]
  /\ nwrite' = nwrite + 1
  /\ left' = [left EXCEPT ![p] = @ - 1]
  /\ UNCHANGED <<lock, nread, readopen, writeopen, freed, ch, pc, killed, has>>

\* One more byte goes into the ring, if copyin() succeeds.
pipewrite_byte(p) ==
  /\ CanWrite(p) /\ ~Full
  /\ \E b \in Bytes : data' = [data EXCEPT ![nwrite % PIPESIZE] = b]
  /\ nwrite' = (nwrite + 1) % UINT
  /\ left' = [left EXCEPT ![p] = @ - 1]
  /\ UNCHANGED <<lock, nread, readopen, writeopen, freed, ch, pc, killed, has>>

\* copyin() fails or all bytes are written: wake the readers and return.
pipewrite_end(p) ==
  /\ pc[p] = "w_loop"
  /\ left[p] = 0 \/ (CanWrite(p) /\ ~Full)
  /\ WakeReaders(p, "idle")
  /\ Return(p)
  /\ UNCHANGED <<pipeVars, ch, killed, has>>

-----------------------------------------------------------------------------
(* piperead()                                                              *)

\* Nothing to read yet: a killed reader returns -1, any other sleeps.
piperead_empty(p) ==
  /\ pc[p] = "r_loop" /\ Empty /\ writeopen
  /\ \/ killed[p] /\ Goto(p, "idle") /\ Return(p)
     \/ ~killed[p] /\ Goto(p, "r_sleep") /\ UNCHANGED <<lock, left>>
  /\ UNCHANGED <<pipeVars, ch, killed, has>>

piperead_start(p) ==
  /\ pc[p] = "r_loop" /\ ~(Empty /\ writeopen)
  /\ Goto(p, "r_copy")
  /\ UNCHANGED <<lock, pipeVars, ch, procVars>>

\* One byte leaves the ring; when copyout() of it fails the loop ends.
piperead_byte(p) ==
  /\ pc[p] = "r_copy" /\ left[p] > 0 /\ ~Empty
  /\ ch' = data[nread % PIPESIZE]
  /\ nread' = (nread + 1) % UINT
  /\ \/ left' = [left EXCEPT ![p] = @ - 1] /\ UNCHANGED pc
     \/ Goto(p, "r_end") /\ UNCHANGED left
  /\ UNCHANGED <<lock, data, nwrite, readopen, writeopen, freed, killed, has>>

\* Fault: piperead() wakes the writers only when the pipe is empty.
piperead_endEmpty(p) ==
  /\ \/ pc[p] = "r_copy" /\ (left[p] = 0 \/ Empty)
     \/ pc[p] = "r_end"
  /\ IF Empty THEN WakeWriters(p, "idle") ELSE Goto(p, "idle")
  /\ Return(p)
  /\ UNCHANGED <<pipeVars, ch, killed, has>>

\* Wake the writers and return what was read.
piperead_end(p) ==
  /\ \/ pc[p] = "r_copy" /\ (left[p] = 0 \/ Empty)
     \/ pc[p] = "r_end"
  /\ WakeWriters(p, "idle")
  /\ Return(p)
  /\ UNCHANGED <<pipeVars, ch, killed, has>>

-----------------------------------------------------------------------------

\* p's descriptor is the last one of its end E.
LastClose(p, E) == has \cap E = {p}

\* Fault: pipeclose() frees the pipe when its own end closes.
FreeOwn(ro, wo) == freed' = IF ~ro \/ ~wo THEN freed + 1 ELSE freed

FreeIfClosed(ro, wo) == freed' = IF ~ro /\ ~wo THEN freed + 1 ELSE freed

\* fileclose() of p's descriptor drops its reference; the last one of an end
\* goes on to pipeclose().
fileclose(p) ==
  /\ pc[p] = "idle" /\ p \in has
  /\ has' = has \ {p}
  /\ Goto(p, IF LastClose(p, IF p \in Writers THEN Writers ELSE Readers)
             THEN "pipeclose" ELSE "idle")
  /\ UNCHANGED <<lock, pipeVars, ch, left, killed>>

\* pipeclose() closes the end, wakes the other side and frees the pipe when
\* both ends are closed.
pipeclose(p) ==
  /\ pc[p] = "pipeclose"
  /\ lock = NULL
  /\ \/ /\ p \in Writers
        /\ writeopen' = FALSE
        /\ WakeReaders(p, "idle")
        /\ UNCHANGED readopen
     \/ /\ p \in Readers
        /\ readopen' = FALSE
        /\ WakeWriters(p, "idle")
        /\ UNCHANGED writeopen
  /\ FreeIfClosed(readopen', writeopen')
  /\ UNCHANGED <<lock, data, nread, nwrite, ch, procVars>>

\* kill(): the victim is marked and, if it sleeps, made RUNNABLE.
kill(p) ==
  /\ p \in Victims /\ ~killed[p]
  /\ killed' = [killed EXCEPT ![p] = TRUE]
  /\ Goto(p, CASE pc[p] = "w_asleep" -> "w_acquire"
               [] pc[p] = "r_asleep" -> "r_acquire"
               [] OTHER -> pc[p])
  /\ UNCHANGED <<lock, pipeVars, ch, left, has>>

Step(p) ==
  \/ acquire(p) \/ sleep(p) \/ pipeclose(p)
  \/ pipewrite_fail(p) \/ pipewrite_full(p) \/ pipewrite_byte(p)
  \/ pipewrite_end(p)
  \/ piperead_empty(p) \/ piperead_start(p) \/ piperead_byte(p)
  \/ piperead_end(p)

Next == \E p \in Procs : call(p) \/ Step(p) \/ fileclose(p) \/ kill(p)

Spec == Init /\ [][Next]_vars

\* A process inside pipewrite() or piperead() goes on whenever it can, and
\* acquire() gets a lock that is free again and again.
FairSpec == Spec /\ \A p \in Procs : WF_vars(Step(p)) /\ SF_vars(acquire(p) \/ pipeclose(p))

-----------------------------------------------------------------------------
(* Properties                                                              *)

Labels ==
  {"idle", "w_acquire", "w_loop", "w_sleep", "w_asleep", "r_acquire",
   "r_loop", "r_sleep", "r_asleep", "r_copy", "r_end", "pipeclose"}

\* The counters stay unsigned integers and the ring holds bytes.
TypeOK ==
  /\ lock \in Procs \cup {NULL}
  /\ data \in [0..(PIPESIZE - 1) -> Bytes \cup {NoByte}]
  /\ nread \in 0..(UINT - 1)
  /\ nwrite \in 0..(UINT - 1)
  /\ readopen \in BOOLEAN /\ writeopen \in BOOLEAN
  /\ freed \in Nat
  /\ ch \in Bytes \cup {NoByte}
  /\ pc \in [Procs -> Labels]
  /\ left \in [Procs -> 0..MaxN]
  /\ killed \in [Procs -> BOOLEAN]
  /\ has \subseteq Procs

Count == (nwrite - nread) % UINT

\* The pipe is a bounded FIFO queue: no byte is lost, duplicated or reordered
\* inside it, it never holds more than PIPESIZE bytes although the counters
\* wrap around, and nobody writes to a pipe without a reader.
Queue ==
  INSTANCE Channel
  WITH contents <- [k \in 1..Count |-> data[(nread + k - 1) % PIPESIZE]],
       out <- ch, ropen <- readopen, wopen <- writeopen,
       Capacity <- PIPESIZE

IsQueue == Queue!Spec

\* Whenever nobody holds pi->lock, no reader sleeps on a pipe that has bytes
\* or whose write end is closed.
ReaderAwake ==
  lock = NULL /\ (\E p \in Readers : pc[p] = "r_asleep") => Empty /\ writeopen

\* Whenever nobody holds pi->lock, no writer sleeps on a pipe that has room or
\* whose read end is closed.
WriterAwake ==
  lock = NULL /\ (\E p \in Writers : pc[p] = "w_asleep") => Full /\ readopen

\* The page of the pipe is freed once, and only when nobody can reach it.
FreedOnce ==
  /\ freed <= 1
  /\ freed = 1 => has = {} /\ \A p \in Procs : pc[p] = "idle"

\* A read() that waits returns once a byte is there or the last writer has
\* closed its end.
ReadReturns ==
  \A p \in Readers :
    pc[p] = "r_asleep" /\ (~Empty \/ ~writeopen) ~> pc[p] = "idle"
=============================================================================
