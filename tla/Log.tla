-------------------------------- MODULE Log --------------------------------
(***************************************************************************)
(* The redo log of kernel/log.c: system calls between begin_op() and       *)
(* end_op() change cached blocks and log_write() them; the last end_op()   *)
(* commits the group; after a crash recovery installs a committed group.   *)
(*                                                                         *)
(* A step is one critical section of log.lock or one disk write: bwrite()  *)
(* is synchronous and a block write is atomic.  cache[b] is the buffer of  *)
(* block b, NULL when bget() has recycled it: an unpinned, unlocked buffer *)
(* may go at any time, and bread() then reads home[b] again.  The header   *)
(* block is modelled by the sequence of its first n entries.               *)
(***************************************************************************)
EXTENDS Integers, Sequences, FiniteSets

CONSTANTS
  Procs,        \* processes that make file system calls
  Blocks,       \* home block numbers
  Values,       \* contents of a block
  NULL,         \* not a value and not a block
  InitDisk,     \* contents of the file system made by mkfs
  LOGSIZE,      \* param.h
  MAXOPBLOCKS,  \* param.h
  nlog,         \* superblock.nlog: blocks of the on-disk log with its header
  OpBlocks      \* how many distinct blocks a system call really writes

ASSUME ProcsAssumption == IsFiniteSet(Procs)
ASSUME DiskAssumption ==
  /\ InitDisk \in [Blocks -> Values]
  /\ NULL \notin Values
  /\ NULL \notin Blocks
ASSUME SizeAssumption ==
  /\ {LOGSIZE, MAXOPBLOCKS, nlog, OpBlocks} \subseteq Nat \ {0}
  /\ MAXOPBLOCKS <= LOGSIZE

VARIABLES
  \* on disk
  home,         \* the blocks at their home locations
  logblk,       \* the data blocks of the log, from 1
  head,         \* the header block
  \* in memory
  cache,        \* the buffer cache
  pin,          \* references that bpin() holds
  lh,           \* log.lh
  outstanding,  \* log.outstanding
  committing,   \* log.committing
  tail,         \* the loop index of write_log() and install_trans()
  boot,         \* how far recover_from_log() is; "run" afterwards
  pc,           \* where each process is
  blk,          \* the buffer a process has locked and modified
  wrote         \* the blocks a process's system call has written

diskVars == <<home, logblk, head>>
memVars == <<cache, pin, lh, outstanding, committing, tail>>
vars == <<diskVars, memVars, boot, pc, blk, wrote>>

Labels ==
  {"idle", "begin", "asleep", "op", "modified", "write_log", "write_head",
   "install", "clear", "done", "panic"}

InCommit == {"write_log", "write_head", "install", "clear", "done"}

\* The processes between begin_op() and the decrement in end_op().
Active == {p \in Procs : pc[p] \in {"op", "modified", "panic"}}

Goto(p, l) == pc' = [pc EXCEPT ![p] = l]

\* wakeup(&log), together with p's own step to label l.
WakeupAnd(p, l) ==
  pc' = [q \in Procs |->
           IF q = p THEN l ELSE IF pc[q] = "asleep" THEN "begin" ELSE pc[q]]

\* What bread(b) returns.
bread(b) == IF cache[b] # NULL THEN cache[b] ELSE home[b]

SeqRange(s) == {s[i] : i \in 1..Len(s)}

Init ==
  /\ home = InitDisk
  /\ logblk \in [1..LOGSIZE -> {InitDisk[b] : b \in Blocks}]
  /\ head = <<>>
  /\ cache = [b \in Blocks |-> NULL]
  /\ pin = [b \in Blocks |-> 0]
  /\ lh = <<>>
  /\ outstanding = 0
  /\ committing = FALSE
  /\ tail = 0
  /\ boot = "read_head"
  /\ pc = [p \in Procs |-> "idle"]
  /\ blk = [p \in Procs |-> NULL]
  /\ wrote = [p \in Procs |-> {}]

-----------------------------------------------------------------------------
(* System calls                                                            *)

\* A process starts a file system call.
call(p) ==
  /\ boot = "run"
  /\ pc[p] = "idle"
  /\ Goto(p, "begin")
  /\ UNCHANGED <<diskVars, memVars, boot, blk, wrote>>

\* Fault: begin_op() looks at the log space only.
MustWaitSpace == Len(lh) + (outstanding + 1) * MAXOPBLOCKS > LOGSIZE

\* Fault: begin_op() reserves space for itself only.
MustWaitOwn == committing \/ Len(lh) + MAXOPBLOCKS > LOGSIZE

\* begin_op() must wait while a commit runs or the log might overflow.
MustWait ==
  committing \/ Len(lh) + (outstanding + 1) * MAXOPBLOCKS > LOGSIZE

begin_op_wait(p) ==
  /\ MustWait
  /\ Goto(p, "asleep")
  /\ UNCHANGED outstanding

begin_op_enter(p) ==
  /\ ~MustWait
  /\ outstanding' = outstanding + 1
  /\ Goto(p, "op")

begin_op(p) ==
  /\ pc[p] = "begin"
  /\ begin_op_wait(p) \/ begin_op_enter(p)
  /\ UNCHANGED <<diskVars, cache, pin, lh, committing, tail, boot, blk, wrote>>

\* Inside a call: bp = bread(b), locked, and bp->data is changed to v.
modify(p, b, v) ==
  /\ pc[p] = "op"
  /\ \A q \in Procs : blk[q] # b
  /\ Cardinality(wrote[p] \cup {b}) <= OpBlocks
  /\ cache' = [cache EXCEPT ![b] = v]
  /\ blk' = [blk EXCEPT ![p] = b]
  /\ wrote' = [wrote EXCEPT ![p] = @ \cup {b}]
  /\ Goto(p, "modified")
  /\ UNCHANGED <<diskVars, pin, lh, outstanding, committing, tail, boot>>

TooBig == Len(lh) >= LOGSIZE \/ Len(lh) >= nlog - 1

\* Fault: log_write() does not pin the buffer.
log_writeUnpinned(p) ==
  /\ pc[p] = "modified"
  /\ lh' = IF blk[p] \in SeqRange(lh) THEN lh ELSE Append(lh, blk[p])
  /\ Goto(p, "op")
  /\ blk' = [blk EXCEPT ![p] = NULL]
  /\ UNCHANGED <<diskVars, cache, pin, outstanding, committing, tail, boot,
                 wrote>>

\* Fault: log_write() adds a block again that is already in the log.
log_writeTwice(p) ==
  /\ pc[p] = "modified"
  /\ ~TooBig
  /\ lh' = Append(lh, blk[p])
  /\ pin' = [pin EXCEPT ![blk[p]] = @ + 1]
  /\ Goto(p, "op")
  /\ blk' = [blk EXCEPT ![p] = NULL]
  /\ UNCHANGED <<diskVars, cache, outstanding, committing, tail, boot, wrote>>

\* log_write(bp), then brelse(bp): it panics when the log is full, absorbs a
\* block that is already in the log, or appends and pins a new one.
log_write_panic(p) ==
  /\ TooBig \/ outstanding < 1
  /\ Goto(p, "panic")
  /\ UNCHANGED <<lh, pin, blk>>

log_write_absorb(p) ==
  /\ ~TooBig /\ outstanding >= 1
  /\ blk[p] \in SeqRange(lh)
  /\ Goto(p, "op")
  /\ blk' = [blk EXCEPT ![p] = NULL]
  /\ UNCHANGED <<lh, pin>>

log_write_append(p) ==
  /\ ~TooBig /\ outstanding >= 1
  /\ blk[p] \notin SeqRange(lh)
  /\ lh' = Append(lh, blk[p])
  /\ pin' = [pin EXCEPT ![blk[p]] = @ + 1]
  /\ Goto(p, "op")
  /\ blk' = [blk EXCEPT ![p] = NULL]

log_write(p) ==
  /\ pc[p] = "modified"
  /\ log_write_panic(p) \/ log_write_absorb(p) \/ log_write_append(p)
  /\ UNCHANGED <<diskVars, cache, outstanding, committing, tail, boot, wrote>>

\* Fault: commit() takes a group of one block for an empty one.
end_op_lastSkip(p) ==
  /\ outstanding = 1
  /\ committing' = TRUE
  /\ Goto(p, IF Len(lh) <= 1 THEN "done" ELSE "write_log")

\* end_op(): the last call of the group commits ...
end_op_last(p) ==
  /\ outstanding = 1
  /\ committing' = TRUE
  /\ Goto(p, IF lh = <<>> THEN "done" ELSE "write_log")

\* ... any other wakes the waiters.
end_op_more(p) ==
  /\ outstanding # 1
  /\ WakeupAnd(p, "idle")
  /\ UNCHANGED committing

end_op(p) ==
  /\ pc[p] = "op"
  /\ outstanding' = outstanding - 1
  /\ wrote' = [wrote EXCEPT ![p] = {}]
  /\ end_op_last(p) \/ end_op_more(p)
  /\ UNCHANGED <<diskVars, cache, pin, lh, tail, boot, blk>>

-----------------------------------------------------------------------------
(* commit()                                                                *)

\* write_log(): block after block goes from the cache to its place in the log.
write_log_block(p) ==
  /\ tail < Len(lh)
  /\ tail' = tail + 1
  /\ logblk' = [logblk EXCEPT ![tail + 1] = bread(lh[tail + 1])]
  /\ cache' = [cache EXCEPT ![lh[tail + 1]] = bread(lh[tail + 1])]
  /\ UNCHANGED pc

write_log_end(p) ==
  /\ tail = Len(lh)
  /\ tail' = 0
  /\ Goto(p, "write_head")
  /\ UNCHANGED <<logblk, cache>>

write_log(p) ==
  /\ pc[p] = "write_log"
  /\ write_log_block(p) \/ write_log_end(p)
  /\ UNCHANGED <<home, head, pin, lh, outstanding, committing, boot, blk, wrote>>

\* write_head(): the commit point.
write_head(p) ==
  /\ pc[p] = "write_head"
  /\ head' = lh
  /\ Goto(p, "install")
  /\ UNCHANGED <<home, logblk, memVars, boot, blk, wrote>>

\* install_trans(): the next block goes home, through its buffer.
InstallBlock ==
  /\ tail < Len(lh)
  /\ tail' = tail + 1
  /\ home' = [home EXCEPT ![lh[tail + 1]] = logblk[tail + 1]]
  /\ cache' = [cache EXCEPT ![lh[tail + 1]] = logblk[tail + 1]]

InstallEnd ==
  /\ tail = Len(lh)
  /\ tail' = 0
  /\ UNCHANGED <<home, cache>>

\* install_trans(0) also unpins the buffer.
install_block(p) ==
  /\ InstallBlock
  /\ pin' = [pin EXCEPT ![lh[tail + 1]] = @ - 1]
  /\ UNCHANGED pc

install_end(p) ==
  /\ InstallEnd
  /\ Goto(p, "clear")
  /\ UNCHANGED pin

install(p) ==
  /\ pc[p] = "install"
  /\ install_block(p) \/ install_end(p)
  /\ UNCHANGED <<logblk, head, lh, outstanding, committing, boot, blk, wrote>>

\* log.lh.n = 0; write_head().
clear(p) ==
  /\ pc[p] = "clear"
  /\ lh' = <<>>
  /\ head' = <<>>
  /\ Goto(p, "done")
  /\ UNCHANGED <<home, logblk, cache, pin, outstanding, committing, tail, boot,
                 blk, wrote>>

\* Fault: end_op() forgets wakeup(&log) after the commit.
doneSilent(p) ==
  /\ pc[p] = "done"
  /\ committing' = FALSE
  /\ Goto(p, "idle")
  /\ UNCHANGED <<diskVars, cache, pin, lh, outstanding, tail, boot, blk, wrote>>

\* The end of end_op(): committing = 0; wakeup(&log).
done(p) ==
  /\ pc[p] = "done"
  /\ committing' = FALSE
  /\ WakeupAnd(p, "idle")
  /\ UNCHANGED <<diskVars, cache, pin, lh, outstanding, tail, boot, blk, wrote>>

-----------------------------------------------------------------------------
(* The buffer cache, crashes and recovery                                  *)

\* bget() recycles a buffer that nobody references.
evict(b) ==
  /\ cache[b] # NULL
  /\ pin[b] = 0
  /\ \A p \in Procs : blk[p] # b
  /\ cache' = [cache EXCEPT ![b] = NULL]
  /\ UNCHANGED <<diskVars, pin, lh, outstanding, committing, tail, boot, pc,
                 blk, wrote>>

\* The machine stops at any moment and boots again: only the disk is left.
crash ==
  /\ cache' = [b \in Blocks |-> NULL]
  /\ pin' = [b \in Blocks |-> 0]
  /\ lh' = <<>>
  /\ outstanding' = 0
  /\ committing' = FALSE
  /\ tail' = 0
  /\ boot' = "read_head"
  /\ pc' = [p \in Procs |-> "idle"]
  /\ blk' = [p \in Procs |-> NULL]
  /\ wrote' = [p \in Procs |-> {}]
  /\ UNCHANGED diskVars

\* initlog(), recover_from_log(): read_head().
read_head ==
  /\ boot = "read_head"
  /\ lh' = head
  /\ boot' = "install"
  /\ UNCHANGED <<diskVars, cache, pin, outstanding, committing, tail, pc, blk,
                 wrote>>

\* Fault: install_trans() unpins during recovery too.
recover_installUnpin ==
  /\ boot = "install"
  /\ \/ /\ InstallBlock
        /\ pin' = [pin EXCEPT ![lh[tail + 1]] = @ - 1]
        /\ UNCHANGED boot
     \/ InstallEnd /\ boot' = "clear" /\ UNCHANGED pin
  /\ UNCHANGED <<logblk, head, lh, outstanding, committing, pc, blk, wrote>>

\* install_trans(1), block by block.
recover_install ==
  /\ boot = "install"
  /\ \/ InstallBlock /\ UNCHANGED boot
     \/ InstallEnd /\ boot' = "clear"
  /\ UNCHANGED <<logblk, head, pin, lh, outstanding, committing, pc, blk,
                 wrote>>

\* log.lh.n = 0; write_head().
recover_clear ==
  /\ boot = "clear"
  /\ lh' = <<>>
  /\ head' = <<>>
  /\ boot' = "run"
  /\ UNCHANGED <<home, logblk, cache, pin, outstanding, committing, tail, pc,
                 blk, wrote>>

recover_from_log == read_head \/ recover_install \/ recover_clear

-----------------------------------------------------------------------------

Step(p) ==
  \/ begin_op(p)
  \/ log_write(p)
  \/ end_op(p)
  \/ write_log(p) \/ write_head(p) \/ install(p) \/ clear(p) \/ done(p)

Next ==
  \/ \E p \in Procs :
       \/ call(p)
       \/ Step(p)
       \/ \E b \in Blocks, v \in Values : modify(p, b, v)
  \/ \E b \in Blocks : evict(b)
  \/ crash
  \/ recover_from_log

Spec == Init /\ [][Next]_vars

\* A process inside a system call goes on, as far as end_op() and beyond.
Fairness ==
  /\ \A p \in Procs : WF_vars(Step(p))
  /\ \A p \in Procs : SF_vars(end_op(p))
  /\ WF_vars(recover_from_log)

FairSpec == Spec /\ Fairness

-----------------------------------------------------------------------------
(* Properties                                                              *)

\* The disk, the cache and the log stay in their domains.
TypeOK ==
  /\ home \in [Blocks -> Values]
  /\ logblk \in [1..LOGSIZE -> Values]
  /\ head \in Seq(Blocks)
  /\ cache \in [Blocks -> Values \cup {NULL}]
  /\ pin \in [Blocks -> Nat]
  /\ lh \in Seq(Blocks)
  /\ outstanding \in Int
  /\ committing \in BOOLEAN
  /\ tail \in Nat
  /\ boot \in {"read_head", "install", "clear", "run"}
  /\ pc \in [Procs -> Labels]
  /\ blk \in [Procs -> Blocks \cup {NULL}]
  /\ wrote \in [Procs -> SUBSET Blocks]

\* What recovery makes of a header hd, log blocks lb and home blocks hm.
Recover(hd, lb, hm) ==
  [b \in Blocks |->
     IF b \in SeqRange(hd) THEN lb[CHOOSE i \in 1..Len(hd) : hd[i] = b] ELSE hm[b]]

\* What a crash now, followed by recovery, would leave at home.
Recovered == Recover(head, logblk, home)

\* What system calls see.
Current ==
  IF boot = "run" THEN [b \in Blocks |-> bread(b)] ELSE Recovered

\* The log implements atomic group commit: whenever the machine stops, the
\* disk after recovery holds the writes of whole groups of finished system
\* calls, never part of a group.
Abstract == INSTANCE Txn WITH durable <- Recovered, current <- Current,
                              active <- Active

AtomicCommit == Abstract!Spec

\* Once the last system call of a group has returned from end_op(), all that
\* it wrote survives a crash.
QuietIsDurable ==
  boot = "run" /\ outstanding = 0 /\ ~committing => Recovered = Current

\* commit() runs only while no system call is active, so that neither end_op()
\* nor log_write() meets its panic about log.committing and outstanding.
CommitAlone ==
  /\ committing => Active = {}
  /\ outstanding = Cardinality(Active)
  /\ \A p, q \in Procs : pc[p] \in InCommit /\ pc[q] \in InCommit => p = q

\* A process sleeps in begin_op() only while somebody is left to wake it: an
\* active system call or a commit.
WaiterHasWaker ==
  (\E p \in Procs : pc[p] = "asleep") => outstanding > 0 \/ committing

\* log_write() never finds the log full.
LogFits == \A p \in Procs : pc[p] # "panic"

\* A process that waits in begin_op() is woken to look again.
WaiterWakes == \A p \in Procs : pc[p] = "asleep" ~> pc[p] # "asleep"

-----------------------------------------------------------------------------
(* The inductive invariant                                                 *)

Injective(s) == \A i, j \in 1..Len(s) : s[i] = s[j] => i = j

\* log_write() absorbs: no block is twice in the log.
LogShape ==
  /\ Injective(lh) /\ Injective(head)
  /\ Len(lh) <= LOGSIZE /\ Len(head) <= LOGSIZE
  /\ tail <= Len(lh)

\* Who is inside a transaction, who commits, who has a buffer locked.
OpInv ==
  /\ committing <=> \E p \in Procs : pc[p] \in InCommit
  /\ committing => Active = {}
  /\ \A p, q \in Procs : pc[p] \in InCommit /\ pc[q] \in InCommit => p = q
  /\ \A p \in Procs : blk[p] # NULL <=> pc[p] \in {"modified", "panic"}
  /\ \A p, q \in Procs : blk[p] # NULL /\ blk[p] = blk[q] => p = q

\* log.outstanding counts the active system calls.
CountInv == outstanding = Cardinality(Active)

\* How far the group at the i-th entry of the log has come.
Logged(i) == logblk[i] = cache[lh[i]]
Installed(i) == home[lh[i]] = logblk[i]

\* What is on disk at each point of commit().
CommitInv ==
  /\ boot = "run" /\ ~committing =>
       head = <<>> /\ tail = 0 /\ (outstanding = 0 => lh = <<>>)
  /\ \A p \in Procs :
       /\ pc[p] = "write_log" => head = <<>> /\ \A i \in 1..tail : Logged(i)
       /\ pc[p] = "write_head" =>
            head = <<>> /\ tail = 0 /\ \A i \in 1..Len(lh) : Logged(i)
       /\ pc[p] = "install" =>
            /\ head = lh
            /\ \A i \in 1..Len(lh) : IF i <= tail THEN Installed(i) ELSE Logged(i)
       /\ pc[p] = "clear" =>
            head = lh /\ tail = 0 /\ \A i \in 1..Len(lh) : Installed(i)
       /\ pc[p] = "done" => head = <<>> /\ lh = <<>> /\ tail = 0

\* Block b belongs to the group and is not yet installed.
Pending(b) ==
  \E i \in 1..Len(lh) :
    /\ lh[i] = b
    /\ \A p \in Procs : pc[p] # "clear" /\ (pc[p] = "install" => i > tail)

\* The cache: a pending block is pinned and cached, any other that nobody is
\* changing is as on disk.
CacheInv ==
  boot = "run" =>
    \A b \in Blocks :
      /\ Pending(b) => pin[b] = 1 /\ cache[b] # NULL
      /\ ~Pending(b) => pin[b] = 0
      /\ \A p \in Procs : blk[p] = b => cache[b] # NULL
      /\ ~Pending(b) /\ (\A p \in Procs : blk[p] # b) =>
           cache[b] \in {NULL, home[b]}

\* Recovery redoes the group in the header.
RecoverInv ==
  boot # "run" =>
    /\ \A p \in Procs : pc[p] = "idle"
    /\ \A b \in Blocks : pin[b] = 0
    /\ boot = "read_head" => lh = <<>> /\ tail = 0
    /\ boot # "read_head" => lh = head
    /\ boot = "install" => \A i \in 1..tail : Installed(i)
    /\ boot = "clear" => tail = 0 /\ \A i \in 1..Len(lh) : Installed(i)
    /\ \A b \in Blocks : cache[b] \in {NULL, home[b]}

LogInv ==
  LogShape /\ OpInv /\ CountInv /\ CommitInv /\ CacheInv /\ RecoverInv
=============================================================================
