------------------------------- MODULE Bcache -------------------------------
(***************************************************************************)
(* The buffer cache of kernel/bio.c with the sleep locks of                *)
(* kernel/sleeplock.c, used the way kernel/log.c and kernel/fs.c use it:   *)
(* a changed buffer is written or pinned before it is released, and a      *)
(* pinned one is written before it is unpinned.                            *)
(*                                                                         *)
(* A section under bcache.lock or under lk->lk is one step.  A process     *)
(* works on one buffer at a time.                                          *)
(***************************************************************************)
EXTENDS Naturals, FiniteSets, Sequences

CONSTANTS
  Bufs,      \* bcache.buf: the NBUF buffers
  Blocks,    \* block numbers of the device
  Procs,
  Values,    \* contents of a block
  InitDisk,  \* contents of the disk at boot
  NULL,      \* not a process
  NoBlock,   \* the block number of a buffer that was never used
  NoValue    \* not a value: contents never read

ASSUME BufAssumption == IsFiniteSet(Bufs) /\ IsFiniteSet(Procs)
ASSUME NoneAssumption ==
  NULL \notin Procs /\ NoBlock \notin Blocks /\ NoValue \notin Values
ASSUME DiskAssumption == InitDisk \in [Blocks -> Values]

VARIABLES
  lru,       \* the list of buffers, most recently used first
  blockno, valid, data, refcnt,   \* struct buf
  holder,    \* b->lock: the process that has the sleep lock, or NULL
  disk,      \* contents of the blocks on the disk
  pinned,    \* the buffers that the log has pinned
  pc,        \* where each process is
  want,      \* the block it asked for
  buf        \* the buffer it got

bufVars == <<lru, blockno, valid, data, refcnt>>
procVars == <<want, buf>>
vars == <<bufVars, holder, disk, pinned, pc, procVars>>

Injective(s) == \A j, k \in DOMAIN s : s[j] = s[k] => j = k

\* binit()
Init ==
  /\ lru \in {s \in [1..Cardinality(Bufs) -> Bufs] : Injective(s)}
  /\ blockno = [b \in Bufs |-> NoBlock]
  /\ valid = [b \in Bufs |-> FALSE]
  /\ data = [b \in Bufs |-> NoValue]
  /\ refcnt = [b \in Bufs |-> 0]
  /\ holder = [b \in Bufs |-> NULL]
  /\ disk = InitDisk
  /\ pinned = {}
  /\ pc = [p \in Procs |-> "idle"]
  /\ want = [p \in Procs |-> NoBlock]
  /\ buf \in [Procs -> Bufs]

Goto(p, l) == pc' = [pc EXCEPT ![p] = l]

\* Fault: bget() passes over a buffer whose block is still being read.
CachedValid(bn) == {b \in Bufs : blockno[b] = bn /\ valid[b]}

Cached(bn) == {b \in Bufs : blockno[b] = bn}

\* Fault: a buffer counts as unused as soon as its lock is free.
UnusedUnlocked == {b \in Bufs : holder[b] = NULL}

Unused == {b \in Bufs : refcnt[b] = 0}

\* The member of S that is nearest the tail of the list.
LeastRecent(S) ==
  lru[CHOOSE k \in DOMAIN lru :
        lru[k] \in S /\ \A j \in DOMAIN lru : j > k => lru[j] \notin S]

MoveToHead(b) == lru' = <<b>> \o SelectSeq(lru, LAMBDA x : x # b)

-----------------------------------------------------------------------------

\* Fault: bget() counts its reference only once it has the lock.
bget_hitLate(p, bn) ==
  /\ pc[p] = "idle"
  /\ \E b \in Cached(bn) : buf' = [buf EXCEPT ![p] = b]
  /\ want' = [want EXCEPT ![p] = bn]
  /\ Goto(p, "acquiresleep")
  /\ UNCHANGED <<bufVars, holder, disk, pinned>>

\* The block is cached.
bget_hit(p, bn) ==
  /\ pc[p] = "idle"
  /\ \E b \in Cached(bn) :
       /\ refcnt' = [refcnt EXCEPT ![b] = @ + 1]
       /\ buf' = [buf EXCEPT ![p] = b]
  /\ want' = [want EXCEPT ![p] = bn]
  /\ Goto(p, "acquiresleep")
  /\ UNCHANGED <<lru, blockno, valid, data, holder, disk, pinned>>

\* Fault: a recycled buffer stays valid.
bget_missValid(p, bn) ==
  /\ pc[p] = "idle" /\ Cached(bn) = {} /\ Unused # {}
  /\ LET b == LeastRecent(Unused)
     IN  /\ blockno' = [blockno EXCEPT ![b] = bn]
         /\ refcnt' = [refcnt EXCEPT ![b] = 1]
         /\ buf' = [buf EXCEPT ![p] = b]
  /\ want' = [want EXCEPT ![p] = bn]
  /\ Goto(p, "acquiresleep")
  /\ UNCHANGED <<lru, valid, data, holder, disk, pinned>>

\* It is not: recycle the least recently used buffer that nobody uses.
bget_miss(p, bn) ==
  /\ pc[p] = "idle" /\ Cached(bn) = {} /\ Unused # {}
  /\ LET b == LeastRecent(Unused)
     IN  /\ blockno' = [blockno EXCEPT ![b] = bn]
         /\ valid' = [valid EXCEPT ![b] = FALSE]
         /\ refcnt' = [refcnt EXCEPT ![b] = 1]
         /\ buf' = [buf EXCEPT ![p] = b]
  /\ want' = [want EXCEPT ![p] = bn]
  /\ Goto(p, "acquiresleep")
  /\ UNCHANGED <<lru, data, holder, disk, pinned>>

\* panic("bget: no buffers")
bget_panic(p, bn) ==
  /\ pc[p] = "idle" /\ Cached(bn) = {} /\ Unused = {}
  /\ Goto(p, "panic")
  /\ UNCHANGED <<bufVars, holder, disk, pinned, procVars>>

-----------------------------------------------------------------------------
(* Sleep locks                                                             *)

\* acquiresleep() finds the lock free, at once or after sleep().
acquiresleep_get(p) ==
  /\ pc[p] \in {"acquiresleep", "woken"}
  /\ holder[buf[p]] = NULL
  /\ holder' = [holder EXCEPT ![buf[p]] = p]
  /\ Goto(p, "locked")
  /\ UNCHANGED <<bufVars, disk, pinned, procVars>>

\* acquiresleep() finds the lock taken and sleeps on it.
acquiresleep_wait(p) ==
  /\ pc[p] \in {"acquiresleep", "woken"}
  /\ holder[buf[p]] # NULL
  /\ Goto(p, "asleep")
  /\ UNCHANGED <<bufVars, holder, disk, pinned, procVars>>

\* Fault: releasesleep() forgets wakeup().
releasesleepSilent(p, l) ==
  /\ holder' = [holder EXCEPT ![buf[p]] = NULL]
  /\ Goto(p, l)

\* releasesleep(): p goes to label l and everybody asleep on the lock wakes.
releasesleep(p, l) ==
  /\ holder' = [holder EXCEPT ![buf[p]] = NULL]
  /\ pc' = [q \in Procs |->
              IF q = p THEN l
              ELSE IF pc[q] = "asleep" /\ buf[q] = buf[p] THEN "woken"
              ELSE pc[q]]

-----------------------------------------------------------------------------
(* bread(), bwrite(), brelse(), bpin() and bunpin()                        *)

\* bread() after bget(): read the block from the disk unless it is there.
bread(p) ==
  /\ pc[p] = "locked"
  /\ LET b == buf[p]
     IN  /\ data' = IF valid[b] THEN data
                    ELSE [data EXCEPT ![b] = disk[blockno[b]]]
         /\ valid' = [valid EXCEPT ![b] = TRUE]
  /\ Goto(p, "holding")
  /\ UNCHANGED <<lru, blockno, refcnt, holder, disk, pinned, procVars>>

\* The caller changes b->data.
modify(p) ==
  /\ pc[p] \in {"holding", "written", "changed"}
  /\ \E v \in Values : data' = [data EXCEPT ![buf[p]] = v]
  /\ Goto(p, "changed")
  /\ UNCHANGED <<lru, blockno, valid, refcnt, holder, disk, pinned, procVars>>

bwrite(p) ==
  /\ pc[p] \in {"holding", "changed"}
  /\ disk' = [disk EXCEPT ![blockno[buf[p]]] = data[buf[p]]]
  /\ Goto(p, "written")
  /\ UNCHANGED <<bufVars, holder, pinned, procVars>>

\* log_write() of a changed buffer: it is pinned unless it already was.
bpin(p) ==
  /\ pc[p] = "changed"
  /\ refcnt' = IF buf[p] \in pinned THEN refcnt
               ELSE [refcnt EXCEPT ![buf[p]] = @ + 1]
  /\ pinned' = pinned \cup {buf[p]}
  /\ Goto(p, "holding")
  /\ UNCHANGED <<lru, blockno, valid, data, holder, disk, procVars>>

\* install_trans() has written a pinned buffer and lets go of it.
bunpin(p) ==
  /\ pc[p] = "written" /\ buf[p] \in pinned
  /\ refcnt' = [refcnt EXCEPT ![buf[p]] = @ - 1]
  /\ pinned' = pinned \ {buf[p]}
  /\ Goto(p, "holding")
  /\ UNCHANGED <<lru, blockno, valid, data, holder, disk, procVars>>

\* brelse() gives up the sleep lock ...
brelse(p) ==
  /\ pc[p] \in {"holding", "written"}
  /\ releasesleep(p, "brelse")
  /\ UNCHANGED <<bufVars, disk, pinned, procVars>>

\* Fault: brelse() sets the reference count to zero.
brelse_refZero(p) ==
  /\ pc[p] = "brelse"
  /\ refcnt' = [refcnt EXCEPT ![buf[p]] = 0]
  /\ MoveToHead(buf[p])
  /\ want' = [want EXCEPT ![p] = NoBlock]
  /\ Goto(p, "idle")
  /\ UNCHANGED <<blockno, valid, data, holder, disk, pinned, buf>>

\* ... and then its reference, moving an unused buffer to the head.
brelse_ref(p) ==
  /\ pc[p] = "brelse"
  /\ refcnt' = [refcnt EXCEPT ![buf[p]] = @ - 1]
  /\ IF refcnt[buf[p]] = 1 THEN MoveToHead(buf[p]) ELSE UNCHANGED lru
  /\ want' = [want EXCEPT ![p] = NoBlock]
  /\ Goto(p, "idle")
  /\ UNCHANGED <<blockno, valid, data, holder, disk, pinned, buf>>

-----------------------------------------------------------------------------

\* A step that p takes once it has begun bget(), up to the end of brelse().
Step(p) ==
  \/ acquiresleep_get(p) \/ acquiresleep_wait(p)
  \/ bread(p) \/ bwrite(p) \/ bpin(p) \/ bunpin(p)
  \/ brelse(p) \/ brelse_ref(p)

Next ==
  \E p \in Procs :
    \/ \E bn \in Blocks : bget_hit(p, bn) \/ bget_miss(p, bn) \/ bget_panic(p, bn)
    \/ modify(p)
    \/ Step(p)

Spec == Init /\ [][Next]_vars

-----------------------------------------------------------------------------
(* Properties                                                              *)

Labels ==
  {"idle", "acquiresleep", "asleep", "woken", "locked", "holding", "changed",
   "written", "brelse", "panic"}

\* The list keeps all buffers and no reference count becomes negative.
TypeOK ==
  /\ lru \in [1..Cardinality(Bufs) -> Bufs] /\ Injective(lru)
  /\ blockno \in [Bufs -> Blocks \cup {NoBlock}]
  /\ valid \in [Bufs -> BOOLEAN]
  /\ data \in [Bufs -> Values \cup {NoValue}]
  /\ refcnt \in [Bufs -> Nat]
  /\ holder \in [Bufs -> Procs \cup {NULL}]
  /\ disk \in [Blocks -> Values]
  /\ pinned \subseteq Bufs
  /\ pc \in [Procs -> Labels]
  /\ want \in [Procs -> Blocks \cup {NoBlock}]
  /\ buf \in [Procs -> Bufs]

Using(p) == pc[p] \notin {"idle", "panic"}
\* No block is in two buffers.
OneBuffer ==
  \A a, b \in Bufs : blockno[a] = blockno[b] /\ blockno[a] # NoBlock => a = b

\* Between bget()'s release of bcache.lock and brelse() a buffer is not
\* recycled for another block, not even while its user sleeps for the lock.
KeepsBlock == \A p \in Procs : Using(p) => blockno[buf[p]] = want[p]

\* refcnt counts the users of a buffer and its pin.
RefcntCounts ==
  \A b \in Bufs :
    refcnt[b] = Cardinality({p \in Procs : Using(p) /\ buf[p] = b})
                + (IF b \in pinned THEN 1 ELSE 0)

\* Nobody sleeps for a lock that is free: releasesleep() reaches everybody
\* that acquiresleep() sent to sleep.
NoLostWakeup == \A p \in Procs : pc[p] = "asleep" => holder[buf[p]] # NULL

Holding(p) == pc[p] \in {"holding", "changed", "written"}

ValueOf(bn) ==
  LET bs == {b \in Cached(bn) : valid[b]}
  IN  IF bs = {} THEN disk[bn] ELSE data[CHOOSE b \in bs : TRUE]

HolderOf(bn) ==
  LET ps == {p \in Procs : Holding(p) /\ want[p] = bn}
  IN  IF ps = {} THEN NULL ELSE CHOOSE p \in ps : TRUE

Store ==
  INSTANCE BlockStore
  WITH value <- [bn \in Blocks |-> ValueOf(bn)],
       holder <- [bn \in Blocks |-> HolderOf(bn)],
       view <- [p \in Procs |-> IF Holding(p) THEN data[buf[p]] ELSE NoValue]

\* The cache is transparent: one process at a time holds a block, and what it
\* sees there is what was last put there, however buffers are recycled.
IsStore == Store!Spec

============================================================================
