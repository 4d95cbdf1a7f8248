----------------------------- MODULE TxnProofs -----------------------------
(***************************************************************************)
(* Proof that the redo log of Log implements the atomic disk of Txn.  The  *)
(* commit point is the write of the header in write_head(); modify() is a  *)
(* write of Txn; every other step of commit() and of recovery changes      *)
(* neither what a crash would leave nor what system calls read.            *)
(***************************************************************************)
EXTENDS LogProofs

\* What recovery makes of a header in which no block is twice.
LEMMA RecoverFacts ==
  ASSUME NEW hd \in Seq(Blocks), NEW lb, NEW hm, Injective(hd)
  PROVE  /\ \A i \in 1..Len(hd) : Recover(hd, lb, hm)[hd[i]] = lb[i]
         /\ \A b \in Blocks : b \notin SeqRange(hd) => Recover(hd, lb, hm)[b] = hm[b]
<1>1. ASSUME NEW i \in 1..Len(hd) PROVE Recover(hd, lb, hm)[hd[i]] = lb[i]
  <2>1. hd[i] \in Blocks /\ hd[i] \in SeqRange(hd)
    BY DEF SeqRange
  <2>2. (CHOOSE j \in 1..Len(hd) : hd[j] = hd[i]) = i
    BY DEF Injective
  <2> QED
    BY <2>1, <2>2 DEF Recover
<1> QED
  BY <1>1 DEF Recover

\* Recover(...) is the function with those values.
LEMMA RecoverExt ==
  ASSUME NEW hd, NEW lb, NEW hm, NEW f, f = [b \in Blocks |-> f[b]],
         \A b \in Blocks : Recover(hd, lb, hm)[b] = f[b]
  PROVE  Recover(hd, lb, hm) = f
BY DEF Recover

\* With an empty header the disk is what is at home.
LEMMA RecoverEmpty ==
  ASSUME NEW lb, NEW hm \in [Blocks -> Values]
  PROVE  Recover(<<>>, lb, hm) = hm
<1>1. SeqRange(<<>>) = {}
  BY DEF SeqRange
<1> QED
  BY <1>1 DEF Recover

\* A block that is not pending and that nobody is changing is as at home.
LEMMA CleanBlock ==
  ASSUME TypeOK, LogInv, boot = "run", NEW b \in Blocks, ~Pending(b),
         \A q \in Procs : blk[q] # b
  PROVE  bread(b) = home[b]
BY DEF LogInv, CacheInv, bread

\* Before the header is written the blocks at home count.
LEMMA BeforeCommit ==
  ASSUME TypeOK, LogInv, head = <<>>
  PROVE  Recovered = home
BY RecoverEmpty DEF TypeOK, Recovered

-----------------------------------------------------------------------------

\* Between groups nothing would be lost: once the last system call of a group
\* has returned from end_op(), all that it wrote survives a crash.
THEOREM QuietDurable == Spec => []QuietIsDurable
<1>1. ASSUME TypeOK, LogInv, boot = "run", outstanding = 0, ~committing
      PROVE  Recovered = Current
  <2>1. head = <<>> /\ lh = <<>>
    BY <1>1 DEF LogInv, CommitInv
  <2>2. Active = {}
    BY <1>1, ProcsAssumption, FS_Subset, FS_EmptySet DEF LogInv, CountInv, Active
  <2>3. \A q \in Procs : blk[q] = NULL
    BY <1>1, <2>2 DEF LogInv, OpInv, Active
  <2>4. \A b \in Blocks : ~Pending(b) /\ \A q \in Procs : blk[q] # b
    BY <2>1, <2>3, DiskAssumption DEF Pending
  <2>5. \A b \in Blocks : bread(b) = home[b]
    BY <1>1, <2>4, CleanBlock
  <2> QED
    BY <1>1, <2>1, <2>5, BeforeCommit DEF Current, TypeOK
<1>2. TypeOK /\ LogInv => QuietIsDurable
  BY <1>1 DEF QuietIsDurable
<1> QED
  BY <1>2, LogCorrect, PTL

-----------------------------------------------------------------------------
(* Every step of the log is a step of the atomic disk, or changes nothing  *)
(* that it shows.                                                          *)

\* A step that leaves the disk, the cache and the boot state alone shows
\* through Active only.
LEMMA SameDisk ==
  UNCHANGED <<diskVars, cache, boot>> =>
    Recovered' = Recovered /\ Current' = Current
BY DEF diskVars, Recovered, Recover, SeqRange, Current, bread

\* modify() is a write of Txn.
LEMMA ModifyRefines ==
  ASSUME TypeOK, LogInv, NEW p \in Procs, NEW b \in Blocks, NEW v \in Values,
         modify(p, b, v)
  PROVE  Abstract!write(p, b, v)
<1>1. boot = "run" /\ boot' = "run"
  BY ActiveFacts DEF modify
<1>2. p \in Active /\ Active' = Active
  BY DEF modify, Active, Goto, TypeOK
<1>3. Recovered' = Recovered
  BY DEF modify, diskVars, Recovered, Recover, SeqRange
<1>4. \A x \in Blocks : bread(x)' = IF x = b THEN v ELSE bread(x)
  BY DiskAssumption DEF modify, bread, TypeOK, diskVars
<1>5. Current = [x \in Blocks |-> bread(x)] /\ Current' = [x \in Blocks |-> bread(x)']
  BY <1>1 DEF Current
<1>6. Current' = [Current EXCEPT ![b] = v]
  BY <1>4, <1>5
<1> QED
  BY <1>2, <1>3, <1>6 DEF Abstract!write

\* Two moments with the same header and log blocks, and the same blocks at home
\* except for entries of the header, recover to the same disk.
LEMMA RecoverSame ==
  ASSUME NEW hd \in Seq(Blocks), NEW lb, NEW hm, NEW hn, Injective(hd),
         \A b \in Blocks : b \notin SeqRange(hd) => hm[b] = hn[b]
  PROVE  Recover(hd, lb, hm) = Recover(hd, lb, hn)
BY DEF Recover

\* The blocks that system calls read are the same before and after.
LEMMA SameCurrent ==
  boot = "run" /\ boot' = "run" /\ (\A x \in Blocks : bread(x)' = bread(x)) =>
    Current' = Current
BY DEF Current

\* write_log() copies blocks into a log that no header names yet.
LEMMA WriteLogRefines ==
  ASSUME TypeOK, LogInv, NEW p \in Procs, write_log(p)
  PROVE  Recovered' = Recovered /\ Current' = Current /\ Active' = Active
<1>0. boot = "run" /\ head = <<>>
  BY CommitFacts DEF write_log, InCommit, LogInv, CommitInv
<1>1. Active' = Active
  BY DEF write_log, write_log_block, write_log_end, Active, Goto, TypeOK
<1>2. Recovered' = Recovered
  <2>1. head' = <<>> /\ home' = home
    BY <1>0 DEF write_log
  <2>2. Recovered' = Recover(<<>>, logblk', home)
    BY <2>1 DEF Recovered
  <2> QED
    BY <1>0, <2>2, RecoverEmpty, BeforeCommit DEF TypeOK
<1>3. \A x \in Blocks : bread(x)' = bread(x)
  <2>1. CASE write_log_block(p)
    <3>1. lh[tail + 1] \in Blocks /\ bread(lh[tail + 1]) \in Values
      BY <2>1, EntryFacts DEF write_log_block, bread, TypeOK
    <3> QED
      BY <2>1, <3>1, DiskAssumption DEF write_log, write_log_block, bread, TypeOK
  <2>2. CASE write_log_end(p)
    BY <2>2 DEF write_log, write_log_end, bread
  <2> QED
    BY <2>1, <2>2 DEF write_log
<1> QED
  BY <1>0, <1>1, <1>2, <1>3, SameCurrent DEF write_log

\* write_head() is the commit of Txn.
LEMMA WriteHeadRefines ==
  ASSUME TypeOK, LogInv, NEW p \in Procs, write_head(p)
  PROVE  Abstract!commit
<1>0. /\ boot = "run" /\ head = <<>> /\ tail = 0
      /\ \A i \in 1..Len(lh) : Logged(i)
      /\ \A q \in Procs : pc[q] \notin {"install", "clear"} /\ blk[q] = NULL
      /\ Active = {}
  BY CommitFacts DEF write_head, InCommit, LogInv, CommitInv, Active
<1>1. Active' = Active /\ Current' = Current
  <2>1. Active' = Active
    BY DEF write_head, Active, Goto, TypeOK
  <2>2. \A x \in Blocks : bread(x)' = bread(x)
    BY DEF write_head, memVars, bread
  <2> QED
    BY <1>0, <2>1, <2>2, SameCurrent DEF write_head
<1>2. Recovered' = Recover(lh, logblk, home)
  BY DEF write_head, Recovered
<1>3. Current = [b \in Blocks |-> bread(b)]
  BY <1>0 DEF Current
<1>4. ASSUME NEW b \in Blocks
      PROVE  Recover(lh, logblk, home)[b] = bread(b)
  <2>1. Pending(b) <=> b \in SeqRange(lh)
    BY <1>0 DEF Pending, SeqRange
  <2>2. CASE b \in SeqRange(lh)
    <3>1. PICK i \in 1..Len(lh) : lh[i] = b
      BY <2>2 DEF SeqRange
    <3>2. cache[b] # NULL /\ cache[b] = logblk[i]
      BY <1>0, <2>1, <2>2, <3>1 DEF LogInv, CacheInv, Logged
    <3>3. Recover(lh, logblk, home)[b] = logblk[i]
      <4>1. lh \in Seq(Blocks) /\ Injective(lh)
        BY DEF TypeOK, LogInv, LogShape
      <4>2. \A j \in 1..Len(lh) : Recover(lh, logblk, home)[lh[j]] = logblk[j]
        BY <4>1, RecoverFacts
      <4> QED
        BY <3>1, <4>2
    <3> QED
      BY <3>2, <3>3 DEF bread
  <2>3. CASE b \notin SeqRange(lh)
    <3>1. bread(b) = home[b]
      BY <1>0, <2>1, <2>3, CleanBlock, DiskAssumption
    <3> QED
      BY <2>3, <3>1, RecoverFacts DEF TypeOK, LogInv, LogShape
  <2> QED
    BY <2>2, <2>3
<1>5. Recover(lh, logblk, home) = Current
  BY <1>3, <1>4, RecoverExt
<1> QED
  BY <1>0, <1>1, <1>2, <1>5 DEF Abstract!commit

\* Installing an entry of the header, in commit() or in recovery, writes at
\* home what recovery would write there.
LEMMA InstallKeeps ==
  ASSUME TypeOK, LogInv, head = lh, InstallBlock, head' = head, logblk' = logblk
  PROVE  Recovered' = Recovered
<1>1. lh[tail + 1] \in Blocks /\ lh[tail + 1] \in SeqRange(head)
  BY EntryFacts DEF InstallBlock, SeqRange
<1>2. \A b \in Blocks : b \notin SeqRange(head) => home'[b] = home[b]
  BY <1>1 DEF InstallBlock, TypeOK
<1> QED
  BY <1>2, RecoverSame DEF Recovered, TypeOK, LogInv, LogShape

\* install_trans(0) changes nothing that anybody sees.
LEMMA InstallRefines ==
  ASSUME TypeOK, LogInv, NEW p \in Procs, install(p)
  PROVE  Recovered' = Recovered /\ Current' = Current /\ Active' = Active
<1>0. /\ boot = "run" /\ head = lh
      /\ \A i \in 1..Len(lh) : i > tail => Logged(i)
  BY CommitFacts, EntryFacts DEF install, InCommit, LogInv, CommitInv
<1>1. Active' = Active
  BY DEF install, install_block, install_end, Active, Goto, TypeOK
<1>2. CASE install_block(p)
  <2>1. Recovered' = Recovered
    BY <1>0, <1>2, InstallKeeps DEF install, install_block
  <2>2. /\ tail + 1 \in 1..Len(lh) /\ lh[tail + 1] \in Blocks
        /\ logblk[tail + 1] \in Values
        /\ cache[lh[tail + 1]] = logblk[tail + 1]
    BY <1>0, <1>2, EntryFacts DEF install_block, InstallBlock, Logged, TypeOK
  <2>3. \A x \in Blocks : bread(x)' = bread(x)
    BY <1>2, <2>2, DiskAssumption DEF install_block, InstallBlock, bread, TypeOK
  <2> QED
    BY <1>0, <1>1, <2>1, <2>3, SameCurrent DEF install
<1>3. CASE install_end(p)
  BY <1>1, <1>3, SameDisk DEF install, install_end, InstallEnd, diskVars
<1> QED
  BY <1>2, <1>3 DEF install

\* When all of the header is at home, erasing it changes nothing.
LEMMA EraseKeeps ==
  ASSUME TypeOK, LogInv, head = lh, \A i \in 1..Len(lh) : Installed(i)
  PROVE  Recovered = home
<1>1. ASSUME NEW b \in Blocks PROVE Recover(head, logblk, home)[b] = home[b]
  <2>1. CASE b \in SeqRange(head)
    <3>1. PICK i \in 1..Len(head) : head[i] = b
      BY <2>1 DEF SeqRange
    <3>2. Recover(head, logblk, home)[head[i]] = logblk[i]
      <4>1. head \in Seq(Blocks) /\ Injective(head)
        BY DEF TypeOK, LogInv, LogShape
      <4>2. \A j \in 1..Len(head) : Recover(head, logblk, home)[head[j]] = logblk[j]
        BY <4>1, RecoverFacts
      <4> QED
        BY <4>2
    <3>3. home[head[i]] = logblk[i]
      BY DEF Installed
    <3> QED
      BY <3>1, <3>2, <3>3
  <2>2. CASE b \notin SeqRange(head)
    BY <2>2, RecoverFacts DEF TypeOK, LogInv, LogShape
  <2> QED
    BY <2>1, <2>2
<1> QED
  BY <1>1, RecoverExt DEF Recovered, TypeOK

\* log.lh.n = 0; write_head() changes nothing that anybody sees.
LEMMA ClearRefines ==
  ASSUME TypeOK, LogInv, NEW p \in Procs, clear(p)
  PROVE  Recovered' = Recovered /\ Current' = Current /\ Active' = Active
<1>0. boot = "run" /\ head = lh /\ \A i \in 1..Len(lh) : Installed(i)
  BY CommitFacts DEF clear, InCommit, LogInv, CommitInv
<1>1. Active' = Active
  BY DEF clear, Active, Goto, TypeOK
<1>2. Recovered' = home
  BY RecoverEmpty DEF clear, Recovered, TypeOK
<1>3. Recovered = home
  BY <1>0, EraseKeeps
<1>4. Current' = Current
  BY <1>0 DEF clear, Current, bread
<1> QED
  BY <1>1, <1>2, <1>3, <1>4

\* bget() recycles only buffers that are as on disk.
LEMMA EvictRefines ==
  ASSUME TypeOK, LogInv, NEW b \in Blocks, evict(b)
  PROVE  Recovered' = Recovered /\ Current' = Current /\ Active' = Active
<1>1. Active' = Active /\ Recovered' = Recovered
  BY DEF evict, Active, diskVars, Recovered, Recover, SeqRange
<1>2. CASE boot = "run"
  <2>1. ~Pending(b) /\ bread(b) = home[b]
    <3>1. ~Pending(b)
      BY <1>2 DEF evict, LogInv, CacheInv
    <3> QED
      BY <1>2, <3>1, CleanBlock DEF evict
  <2>2. \A x \in Blocks : bread(x)' = bread(x)
    BY <2>1 DEF evict, bread, diskVars, TypeOK
  <2> QED
    BY <1>1, <1>2, <2>2, SameCurrent DEF evict
<1>3. CASE boot # "run"
  BY <1>1, <1>3 DEF evict, Current
<1> QED
  BY <1>2, <1>3

\* A crash is a crash of Txn: recovery will find what was durable.
LEMMA CrashRefines == crash => Abstract!crash
BY DEF crash, diskVars, Recovered, Recover, SeqRange, Current, Active, Abstract!crash

\* Recovery changes nothing that anybody sees, at any of its steps.
LEMMA RecoverRefines ==
  ASSUME TypeOK, LogInv, recover_from_log
  PROVE  Recovered' = Recovered /\ Current' = Current /\ Active' = Active
<1>1. Active' = Active
  BY DEF recover_from_log, read_head, recover_install, recover_clear, Active
<1>2. CASE read_head
  <2>1. Recovered' = Recovered
    BY <1>2 DEF read_head, diskVars, Recovered, Recover, SeqRange
  <2> QED
    BY <1>1, <1>2, <2>1 DEF read_head, Current
<1>3. CASE recover_install
  <2>1. boot # "run" /\ boot' # "run" /\ head = lh
    BY <1>3 DEF recover_install, LogInv, RecoverInv
  <2>2. Recovered' = Recovered
    <3>1. CASE InstallBlock
      BY <1>3, <2>1, <3>1, InstallKeeps DEF recover_install
    <3>2. CASE InstallEnd
      BY <1>3, <3>2 DEF recover_install, InstallEnd, Recovered, Recover, SeqRange
    <3> QED
      BY <1>3, <3>1, <3>2 DEF recover_install
  <2> QED
    BY <1>1, <2>1, <2>2 DEF Current
<1>4. CASE recover_clear
  <2>1. /\ head = lh /\ (\A i \in 1..Len(lh) : Installed(i))
        /\ \A b \in Blocks : cache[b] \in {NULL, home[b]}
    BY <1>4 DEF recover_clear, LogInv, RecoverInv
  <2>2. Recovered = home
    BY <2>1, EraseKeeps
  <2>3. Recovered' = home
    BY <1>4, RecoverEmpty DEF recover_clear, Recovered, TypeOK
  <2>4. Current = home
    BY <1>4, <2>2 DEF recover_clear, Current
  <2>5. Current' = home
    BY <1>4, <2>1 DEF recover_clear, Current, bread, TypeOK
  <2> QED
    BY <1>1, <2>2, <2>3, <2>4, <2>5
<1> QED
  BY <1>2, <1>3, <1>4 DEF recover_from_log

\* Every step of the log maps to a step of Txn or to a stuttering step.
LEMMA StepRefines ==
  TypeOK /\ LogInv /\ [Next]_vars => [Abstract!Next]_(Abstract!vars)
<1> SUFFICES ASSUME TypeOK, LogInv, [Next]_vars
             PROVE  [Abstract!Next]_(Abstract!vars)
  OBVIOUS
<1> DEFINE Stutter == Recovered' = Recovered /\ Current' = Current /\ Active' = Active
<1>0. Stutter => [Abstract!Next]_(Abstract!vars)
  BY DEF Abstract!vars
<1>1. CASE UNCHANGED vars
  BY <1>0, <1>1, SameDisk DEF vars, diskVars, memVars, Active
<1>2. ASSUME NEW p \in Procs, call(p) \/ log_write(p) \/ done(p)
      PROVE  [Abstract!Next]_(Abstract!vars)
  <2>1. UNCHANGED <<diskVars, cache, boot>>
    BY <1>2 DEF call, log_write, done, memVars
  <2>2. Active' = Active
    BY <1>2
    DEF call, log_write, log_write_panic, log_write_absorb, log_write_append,
        done, WakeupAnd, Active, Goto, TypeOK
  <2> QED
    BY <1>0, <2>1, <2>2, SameDisk
<1>3. ASSUME NEW p \in Procs, begin_op(p)
      PROVE  [Abstract!Next]_(Abstract!vars)
  <2>1. Recovered' = Recovered /\ Current' = Current
    BY <1>3, SameDisk DEF begin_op
  <2>2. CASE begin_op_wait(p)
    <3>1. Active' = Active
      BY <1>3, <2>2 DEF begin_op, begin_op_wait, Active, Goto, TypeOK
    <3> QED
      BY <1>0, <2>1, <3>1
  <2>3. CASE begin_op_enter(p)
    <3>1. p \notin Active /\ Active' = Active \cup {p}
      BY <1>3, <2>3 DEF begin_op, begin_op_enter, Active, Goto, TypeOK
    <3>2. Abstract!begin_op(p)
      BY <2>1, <3>1 DEF Abstract!begin_op
    <3> QED
      BY <3>2 DEF Abstract!Next
  <2> QED
    BY <1>3, <2>2, <2>3 DEF begin_op
<1>4. ASSUME NEW p \in Procs, end_op(p)
      PROVE  [Abstract!Next]_(Abstract!vars)
  <2>1. Recovered' = Recovered /\ Current' = Current
    BY <1>4, SameDisk DEF end_op
  <2>2. p \in Active /\ Active' = Active \ {p}
    BY <1>4 DEF end_op, end_op_last, end_op_more, WakeupAnd, Active, Goto, TypeOK
  <2>3. Abstract!end_op(p)
    BY <2>1, <2>2 DEF Abstract!end_op
  <2> QED
    BY <2>3 DEF Abstract!Next
<1>5. ASSUME NEW p \in Procs, NEW b \in Blocks, NEW v \in Values, modify(p, b, v)
      PROVE  [Abstract!Next]_(Abstract!vars)
  <2>1. Abstract!write(p, b, v)
    BY <1>5, ModifyRefines
  <2> QED
    BY <2>1 DEF Abstract!Next
<1>6. ASSUME NEW p \in Procs, write_log(p) \/ install(p) \/ clear(p)
      PROVE  [Abstract!Next]_(Abstract!vars)
  BY <1>0, <1>6, WriteLogRefines, InstallRefines, ClearRefines
<1>7. ASSUME NEW p \in Procs, write_head(p)
      PROVE  [Abstract!Next]_(Abstract!vars)
  <2>1. Abstract!commit
    BY <1>7, WriteHeadRefines
  <2> QED
    BY <2>1 DEF Abstract!Next
<1>8. CASE (\E b \in Blocks : evict(b)) \/ recover_from_log
  BY <1>0, <1>8, EvictRefines, RecoverRefines
<1>9. CASE crash
  <2>1. Abstract!crash
    BY <1>9, CrashRefines
  <2> QED
    BY <2>1 DEF Abstract!Next
<1> QED
  BY <1>1, <1>2, <1>3, <1>4, <1>5, <1>6, <1>7, <1>8, <1>9 DEF Next, Step

\* mkfs leaves an empty log and the initial disk.
LEMMA InitRefines == Init => Abstract!Init
<1> SUFFICES ASSUME Init PROVE Abstract!Init
  OBVIOUS
<1>1. Recovered = InitDisk
  BY RecoverEmpty, DiskAssumption DEF Init, Recovered
<1>2. Current = InitDisk /\ Active = {}
  BY <1>1 DEF Init, Current, Active
<1> QED
  BY <1>1, <1>2 DEF Abstract!Init

\* The log implements atomic group commit: whatever the moment of a crash, of
\* a crash during recovery too, the disk after recovery holds whole groups of
\* finished system calls.
THEOREM LogIsAtomic == Spec => AtomicCommit
<1>1. TypeOK /\ LogInv /\ [Next]_vars => [Abstract!Next]_(Abstract!vars)
  BY StepRefines
<1> QED
  BY <1>1, InitRefines, LogCorrect, PTL DEF Spec, AtomicCommit, Abstract!Spec
=============================================================================
