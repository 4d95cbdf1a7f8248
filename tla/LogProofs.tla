----------------------------- MODULE LogProofs ------------------------------
(***************************************************************************)
(* The inductive invariant of Log, and what follows from it: a commit runs *)
(* alone, and a process waiting for the log has somebody to wake it.       *)
(***************************************************************************)
EXTENDS LogCommitProofs

\* Every step keeps the types and the invariant.
LEMMA LogInductive == TypeOK /\ LogInv /\ [Next]_vars => TypeOK' /\ LogInv'
<1> SUFFICES ASSUME TypeOK, LogInv, [Next]_vars PROVE TypeOK' /\ LogInv'
  OBVIOUS
<1>0. /\ LogShape /\ OpInv /\ CountInv /\ CommitInv /\ CacheInv /\ RecoverInv
      /\ LOGSIZE \in Nat /\ NULL \notin Values /\ NULL \notin Blocks
  BY DiskAssumption, SizeAssumption DEF LogInv
<1>t. /\ home \in [Blocks -> Values]
      /\ cache \in [Blocks -> Values \cup {NULL}]
      /\ pin \in [Blocks -> Nat]
      /\ pc \in [Procs -> Labels]
      /\ blk \in [Procs -> Blocks \cup {NULL}]
  BY DEF TypeOK
<1>e. /\ Len(lh) \in 0..LOGSIZE /\ Len(head) \in 0..LOGSIZE /\ tail \in Nat
      /\ \A i \in 1..Len(lh) : lh[i] \in Blocks /\ i \in 1..LOGSIZE
      /\ \A i \in 1..Len(head) : head[i] \in Blocks /\ i \in 1..LOGSIZE
      /\ logblk \in [1..LOGSIZE -> Values]
  BY SMTT(30), EntryFacts DEF TypeOK
<1> USE <1>0, <1>t DEF diskVars, memVars, Goto
<1>1. CASE UNCHANGED vars
  BY <1>1
  DEF vars, TypeOK, LogInv, LogShape, OpInv, CountInv, CommitInv, CacheInv, RecoverInv,
      Active, Logged, Installed, Pending
<1>2. ASSUME NEW p \in Procs, call(p) \/ Step(p)
      PROVE  TypeOK' /\ LogInv'
  BY <1>2, CallKeeps, CommitKeeps DEF Step
<1>3. ASSUME NEW p \in Procs, NEW b \in Blocks, NEW v \in Values, modify(p, b, v)
      PROVE  TypeOK' /\ LogInv'
  <2>0. /\ boot = "run" /\ ~committing /\ head = <<>> /\ tail = 0
        /\ \A q \in Procs : pc[q] \notin InCommit
    BY <1>3, ActiveFacts DEF modify
  <2>1. TypeOK'
    BY <1>3, <2>0 DEF modify, TypeOK, Labels
  <2>2. LogShape'
    BY <1>3, <2>0, <1>e, SMTT(20) DEF modify, LogShape, Injective
  <2>3. OpInv'
    BY <1>3, <2>0 DEF modify, OpInv, InCommit, Active
  <2>4. CountInv'
    BY <1>3, <2>0, Zenon DEF modify, CountInv, Active
  <2>5. CommitInv'
    BY <1>3, <2>0 DEF modify, CommitInv, Logged, Installed, InCommit
  <2>6. CacheInv'
    <3>1. /\ lh' = lh /\ tail' = tail
          /\ \A q \in Procs : pc'[q] = "install" <=> pc[q] = "install"
          /\ \A q \in Procs : pc'[q] = "clear" <=> pc[q] = "clear"
      BY <1>3, <2>0, <1>e DEF modify, InCommit
    <3>2. \A x \in Blocks : Pending(x)' <=> Pending(x)
      BY <3>1, PendingSame, Zenon
    <3>3. /\ cache'[b] = v /\ v # NULL /\ blk'[p] = b
          /\ \A x \in Blocks : x # b => cache'[x] = cache[x]
          /\ \A q \in Procs : q # p => blk'[q] = blk[q]
          /\ blk[p] = NULL /\ NULL \notin Blocks
      BY <1>3, <2>0, <1>e DEF modify, OpInv
    <3>4. /\ home' = home /\ pin' = pin /\ boot' = boot
      BY <1>3, <2>0, <1>e DEF modify
    <3> SUFFICES ASSUME boot = "run", NEW x \in Blocks
         PROVE /\ Pending(x)' => pin'[x] = 1 /\ cache'[x] # NULL
               /\ ~Pending(x)' => pin'[x] = 0
               /\ \A q \in Procs : blk'[q] = x => cache'[x] # NULL
               /\ ~Pending(x)' /\ (\A q \in Procs : blk'[q] # x) =>
                    cache'[x] \in {NULL, home'[x]}
      BY <3>4, Zenon DEF CacheInv
    <3>5. CASE x = b
      BY <3>2, <3>3, <3>4, <3>5 DEF CacheInv
    <3>6. CASE x # b
      <4>1. \A q \in Procs : blk'[q] = x <=> blk[q] = x
        <5> SUFFICES ASSUME NEW q \in Procs PROVE blk'[q] = x <=> blk[q] = x
          OBVIOUS
        <5>1. CASE q = p
          BY <3>3, <3>6, <5>1, Zenon
        <5>2. CASE q # p
          BY <3>3, <5>2, Zenon
        <5> QED
          BY <5>1, <5>2
      <4> QED
        BY <4>1, <3>2, <3>3, <3>4, <3>6 DEF CacheInv
    <3> QED
      BY <3>5, <3>6
  <2>7. RecoverInv'
    BY <1>3, <2>0 DEF modify, RecoverInv, Installed
  <2> QED
    BY <2>1, <2>2, <2>3, <2>4, <2>5, <2>6, <2>7 DEF LogInv
<1>4. CASE \E b \in Blocks : evict(b)
  <2>1. TypeOK'
    BY <1>4 DEF evict, TypeOK, Labels
  <2>2. LogShape'
    BY <1>4 DEF evict, LogShape, Injective
  <2>3. OpInv'
    BY <1>4 DEF evict, OpInv, InCommit, Active
  <2>4. CountInv'
    BY <1>4 DEF evict, CountInv, Active
  <2>5. CommitInv'
    <3> SUFFICES ASSUME NEW b \in Blocks, evict(b) PROVE CommitInv'
      BY <1>4, <1>e
    <3>1. /\ head' = head /\ lh' = lh /\ tail' = tail /\ pc' = pc /\ boot' = boot
          /\ home' = home /\ logblk' = logblk /\ committing' = committing
          /\ outstanding' = outstanding
          /\ ~(boot = "run" /\ Pending(b))
          /\ \A x \in Blocks : x # b => cache'[x] = cache[x]
      BY DEF evict, CacheInv
    <3>2. ASSUME NEW p \in Procs, pc[p] \in {"write_log", "write_head", "install"},
                NEW i \in 1..Len(lh), pc[p] = "install" => i > tail, Logged(i)
         PROVE  Logged(i)'
      <4>1. boot = "run" /\ \A q \in Procs : pc[q] \in InCommit => q = p
        BY <3>2, CommitFacts DEF InCommit, LogInv
      <4>2. lh[i] # b
        BY <3>1, <3>2, <4>1 DEF Pending, InCommit
      <4> QED
        BY <1>e, <3>1, <3>2, <4>2 DEF Logged
    <3>3. \A i \in 1..Len(lh) : Installed(i) => Installed(i)'
      BY <1>e, <3>1 DEF Installed
    <3>4. tail \in 0..Len(lh)
      BY <1>e DEF LogShape
    <3> SUFFICES ASSUME NEW p \in Procs
         PROVE /\ pc[p] = "write_log" => \A i \in 1..tail : Logged(i)'
               /\ pc[p] = "write_head" => \A i \in 1..Len(lh) : Logged(i)'
               /\ pc[p] = "install" =>
                    \A i \in 1..Len(lh) :
                      IF i <= tail THEN Installed(i)' ELSE Logged(i)'
               /\ pc[p] = "clear" => \A i \in 1..Len(lh) : Installed(i)'
      BY <3>1 DEF CommitInv
    <3>5. CASE pc[p] = "write_log"
      <4>1. \A i \in 1..tail : i \in 1..Len(lh) /\ Logged(i)
        BY <3>4, <3>5 DEF CommitInv
      <4> QED
        BY <4>1, <3>2, <3>5, Zenon
    <3>6. CASE pc[p] = "write_head"
      BY <3>2, <3>6 DEF CommitInv
    <3>7. CASE pc[p] = "install"
      BY <3>2, <3>3, <3>4, <3>7 DEF CommitInv
    <3>8. CASE pc[p] = "clear"
      BY <3>3, <3>8 DEF CommitInv
    <3> QED
      BY <3>5, <3>6, <3>7, <3>8
  <2>6. CacheInv'
    <3> SUFFICES ASSUME NEW b \in Blocks, evict(b) PROVE CacheInv'
      BY <1>4, <1>e
    <3>1. /\ lh' = lh /\ tail' = tail /\ pc' = pc
          /\ UNCHANGED <<boot, pin, blk, home>>
          /\ pin[b] = 0 /\ (\A q \in Procs : blk[q] # b) /\ cache'[b] = NULL
          /\ \A x \in Blocks : x # b => cache'[x] = cache[x]
      BY DEF evict
    <3>2. \A x \in Blocks : Pending(x)' <=> Pending(x)
      BY <3>1, PendingSame, Zenon
    <3> SUFFICES ASSUME boot = "run", NEW x \in Blocks
         PROVE /\ Pending(x)' => pin'[x] = 1 /\ cache'[x] # NULL
               /\ ~Pending(x)' => pin'[x] = 0
               /\ \A q \in Procs : blk'[q] = x => cache'[x] # NULL
               /\ ~Pending(x)' /\ (\A q \in Procs : blk'[q] # x) =>
                    cache'[x] \in {NULL, home'[x]}
      BY <3>1, Zenon DEF CacheInv
    <3>3. CASE x = b
      BY <3>1, <3>2, <3>3 DEF CacheInv
    <3>4. CASE x # b
      BY <3>1, <3>2, <3>4 DEF CacheInv
    <3> QED
      BY <3>3, <3>4
  <2>7. RecoverInv'
    BY <1>4 DEF evict, RecoverInv, Installed
  <2> QED
    BY <2>1, <2>2, <2>3, <2>4, <2>5, <2>6, <2>7 DEF LogInv
<1>5. CASE crash
  <2>1. TypeOK'
    <3>1. /\ pc' \in [Procs -> Labels] /\ blk' \in [Procs -> Blocks \cup {NULL}]
          /\ wrote' \in [Procs -> SUBSET Blocks]
      BY <1>5, <1>e, Zenon DEF crash, Labels
    <3>2. /\ cache' \in [Blocks -> Values \cup {NULL}] /\ pin' \in [Blocks -> Nat]
          /\ lh' \in Seq(Blocks) /\ outstanding' \in Int /\ tail' \in Nat
      BY <1>5, <1>e DEF crash
    <3>3. committing' \in BOOLEAN /\ boot' \in {"read_head", "install", "clear", "run"}
      BY <1>5, <1>e, Zenon DEF crash
    <3>4. /\ home' \in [Blocks -> Values] /\ logblk' \in [1..LOGSIZE -> Values]
          /\ head' \in Seq(Blocks)
      BY <1>5, <1>e DEF crash, TypeOK
    <3> QED
      BY <3>1, <3>2, <3>3, <3>4, Zenon DEF TypeOK
  <2>2. LogShape'
    BY <1>5 DEF crash, LogShape, Injective
  <2>3. OpInv'
    BY <1>5 DEF crash, OpInv, InCommit, Active
  <2>4. CountInv'
    <3>1. Active' = {}
      BY <1>5, <1>e DEF crash, Active
    <3> QED
      BY <1>5, <1>e, <3>1, FS_EmptySet DEF crash, CountInv
  <2>5. CommitInv'
    BY SMTT(30), <1>5 DEF crash, CommitInv, Logged, Installed, InCommit
  <2>6. CacheInv'
    BY <1>5 DEF crash, CacheInv, Pending
  <2>7. RecoverInv'
    BY <1>5 DEF crash, RecoverInv, Installed
  <2> QED
    BY <2>1, <2>2, <2>3, <2>4, <2>5, <2>6, <2>7 DEF LogInv
<1>6. CASE read_head
  <2>1. TypeOK'
    BY <1>6 DEF read_head, TypeOK, Labels
  <2>2. LogShape'
    BY <1>6, <1>e, SMTT(20)
    DEF read_head, LogShape, Injective, OpInv, InCommit, Active, CommitInv,
        Logged, Installed, RecoverInv
  <2>3. OpInv'
    BY <1>6 DEF read_head, OpInv, InCommit, Active
  <2>4. CountInv'
    BY <1>6 DEF read_head, CountInv, Active
  <2>5. CommitInv'
    BY <1>6, <1>e, SMTT(20)
    DEF read_head, CommitInv, Logged, Installed, InCommit, OpInv, Active,
        RecoverInv, LogShape, Injective
  <2>6. CacheInv'
    BY <1>6 DEF read_head, CacheInv, Pending
  <2>7. RecoverInv'
    BY <1>6 DEF read_head, RecoverInv, Installed
  <2> QED
    BY <2>1, <2>2, <2>3, <2>4, <2>5, <2>6, <2>7 DEF LogInv
<1>7. CASE recover_install
  <2>1. TypeOK'
    <3>1. CASE InstallBlock /\ UNCHANGED boot
      <4>1. /\ tail + 1 \in 1..Len(lh) /\ tail + 1 \in 1..LOGSIZE
            /\ lh[tail + 1] \in Blocks /\ logblk[tail + 1] \in Values
        BY <1>e, <3>1 DEF InstallBlock
      <4> QED
        BY <1>7, <1>e, <3>1, <4>1 DEF TypeOK, recover_install, InstallBlock
    <3>2. CASE InstallEnd /\ boot' = "clear"
      BY <1>7, <1>e, <3>2 DEF TypeOK, recover_install, InstallEnd
    <3> QED
      BY <1>7, <1>e, <3>1, <3>2 DEF recover_install
  <2>2. LogShape'
    BY <1>7, <1>e, SMTT(20)
    DEF recover_install, InstallBlock, InstallEnd, LogShape, Injective
  <2>3. OpInv'
    BY <1>7
    DEF recover_install, InstallBlock, InstallEnd, OpInv, InCommit, Active
  <2>4. CountInv'
    BY SMTT(30), <1>7 DEF recover_install, InstallBlock, InstallEnd, CountInv, Active
  <2>5. CommitInv'
    BY <1>7, <1>e, SMTT(20)
    DEF recover_install, InstallBlock, InstallEnd, CommitInv, Logged,
        Installed, InCommit, OpInv, Active, RecoverInv, LogShape, Injective
  <2>6. CacheInv'
    BY <1>7 DEF recover_install, InstallBlock, InstallEnd, CacheInv, Pending
  <2>7. RecoverInv'
    <3>1. CASE InstallBlock /\ UNCHANGED boot
      <4>1. /\ tail + 1 \in 1..Len(lh) /\ tail + 1 \in 1..LOGSIZE
            /\ lh[tail + 1] \in Blocks /\ logblk[tail + 1] \in Values
        BY <1>e, <3>1 DEF InstallBlock
      <4>2. \A i \in 1..(tail + 1) : Installed(i)'
        <5> SUFFICES ASSUME NEW i \in 1..(tail + 1) PROVE Installed(i)'
          OBVIOUS
        <5>1. CASE i = tail + 1
          BY <1>7, <1>e, <3>1, <4>1, <5>1 DEF recover_install, InstallBlock, Installed
        <5>2. CASE i # tail + 1
          <6>1. i \in 1..tail /\ i \in 1..Len(lh) /\ Installed(i) /\ lh[i] # lh[tail + 1]
            BY <1>7, <1>e, <4>1, <5>2 DEF recover_install, RecoverInv, LogShape, Injective
          <6> QED
            BY <1>7, <1>e, <3>1, <4>1, <6>1 DEF recover_install, InstallBlock, Installed
        <5> QED
          BY <5>1, <5>2
      <4> QED
        BY <1>7, <1>e, <3>1, <4>1, <4>2 DEF recover_install, InstallBlock, RecoverInv
    <3>2. CASE InstallEnd /\ boot' = "clear"
      BY <1>7, <1>e, <3>2 DEF recover_install, InstallEnd, RecoverInv, Installed
    <3> QED
      BY <1>7, <1>e, <3>1, <3>2 DEF recover_install
  <2> QED
    BY <2>1, <2>2, <2>3, <2>4, <2>5, <2>6, <2>7 DEF LogInv
<1>8. CASE recover_clear
  <2>1. TypeOK'
    BY <1>8 DEF recover_clear, TypeOK, Labels
  <2>2. LogShape'
    BY <1>8, <1>e, SMTT(20)
    DEF recover_clear, LogShape, Injective, OpInv, InCommit, Active,
        CommitInv, Logged, Installed, RecoverInv
  <2>3. OpInv'
    BY <1>8 DEF recover_clear, OpInv, InCommit, Active
  <2>4. CountInv'
    BY <1>8 DEF recover_clear, CountInv, Active
  <2>5. CommitInv'
    BY <1>8, <1>e, SMTT(20)
    DEF recover_clear, CommitInv, Logged, Installed, InCommit, OpInv, Active,
        RecoverInv, LogShape, Injective
  <2>6. CacheInv'
    <3>1. \A x \in Blocks : ~Pending(x)'
      BY <1>8, <1>e DEF recover_clear, Pending
    <3>2. \A q \in Procs : blk[q] = NULL
      BY <1>8, <1>e DEF recover_clear, RecoverInv, OpInv
    <3> QED
      BY <1>8, <1>e, <3>1, <3>2 DEF recover_clear, RecoverInv, CacheInv
  <2>7. RecoverInv'
    BY <1>8 DEF recover_clear, RecoverInv, Installed
  <2> QED
    BY <2>1, <2>2, <2>3, <2>4, <2>5, <2>6, <2>7 DEF LogInv
<1> QED
  BY <1>1, <1>2, <1>3, <1>4, <1>5, <1>6, <1>7, <1>8 DEF Next, recover_from_log

\* The file system of mkfs satisfies the invariant.
LEMMA LogInit == Init => TypeOK /\ LogInv
<1> SUFFICES ASSUME Init PROVE TypeOK /\ LogInv
  OBVIOUS
<1>1. TypeOK
  <2>1. /\ home \in [Blocks -> Values]
        /\ logblk \in [1..LOGSIZE -> Values]
        /\ head \in Seq(Blocks) /\ lh \in Seq(Blocks)
        /\ outstanding \in Int /\ tail \in Nat
    BY DiskAssumption DEF Init
  <2>2. /\ cache \in [Blocks -> Values \cup {NULL}]
        /\ pin \in [Blocks -> Nat]
        /\ pc \in [Procs -> Labels]
        /\ blk \in [Procs -> Blocks \cup {NULL}]
    BY DEF Init, Labels
  <2>3. committing \in BOOLEAN /\ wrote \in [Procs -> SUBSET Blocks]
    BY Zenon DEF Init
  <2>4. boot \in {"read_head", "install", "clear", "run"}
    BY DEF Init
  <2> QED
    BY <2>1, <2>2, <2>3, <2>4 DEF TypeOK
<1>2. Active = {}
  BY DEF Init, Active
<1>3. LogShape /\ CountInv
  BY <1>2, FS_EmptySet, SizeAssumption DEF Init, LogShape, Injective, CountInv
<1>4. OpInv
  BY <1>2, DiskAssumption DEF Init, OpInv, InCommit
<1>5. CommitInv /\ CacheInv /\ RecoverInv
  BY DEF Init, CommitInv, CacheInv, RecoverInv
<1> QED
  BY <1>1, <1>3, <1>4, <1>5 DEF LogInv

\* The types and the invariant hold in every reachable state of the log.
THEOREM LogCorrect == Spec => [](TypeOK /\ LogInv)
<1>1. Init => TypeOK /\ LogInv
  BY LogInit
<1>2. TypeOK /\ LogInv /\ [Next]_vars => (TypeOK /\ LogInv)'
  BY LogInductive
<1> QED
  BY <1>1, <1>2, PTL DEF Spec

-----------------------------------------------------------------------------
(* Commits and waiters                                                     *)

\* commit() is never concurrent with a system call or another commit, and
\* log.outstanding is exact.
THEOREM CommitsAlone == Spec => []CommitAlone
<1>1. TypeOK /\ LogInv => CommitAlone
  BY DEF LogInv, OpInv, CountInv, CommitAlone
<1> QED
  BY <1>1, LogCorrect, PTL

\* No step leaves a process asleep in begin_op() with nobody to wake it.
LEMMA WaiterInductive ==
  TypeOK /\ LogInv /\ WaiterHasWaker /\ [Next]_vars => WaiterHasWaker'
<1> SUFFICES ASSUME TypeOK, LogInv, WaiterHasWaker, [Next]_vars
             PROVE  WaiterHasWaker'
  OBVIOUS
<1> USE DEF TypeOK, WaiterHasWaker, Goto
<1>1. CASE UNCHANGED vars
  BY <1>1 DEF vars, memVars
<1>2. ASSUME NEW p \in Procs, begin_op(p) PROVE WaiterHasWaker'
  <2>1. CASE begin_op_wait(p)
    <3>1. outstanding > 0 \/ committing
      <4> SUFFICES ASSUME ~committing, outstanding = 0 PROVE FALSE
        BY ProcsAssumption, FS_Subset, FS_CardinalityType
        DEF LogInv, CountInv, Active
      <4>1. boot = "run"
        BY <1>2 DEF begin_op, LogInv, RecoverInv
      <4>2. lh = <<>>
        BY <4>1 DEF LogInv, CommitInv
      <4>3. Len(lh) + (outstanding + 1) * MAXOPBLOCKS = MAXOPBLOCKS
        BY <4>2, SizeAssumption
      <4> QED
        BY <2>1, <4>3, SizeAssumption DEF begin_op_wait, MustWait
    <3> QED
      BY <1>2, <2>1, <3>1 DEF begin_op, begin_op_wait
  <2>2. CASE begin_op_enter(p)
    BY <1>2, <2>2, ProcsAssumption, FS_Subset, FS_CardinalityType
    DEF begin_op, begin_op_enter, LogInv, CountInv, Active
  <2> QED
    BY <1>2, <2>1, <2>2 DEF begin_op
<1>3. ASSUME NEW p \in Procs, end_op(p) PROVE WaiterHasWaker'
  BY <1>3 DEF end_op, end_op_last, end_op_more, WakeupAnd
<1>4. ASSUME NEW p \in Procs, done(p) PROVE WaiterHasWaker'
  BY <1>4 DEF done, WakeupAnd
<1>5. ASSUME NEW p \in Procs,
             \/ call(p) \/ log_write(p) \/ write_log(p) \/ write_head(p)
             \/ install(p) \/ clear(p)
             \/ \E b \in Blocks, v \in Values : modify(p, b, v)
      PROVE  WaiterHasWaker'
  BY <1>5, Zenon
  DEF call, log_write, log_write_panic, log_write_absorb, log_write_append,
      write_log, write_log_block, write_log_end, write_head, install,
      install_block, install_end, clear, modify, memVars
<1>6. CASE (\E b \in Blocks : evict(b)) \/ crash \/ recover_from_log
  BY <1>6
  DEF evict, crash, recover_from_log, read_head, recover_install, recover_clear
<1> QED
  BY <1>1, <1>2, <1>3, <1>4, <1>5, <1>6 DEF Next, Step

\* A process asleep in begin_op() always has somebody left to wake it.
THEOREM WaitersHaveWakers == Spec => []WaiterHasWaker
<1>1. Init => WaiterHasWaker
  BY DEF Init, WaiterHasWaker
<1> QED
  BY <1>1, WaiterInductive, LogCorrect, PTL DEF Spec
=============================================================================
