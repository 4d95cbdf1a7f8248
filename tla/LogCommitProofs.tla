-------------------------- MODULE LogCommitProofs ---------------------------
(***************************************************************************)
(* The steps of commit() keep the inductive invariant of Log.              *)
(***************************************************************************)
EXTENDS LogOpProofs

\* The steps of commit() keep the types and the invariant.
LEMMA CommitKeeps ==
  ASSUME TypeOK, LogInv, NEW p \in Procs,
         write_log(p) \/ write_head(p) \/ install(p) \/ clear(p) \/ done(p)
  PROVE  TypeOK' /\ LogInv'
<1>0. /\ LogShape /\ OpInv /\ CountInv /\ CommitInv /\ CacheInv /\ RecoverInv
      /\ LOGSIZE \in Nat /\ NULL \notin Values /\ NULL \notin Blocks
  BY DiskAssumption, SizeAssumption DEF LogInv
<1>t. /\ home \in [Blocks -> Values]
      /\ cache \in [Blocks -> Values \cup {NULL}]
      /\ pin \in [Blocks -> Nat]
      /\ pc \in [Procs -> Labels]
      /\ blk \in [Procs -> Blocks \cup {NULL}]
  BY DEF TypeOK
<1>e. /\ Len(lh) \in 0..LOGSIZE /\ Len(head) \in 0..LOGSIZE /\ tail \in Nat
      /\ \A i \in 1..Len(lh) : lh[i] \in Blocks /\ i \in 1..LOGSIZE
      /\ \A i \in 1..Len(head) : head[i] \in Blocks /\ i \in 1..LOGSIZE
      /\ logblk \in [1..LOGSIZE -> Values]
  BY EntryFacts DEF TypeOK
<1> USE <1>0, <1>t DEF diskVars, memVars, Goto
<1>1. CASE write_log(p)
  <2>0. /\ boot = "run" /\ committing
        /\ \A q \in Procs : q # p => pc[q] \notin InCommit
        /\ \A q \in Procs : pc[q] \notin {"op", "modified", "panic"}
        /\ \A q \in Procs : blk[q] = NULL
    BY <1>1, CommitFacts DEF write_log, InCommit
  <2>1. CASE write_log_block(p)
    <3>1. TypeOK'
      BY <1>1, <2>1, <2>0, <1>e, SMTT(20)
      DEF write_log, write_log_block, bread, TypeOK, Labels
    <3>2. LogShape'
      BY <1>1, <2>1, <2>0, <1>e, SMTT(20)
      DEF write_log, write_log_block, bread, LogShape, Injective
    <3>3. OpInv'
      BY <1>1, <2>1, <2>0
      DEF write_log, write_log_block, bread, OpInv, InCommit, Active
    <3>4. CountInv'
      BY <1>1, <2>1, <2>0, Zenon
      DEF write_log, write_log_block, bread, CountInv, Active
    <3>5. CommitInv'
      <4>1. /\ tail + 1 \in 1..Len(lh) /\ tail + 1 \in 1..LOGSIZE
            /\ lh[tail + 1] \in Blocks /\ logblk[tail + 1] \in Values
        <5>1. tail + 1 \in 1..Len(lh) /\ tail + 1 \in 1..LOGSIZE
          BY <2>1, <1>e DEF write_log_block
        <5> QED
          BY SMTT(30), <5>1, <1>e
      <4>2. /\ head' = <<>> /\ pc' = pc /\ lh' = lh /\ tail' = tail + 1
        BY <1>1, <2>1, <2>0, <1>e, <4>1 DEF write_log, write_log_block, CommitInv
      <4>3. \A i \in 1..(tail + 1) : Logged(i)'
        <5> SUFFICES ASSUME NEW i \in 1..(tail + 1) PROVE Logged(i)'
          BY <4>1
        <5>1. CASE i = tail + 1
          BY <1>1, <2>1, <2>0, <1>e, <4>1, <5>1 DEF write_log, write_log_block, Logged
        <5>2. CASE i # tail + 1
          <6>1. i \in 1..tail /\ i \in 1..Len(lh) /\ Logged(i) /\ lh[i] # lh[tail + 1]
            <7>1. i \in 1..tail /\ i \in 1..Len(lh)
              BY <1>e, <4>1, <5>2
            <7>2. lh[i] # lh[tail + 1]
              BY SMTT(30), <4>1, <5>2, <7>1 DEF LogShape, Injective
            <7> QED
              BY <1>1, <2>1, <2>0, <1>e, <7>1, <7>2 DEF write_log, CommitInv
          <6> QED
            BY <1>1, <2>1, <2>0, <1>e, <4>1, <6>1 DEF write_log, write_log_block, Logged
        <5> QED
          BY <5>1, <5>2
      <4> QED
        BY <1>1, <2>1, <2>0, <1>e, <4>2, <4>3 DEF write_log, CommitInv, InCommit
    <3>6. CacheInv'
      <4>1. \A x \in Blocks : Pending(x)' <=> Pending(x)
        BY <1>1, <2>1, <2>0, <1>e, SMTT(20) DEF write_log, write_log_block, bread, Pending, InCommit
      <4> QED
        BY <1>1, <2>1, <2>0, <1>e, <4>1, SMTT(20) DEF write_log, write_log_block, bread, CacheInv
    <3>7. RecoverInv'
      BY <1>1, <2>1, <2>0
      DEF write_log, write_log_block, bread, RecoverInv, Installed
    <3> QED
      BY <3>1, <3>2, <3>3, <3>4, <3>5, <3>6, <3>7 DEF LogInv
  <2>2. CASE write_log_end(p)
    <3>1. TypeOK'
      BY <1>1, <2>2, <2>0 DEF write_log, write_log_end, TypeOK, Labels
    <3>2. LogShape'
      BY <1>1, <2>2, <2>0 DEF write_log, write_log_end, LogShape, Injective
    <3>3. OpInv'
      BY <1>1, <2>2, <2>0
      DEF write_log, write_log_end, OpInv, InCommit, Active
    <3>4. CountInv'
      BY <1>1, <2>2, <2>0, Zenon DEF write_log, write_log_end, CountInv, Active
    <3>5. CommitInv'
      BY <1>1, <2>2, <2>0
      DEF write_log, write_log_end, CommitInv, Logged, Installed, InCommit
    <3>6. CacheInv'
      <4>1. /\ lh' = lh
            /\ \A q \in Procs : /\ pc[q] \notin {"install", "clear"}
                                 /\ pc'[q] \notin {"install", "clear"}
        BY <1>1, <2>2, <2>0, <1>e DEF write_log, write_log_end, InCommit
      <4>2. \A x \in Blocks : Pending(x)' <=> Pending(x)
        BY <4>1, PendingOpen
      <4>3. UNCHANGED <<boot, pin, cache, blk, home>>
        BY <1>1, <2>2, <2>0, <1>e DEF write_log, write_log_end
      <4> QED
        BY <4>2, <4>3 DEF CacheInv
    <3>7. RecoverInv'
      BY <1>1, <2>2, <2>0
      DEF write_log, write_log_end, RecoverInv, Installed
    <3> QED
      BY <3>1, <3>2, <3>3, <3>4, <3>5, <3>6, <3>7 DEF LogInv
  <2> QED
    BY <1>1, <2>1, <2>2 DEF write_log
<1>2. CASE write_head(p)
  <2>0. /\ boot = "run" /\ committing
        /\ \A q \in Procs : q # p => pc[q] \notin InCommit
        /\ \A q \in Procs : pc[q] \notin {"op", "modified", "panic"}
        /\ \A q \in Procs : blk[q] = NULL
    BY <1>2, CommitFacts DEF write_head, InCommit
  <2>1. TypeOK'
    BY <1>2, <2>0 DEF write_head, TypeOK, Labels
  <2>2. LogShape'
    BY <1>2, <2>0 DEF write_head, LogShape, Injective
  <2>3. OpInv'
    BY <1>2, <2>0 DEF write_head, OpInv, InCommit, Active
  <2>4. CountInv'
    BY <1>2, <2>0, Zenon DEF write_head, CountInv, Active
  <2>5. CommitInv'
    BY <1>2, <2>0, <1>e, SMTT(20)
    DEF write_head, CommitInv, Logged, Installed, InCommit
  <2>6. CacheInv'
    <3>1. \A x \in Blocks : Pending(x)' <=> Pending(x)
      BY <1>2, <2>0, <1>e, SMTT(20) DEF write_head, CommitInv, Pending, InCommit
    <3> QED
      BY <1>2, <2>0, <1>e, <3>1, SMTT(20) DEF write_head, CommitInv, CacheInv
  <2>7. RecoverInv'
    BY <1>2, <2>0 DEF write_head, RecoverInv, Installed
  <2> QED
    BY <2>1, <2>2, <2>3, <2>4, <2>5, <2>6, <2>7 DEF LogInv
<1>3. CASE install(p)
  <2>0. /\ boot = "run" /\ committing
        /\ \A q \in Procs : q # p => pc[q] \notin InCommit
        /\ \A q \in Procs : pc[q] \notin {"op", "modified", "panic"}
        /\ \A q \in Procs : blk[q] = NULL
    BY SMTT(30), <1>3, CommitFacts DEF install, InCommit
  <2>1. CASE install_block(p)
    <3>1. TypeOK'
      <4>1. /\ tail + 1 \in 1..Len(lh) /\ tail + 1 \in 1..LOGSIZE
            /\ lh[tail + 1] \in Blocks /\ logblk[tail + 1] \in Values
        <5>1. tail + 1 \in 1..Len(lh) /\ tail + 1 \in 1..LOGSIZE
          BY <2>1, <1>e DEF install_block, InstallBlock
        <5> QED
          BY <5>1, <1>e
      <4>2. Pending(lh[tail + 1])
        BY <1>3, <2>1, <2>0, <1>e, <4>1, SMTT(20) DEF install, Pending, InCommit
      <4>3. pin[lh[tail + 1]] = 1
        BY <4>1, <4>2, <2>0 DEF CacheInv
      <4>4. pin' \in [Blocks -> Nat]
        BY SMTT(30), <1>3, <2>1, <2>0, <1>e, <4>1, <4>3 DEF install_block
      <4> QED
        BY SMTT(30), <1>3, <2>1, <2>0, <1>e, <4>1, <4>4
        DEF install, install_block, InstallBlock, TypeOK
    <3>2. LogShape'
      BY <1>3, <2>1, <2>0, <1>e, SMTT(20)
      DEF install, install_block, InstallBlock, LogShape, Injective
    <3>3. OpInv'
      BY SMTT(30), <1>3, <2>1, <2>0
      DEF install, install_block, InstallBlock, OpInv, InCommit, Active
    <3>4. CountInv'
      BY <1>3, <2>1, <2>0
      DEF install, install_block, InstallBlock, CountInv, Active
    <3>5. CommitInv'
      <4>1. /\ tail + 1 \in 1..Len(lh) /\ tail + 1 \in 1..LOGSIZE
            /\ lh[tail + 1] \in Blocks /\ logblk[tail + 1] \in Values
        <5>1. tail + 1 \in 1..Len(lh) /\ tail + 1 \in 1..LOGSIZE
          BY <2>1, <1>e DEF install_block, InstallBlock
        <5> QED
          BY <5>1, <1>e
      <4>2. /\ head' = head /\ head = lh /\ pc' = pc /\ lh' = lh /\ tail' = tail + 1
            /\ logblk' = logblk
        BY <1>3, <2>1, <2>0, <1>e, <4>1 DEF install, install_block, InstallBlock, CommitInv
      <4>3. \A i \in 1..Len(lh) :
             IF i <= tail + 1 THEN Installed(i)' ELSE Logged(i)'
        <5> SUFFICES ASSUME NEW i \in 1..Len(lh)
                     PROVE  IF i <= tail + 1 THEN Installed(i)' ELSE Logged(i)'
          OBVIOUS
        <5>1. CASE i = tail + 1
          BY SMTT(30), <1>3, <2>1, <2>0, <1>e, <4>1, <5>1
          DEF install, install_block, InstallBlock, Installed
        <5>2. CASE i # tail + 1
          <6>1. /\ lh[i] # lh[tail + 1] /\ lh[i] \in Blocks
                /\ IF i <= tail THEN Installed(i) ELSE Logged(i)
            BY SMTT(30), <1>3, <2>1, <2>0, <1>e, <4>1, <5>2
            DEF install, CommitInv, LogShape, Injective
          <6>2. home'[lh[i]] = home[lh[i]] /\ cache'[lh[i]] = cache[lh[i]]
            BY SMTT(30), <1>3, <2>1, <2>0, <1>e, <4>1, <6>1
            DEF install, install_block, InstallBlock
          <6> QED
            BY <1>e, <4>1, <4>2, <5>2, <6>1, <6>2, SMTT(20) DEF Installed, Logged
        <5> QED
          BY <5>1, <5>2
      <4> QED
        BY SMTT(30), <1>3, <2>1, <2>0, <1>e, <4>2, <4>3 DEF install, CommitInv, InCommit
    <3>6. CacheInv'
      <4>1. /\ tail + 1 \in 1..Len(lh) /\ tail + 1 \in 1..LOGSIZE
            /\ lh[tail + 1] \in Blocks /\ logblk[tail + 1] \in Values
        <5>1. tail + 1 \in 1..Len(lh) /\ tail + 1 \in 1..LOGSIZE
          BY <2>1, <1>e DEF install_block, InstallBlock
        <5> QED
          BY <5>1, <1>e
      <4>2. /\ pc' = pc /\ lh' = lh /\ tail' = tail + 1 /\ blk' = blk /\ boot' = boot
        BY <1>3, <2>1, <2>0, <1>e DEF install, install_block, InstallBlock
      <4>3. pc[p] = "install" /\ \A q \in Procs : pc[q] # "clear"
        BY <1>3, <2>0 DEF install, InCommit
      <4>4. /\ Pending(lh[tail + 1])
            /\ \A x \in Blocks : Pending(x)' <=> Pending(x) /\ x # lh[tail + 1]
        <5>1. \A x : Pending(x) <=> \E i \in 1..Len(lh) : lh[i] = x /\ i > tail
          BY <4>3, <2>0 DEF Pending, InCommit
        <5>2. \A x : Pending(x)' <=> \E i \in 1..Len(lh) : lh[i] = x /\ i > tail + 1
          BY <4>2, <4>3, <2>0 DEF Pending, InCommit
        <5>3. \A i \in 1..Len(lh) : lh[i] = lh[tail + 1] => i = tail + 1
          BY SMTT(30), <4>1 DEF LogShape, Injective
        <5> QED
          BY <1>e, <4>1, <5>1, <5>2, <5>3
      <4>5. /\ home'[lh[tail + 1]] = cache'[lh[tail + 1]]
            /\ cache'[lh[tail + 1]] # NULL
            /\ pin'[lh[tail + 1]] = pin[lh[tail + 1]] - 1
            /\ \A x \in Blocks :
                 x # lh[tail + 1] => /\ home'[x] = home[x] /\ cache'[x] = cache[x]
                                     /\ pin'[x] = pin[x]
        BY <1>3, <2>1, <2>0, <1>e, <4>1 DEF install, install_block, InstallBlock
      <4> SUFFICES ASSUME boot = "run", NEW x \in Blocks
           PROVE /\ Pending(x)' => pin'[x] = 1 /\ cache'[x] # NULL
                 /\ ~Pending(x)' => pin'[x] = 0
                 /\ \A q \in Procs : blk'[q] = x => cache'[x] # NULL
                 /\ ~Pending(x)' /\ (\A q \in Procs : blk'[q] # x) =>
                      cache'[x] \in {NULL, home'[x]}
        BY <4>2, Zenon DEF CacheInv
      <4>6. CASE x = lh[tail + 1]
        BY <4>4, <4>5, <4>6 DEF CacheInv
      <4>7. CASE x # lh[tail + 1]
        BY <4>2, <4>4, <4>5, <4>7 DEF CacheInv
      <4> QED
        BY SMTT(30), <4>6, <4>7
    <3>7. RecoverInv'
      BY <1>3, <2>1, <2>0
      DEF install, install_block, InstallBlock, RecoverInv, Installed
    <3> QED
      BY <3>1, <3>2, <3>3, <3>4, <3>5, <3>6, <3>7 DEF LogInv
  <2>2. CASE install_end(p)
    <3>1. TypeOK'
      BY <1>3, <2>2, <2>0
      DEF install, install_end, InstallEnd, TypeOK, Labels
    <3>2. LogShape'
      BY <1>3, <2>2, <2>0
      DEF install, install_end, InstallEnd, LogShape, Injective
    <3>3. OpInv'
      BY <1>3, <2>2, <2>0
      DEF install, install_end, InstallEnd, OpInv, InCommit, Active
    <3>4. CountInv'
      BY <1>3, <2>2, <2>0, Zenon
      DEF install, install_end, InstallEnd, CountInv, Active
    <3>5. CommitInv'
      BY <1>3, <2>2, <2>0, <1>e, SMTT(20)
      DEF install, install_end, InstallEnd, CommitInv, Logged, Installed,
          InCommit
    <3>6. CacheInv'
      BY <1>3, <2>2, <2>0
      DEF install, install_end, InstallEnd, CacheInv, Pending
    <3>7. RecoverInv'
      BY <1>3, <2>2, <2>0
      DEF install, install_end, InstallEnd, RecoverInv, Installed
    <3> QED
      BY <3>1, <3>2, <3>3, <3>4, <3>5, <3>6, <3>7 DEF LogInv
  <2> QED
    BY <1>3, <2>1, <2>2 DEF install
<1>4. CASE clear(p)
  <2>0. /\ boot = "run" /\ committing
        /\ \A q \in Procs : q # p => pc[q] \notin InCommit
        /\ \A q \in Procs : pc[q] \notin {"op", "modified", "panic"}
        /\ \A q \in Procs : blk[q] = NULL
    BY <1>4, CommitFacts DEF clear, InCommit
  <2>1. TypeOK'
    BY <1>4, <2>0 DEF clear, TypeOK, Labels
  <2>2. LogShape'
    BY <1>4, <2>0, <1>e, SMTT(20)
    DEF clear, LogShape, Injective, OpInv, InCommit, Active, CommitInv,
        Logged, Installed, RecoverInv
  <2>3. OpInv'
    BY <1>4, <2>0 DEF clear, OpInv, InCommit, Active
  <2>4. CountInv'
    BY <1>4, <2>0, Zenon DEF clear, CountInv, Active
  <2>5. CommitInv'
    BY <1>4, <2>0, <1>e, SMTT(20)
    DEF clear, CommitInv, Logged, Installed, InCommit
  <2>6. CacheInv'
    BY <1>4, <2>0 DEF clear, CacheInv, Pending
  <2>7. RecoverInv'
    BY <1>4, <2>0 DEF clear, RecoverInv, Installed
  <2> QED
    BY <2>1, <2>2, <2>3, <2>4, <2>5, <2>6, <2>7 DEF LogInv
<1>5. CASE done(p)
  <2>0. /\ boot = "run" /\ committing
        /\ \A q \in Procs : q # p => pc[q] \notin InCommit
        /\ \A q \in Procs : pc[q] \notin {"op", "modified", "panic"}
        /\ \A q \in Procs : blk[q] = NULL
    BY <1>5, CommitFacts DEF done, InCommit
  <2>1. TypeOK'
    BY <1>5, <2>0, Zenon DEF done, WakeupAnd, TypeOK, Labels
  <2>2. LogShape'
    BY <1>5, <2>0 DEF done, WakeupAnd, LogShape, Injective
  <2>3. OpInv'
    BY <1>5, <2>0 DEF done, WakeupAnd, OpInv, InCommit, Active
  <2>4. CountInv'
    BY <1>5, <2>0 DEF done, WakeupAnd, CountInv, Active
  <2>5. CommitInv'
    BY <1>5, <2>0
    DEF done, WakeupAnd, CommitInv, Logged, Installed, InCommit
  <2>6. CacheInv'
    <3>1. \A x \in Blocks : Pending(x)' <=> Pending(x)
      BY <1>5, <2>0, <1>e, SMTT(20) DEF done, WakeupAnd, CommitInv, Pending, InCommit
    <3> QED
      BY <1>5, <2>0, <1>e, <3>1, SMTT(20) DEF done, WakeupAnd, CommitInv, CacheInv
  <2>7. RecoverInv'
    BY <1>5, <2>0 DEF done, WakeupAnd, RecoverInv, Installed
  <2> QED
    BY <2>1, <2>2, <2>3, <2>4, <2>5, <2>6, <2>7 DEF LogInv
<1> QED
  BY <1>1, <1>2, <1>3, <1>4, <1>5
=============================================================================
