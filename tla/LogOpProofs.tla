---------------------------- MODULE LogOpProofs -----------------------------
(***************************************************************************)
(* Proofs about Log, for every number of processes, blocks and values and  *)
(* every size of the log: the calls that open, fill and close a transaction*)
(* keep the inductive invariant.                                           *)
(***************************************************************************)
EXTENDS Log, FiniteSetTheorems, TLAPS

\* While a system call is active there is no commit, and the on-disk log is
\* empty.
LEMMA ActiveFacts ==
  ASSUME TypeOK, LogInv, NEW p \in Procs, pc[p] \in {"op", "modified", "panic"}
  PROVE  /\ boot = "run" /\ ~committing /\ head = <<>> /\ tail = 0
         /\ \A q \in Procs : pc[q] \notin InCommit
BY DEF TypeOK, LogInv, OpInv, CommitInv, RecoverInv, Active

\* While a process commits, it is alone.
LEMMA CommitFacts ==
  ASSUME TypeOK, LogInv, NEW p \in Procs, pc[p] \in InCommit
  PROVE  /\ boot = "run" /\ committing
         /\ \A q \in Procs : q # p => pc[q] \notin InCommit
         /\ \A q \in Procs : pc[q] \notin {"op", "modified", "panic"}
         /\ \A q \in Procs : blk[q] = NULL
BY DEF TypeOK, LogInv, OpInv, RecoverInv, Active, InCommit

\* The entries of a log are blocks.
LEMMA EntryFacts ==
  ASSUME TypeOK, LogInv
  PROVE  /\ Len(lh) \in 0..LOGSIZE /\ Len(head) \in 0..LOGSIZE /\ tail \in Nat
         /\ \A i \in 1..Len(lh) : lh[i] \in Blocks /\ i \in 1..LOGSIZE
         /\ \A i \in 1..Len(head) : head[i] \in Blocks /\ i \in 1..LOGSIZE
BY SizeAssumption DEF TypeOK, LogInv, LogShape

\* A step that leaves the log alone and does not go in or out of "install" and
\* "clear" leaves the same blocks pending.
LEMMA PendingSame ==
  /\ lh' = lh
  /\ tail' = tail
  /\ \A q \in Procs : pc'[q] = "install" <=> pc[q] = "install"
  /\ \A q \in Procs : pc'[q] = "clear" <=> pc[q] = "clear"
  => \A x \in Blocks : Pending(x)' <=> Pending(x)
BY Zenon DEF Pending

\* So does one that leaves the log alone while nobody is there.
LEMMA PendingOpen ==
  /\ lh' = lh
  /\ \A q \in Procs : /\ pc[q] \notin {"install", "clear"}
                      /\ pc'[q] \notin {"install", "clear"}
  => \A x \in Blocks : Pending(x)' <=> Pending(x)
BY DEF Pending

\* call(), begin_op(), log_write() and the decision in end_op() keep the
\* types and the invariant.
LEMMA CallKeeps ==
  ASSUME TypeOK, LogInv, NEW p \in Procs,
         call(p) \/ begin_op(p) \/ log_write(p) \/ end_op(p)
  PROVE  TypeOK' /\ LogInv'
<1>0. /\ LogShape /\ OpInv /\ CountInv /\ CommitInv /\ CacheInv /\ RecoverInv
      /\ LOGSIZE \in Nat /\ NULL \notin Values /\ NULL \notin Blocks
  BY DiskAssumption, SizeAssumption DEF LogInv
<1>t. /\ home \in [Blocks -> Values]
      /\ cache \in [Blocks -> Values \cup {NULL}]
      /\ pin \in [Blocks -> Nat]
      /\ pc \in [Procs -> Labels]
      /\ blk \in [Procs -> Blocks \cup {NULL}]
  BY DEF TypeOK
<1>e. /\ Len(lh) \in 0..LOGSIZE /\ Len(head) \in 0..LOGSIZE /\ tail \in Nat
      /\ \A i \in 1..Len(lh) : lh[i] \in Blocks /\ i \in 1..LOGSIZE
      /\ \A i \in 1..Len(head) : head[i] \in Blocks /\ i \in 1..LOGSIZE
      /\ logblk \in [1..LOGSIZE -> Values]
  BY EntryFacts DEF TypeOK
<1> USE <1>0, <1>t DEF diskVars, memVars, Goto
<1>1. CASE call(p)
  <2>1. TypeOK'
    BY <1>1 DEF call, TypeOK, Labels
  <2>2. LogShape'
    BY <1>1 DEF call, LogShape, Injective
  <2>3. OpInv'
    BY <1>1 DEF call, OpInv, InCommit, Active
  <2>4. CountInv'
    BY SMTT(30), <1>1 DEF call, CountInv, Active
  <2>5. CommitInv'
    BY <1>1 DEF call, CommitInv, Logged, Installed, InCommit
  <2>6. CacheInv'
    <3>1. /\ lh' = lh /\ tail' = tail
          /\ \A q \in Procs : pc'[q] = "install" <=> pc[q] = "install"
          /\ \A q \in Procs : pc'[q] = "clear" <=> pc[q] = "clear"
      BY <1>1, <1>e DEF call, InCommit
    <3>2. \A x \in Blocks : Pending(x)' <=> Pending(x)
      BY <3>1, PendingSame, Zenon
    <3> QED
      BY <1>1, <1>e, <3>2, SMTT(20) DEF call, CacheInv
  <2>7. RecoverInv'
    BY <1>1 DEF call, RecoverInv, Installed
  <2> QED
    BY <2>1, <2>2, <2>3, <2>4, <2>5, <2>6, <2>7 DEF LogInv
<1>2. CASE begin_op(p)
  <2>0. /\ boot = "run" /\ Len(lh) \in 0..LOGSIZE
    BY <1>2, EntryFacts DEF begin_op, RecoverInv
  <2>1. CASE begin_op_wait(p)
    <3>1. TypeOK'
      BY <1>2, <2>1, <2>0 DEF begin_op, begin_op_wait, TypeOK, Labels
    <3>2. LogShape'
      BY <1>2, <2>1, <2>0 DEF begin_op, begin_op_wait, LogShape, Injective
    <3>3. OpInv'
      BY <1>2, <2>1, <2>0
      DEF begin_op, begin_op_wait, OpInv, InCommit, Active
    <3>4. CountInv'
      BY <1>2, <2>1, <2>0, Zenon DEF begin_op, begin_op_wait, CountInv, Active
    <3>5. CommitInv'
      BY <1>2, <2>1, <2>0
      DEF begin_op, begin_op_wait, CommitInv, Logged, Installed, InCommit
    <3>6. CacheInv'
      <4>1. /\ lh' = lh /\ tail' = tail
            /\ \A q \in Procs : pc'[q] = "install" <=> pc[q] = "install"
            /\ \A q \in Procs : pc'[q] = "clear" <=> pc[q] = "clear"
        BY <1>2, <2>1, <2>0, <1>e DEF begin_op, begin_op_wait, InCommit
      <4>2. \A x \in Blocks : Pending(x)' <=> Pending(x)
        BY <4>1, PendingSame, Zenon
      <4> QED
        BY <1>2, <2>1, <2>0, <1>e, <4>2, SMTT(20) DEF begin_op, begin_op_wait, CacheInv
    <3>7. RecoverInv'
      BY <1>2, <2>1, <2>0 DEF begin_op, begin_op_wait, RecoverInv, Installed
    <3> QED
      BY <3>1, <3>2, <3>3, <3>4, <3>5, <3>6, <3>7 DEF LogInv
  <2>2. CASE begin_op_enter(p)
    <3>1. TypeOK'
      BY <1>2, <2>2, <2>0
      DEF begin_op, begin_op_enter, MustWait, TypeOK, Labels
    <3>2. LogShape'
      BY <1>2, <2>2, <2>0
      DEF begin_op, begin_op_enter, MustWait, LogShape, Injective
    <3>3. OpInv'
      BY <1>2, <2>2, <2>0
      DEF begin_op, begin_op_enter, MustWait, OpInv, InCommit, Active
    <3>4. CountInv'
      <4>1. Active' = Active \cup {p} /\ p \notin Active
        BY <1>2, <2>2, <2>0, <1>e DEF begin_op, begin_op_enter, Active
      <4>2. IsFiniteSet(Active)
        BY ProcsAssumption, FS_Subset DEF Active
      <4> QED
        BY <1>2, <2>2, <2>0, <1>e, <4>1, <4>2, FS_AddElement, Zenon DEF begin_op, begin_op_enter, CountInv
    <3>5. CommitInv'
      <4>1. outstanding \in Nat
        BY ProcsAssumption, FS_Subset, FS_CardinalityType DEF CountInv, Active
      <4> QED
        BY <1>2, <2>2, <2>0, <1>e, <4>1, SMTT(20) DEF begin_op, begin_op_enter, CommitInv, Logged, Installed
    <3>6. CacheInv'
      <4>1. /\ lh' = lh /\ tail' = tail
            /\ \A q \in Procs : pc'[q] = "install" <=> pc[q] = "install"
            /\ \A q \in Procs : pc'[q] = "clear" <=> pc[q] = "clear"
        BY <1>2, <2>2, <2>0, <1>e DEF begin_op, begin_op_enter, InCommit
      <4>2. \A x \in Blocks : Pending(x)' <=> Pending(x)
        BY <4>1, PendingSame, Zenon
      <4> QED
        BY <1>2, <2>2, <2>0, <1>e, <4>2, SMTT(20) DEF begin_op, begin_op_enter, CacheInv
    <3>7. RecoverInv'
      BY <1>2, <2>2, <2>0
      DEF begin_op, begin_op_enter, MustWait, RecoverInv, Installed
    <3> QED
      BY <3>1, <3>2, <3>3, <3>4, <3>5, <3>6, <3>7 DEF LogInv
  <2> QED
    BY <1>2, <2>1, <2>2 DEF begin_op
<1>3. CASE log_write(p)
  <2>0. /\ boot = "run" /\ ~committing /\ head = <<>> /\ tail = 0
        /\ \A q \in Procs : pc[q] \notin InCommit
    BY <1>3, ActiveFacts DEF log_write
  <2>1. CASE log_write_panic(p)
    <3>1. TypeOK'
      BY <1>3, <2>1, <2>0 DEF log_write, log_write_panic, TypeOK, Labels
    <3>2. LogShape'
      BY <1>3, <2>1, <2>0
      DEF log_write, log_write_panic, LogShape, Injective
    <3>3. OpInv'
      BY <1>3, <2>1, <2>0
      DEF log_write, log_write_panic, OpInv, InCommit, Active
    <3>4. CountInv'
      BY <1>3, <2>1, <2>0, Zenon DEF log_write, log_write_panic, CountInv, Active
    <3>5. CommitInv'
      BY <1>3, <2>1, <2>0
      DEF log_write, log_write_panic, CommitInv, Logged, Installed, InCommit
    <3>6. CacheInv'
      <4>1. \A x \in Blocks : Pending(x)' <=> Pending(x)
        BY <1>3, <2>1, <2>0, <1>e, SMTT(20) DEF log_write, log_write_panic, Pending, InCommit
      <4> QED
        BY <1>3, <2>1, <2>0, <1>e, <4>1, SMTT(20) DEF log_write, log_write_panic, CacheInv
    <3>7. RecoverInv'
      BY <1>3, <2>1, <2>0
      DEF log_write, log_write_panic, RecoverInv, Installed
    <3> QED
      BY <3>1, <3>2, <3>3, <3>4, <3>5, <3>6, <3>7 DEF LogInv
  <2>2. CASE log_write_absorb(p)
    <3>1. TypeOK'
      BY <1>3, <2>2, <2>0
      DEF log_write, log_write_absorb, SeqRange, TypeOK, Labels
    <3>2. LogShape'
      BY <1>3, <2>2, <2>0
      DEF log_write, log_write_absorb, SeqRange, LogShape, Injective
    <3>3. OpInv'
      BY <1>3, <2>2, <2>0
      DEF log_write, log_write_absorb, SeqRange, OpInv, InCommit, Active
    <3>4. CountInv'
      BY <1>3, <2>2, <2>0, Zenon
      DEF log_write, log_write_absorb, SeqRange, CountInv, Active
    <3>5. CommitInv'
      BY <1>3, <2>2, <2>0
      DEF log_write, log_write_absorb, SeqRange, CommitInv, Logged,
          Installed, InCommit
    <3>6. CacheInv'
      <4>1. /\ lh' = lh /\ tail' = tail
            /\ \A q \in Procs : pc'[q] = "install" <=> pc[q] = "install"
            /\ \A q \in Procs : pc'[q] = "clear" <=> pc[q] = "clear"
        BY SMTT(30), <1>3, <2>2, <2>0, <1>e DEF log_write, log_write_absorb, InCommit
      <4>2. \A x \in Blocks : Pending(x)' <=> Pending(x)
        BY <4>1, PendingSame, Zenon
      <4>3. blk[p] \in Blocks /\ Pending(blk[p])
        BY <1>3, <2>2, <2>0, <1>e DEF log_write, log_write_absorb, OpInv, SeqRange, Pending, InCommit
      <4> QED
        BY <1>3, <2>2, <2>0, <1>e, <4>2, <4>3, SMTT(20) DEF log_write, log_write_absorb, CacheInv
    <3>7. RecoverInv'
      BY SMTT(30), <1>3, <2>2, <2>0
      DEF log_write, log_write_absorb, SeqRange, RecoverInv, Installed
    <3> QED
      BY <3>1, <3>2, <3>3, <3>4, <3>5, <3>6, <3>7 DEF LogInv
  <2>3. CASE log_write_append(p)
    <3>1. TypeOK'
      BY <1>3, <2>3, <2>0, <1>e, SMTT(20)
      DEF log_write, log_write_append, SeqRange, TooBig, TypeOK, Labels,
          OpInv, InCommit, Active
    <3>2. LogShape'
      BY SMTT(30), <1>3, <2>3, <2>0
      DEF log_write, log_write_append, SeqRange, TooBig, LogShape, Injective
    <3>3. OpInv'
      BY <1>3, <2>3, <2>0
      DEF log_write, log_write_append, SeqRange, TooBig, OpInv, InCommit,
          Active
    <3>4. CountInv'
      BY <1>3, <2>3, <2>0, Zenon
      DEF log_write, log_write_append, SeqRange, TooBig, CountInv, Active
    <3>5. CommitInv'
      BY <1>3, <2>3, <2>0
      DEF log_write, log_write_append, SeqRange, TooBig, CommitInv, Logged,
          Installed, InCommit
    <3>6. CacheInv'
      <4>1. blk[p] \in Blocks /\ ~Pending(blk[p])
        BY <1>3, <2>3, <2>0, <1>e DEF log_write, log_write_append, OpInv, Pending, SeqRange
      <4>2. \A x \in Blocks : Pending(x)' <=> Pending(x) \/ x = blk[p]
        <5> SUFFICES ASSUME NEW b \in Blocks PROVE Pending(b)' <=> Pending(b) \/ b = blk[p]
          OBVIOUS
        <5>1. /\ Len(lh') = Len(lh) + 1 /\ lh'[Len(lh) + 1] = blk[p]
              /\ \A i \in 1..Len(lh) : lh'[i] = lh[i]
          BY <1>3, <2>3, <2>0, <1>e, <4>1 DEF log_write, log_write_append
        <5>2. \A q \in Procs : pc[q] \notin InCommit /\ pc'[q] \notin InCommit
          BY <1>3, <2>3, <2>0, <1>e DEF log_write, log_write_append, InCommit
        <5>3. Pending(b) <=> \E i \in 1..Len(lh) : lh[i] = b
          BY <5>2 DEF Pending, InCommit
        <5>4. Pending(b)' <=> \E i \in 1..Len(lh') : lh'[i] = b
          BY <5>2 DEF Pending, InCommit
        <5> QED
          <6>1. \A i : i \in 1..Len(lh') <=> i \in 1..Len(lh) \/ i = Len(lh) + 1
            BY <5>1
          <6> QED
            BY <5>1, <5>3, <5>4, <6>1, Zenon
      <4> QED
        BY <1>3, <2>3, <2>0, <1>e, <4>1, <4>2, SMTT(20) DEF log_write, log_write_append, CacheInv, OpInv
    <3>7. RecoverInv'
      BY <1>3, <2>3, <2>0
      DEF log_write, log_write_append, SeqRange, TooBig, RecoverInv,
          Installed
    <3> QED
      BY <3>1, <3>2, <3>3, <3>4, <3>5, <3>6, <3>7 DEF LogInv
  <2> QED
    BY <1>3, <2>1, <2>2, <2>3 DEF log_write
<1>4. CASE end_op(p)
  <2>0. /\ boot = "run" /\ ~committing /\ head = <<>> /\ tail = 0
        /\ \A q \in Procs : pc[q] \notin InCommit
    BY <1>4, ActiveFacts DEF end_op
  <2>1. CASE end_op_last(p)
    <3>1. TypeOK'
      BY <1>4, <2>1, <2>0 DEF end_op, end_op_last, TypeOK, Labels
    <3>2. LogShape'
      BY <1>4, <2>1, <2>0 DEF end_op, end_op_last, LogShape, Injective
    <3>3. OpInv'
      <4>1. IsFiniteSet(Active) /\ p \in Active
        BY <1>4, <2>1, <2>0, <1>e, ProcsAssumption, FS_Subset DEF end_op, Active
      <4>2. Active = {p}
        <5>1. Cardinality(Active) = 1
          BY <1>4, <2>1, <2>0, <1>e DEF end_op_last, CountInv
        <5>2. PICK x : Active = {x}
          BY <4>1, <5>1, FS_Singleton
        <5> QED
          BY <4>1, <5>2
      <4>3. Active' = {}
        BY <1>4, <2>1, <2>0, <1>e, <4>2 DEF end_op, end_op_last, Active
      <4> QED
        BY <1>4, <2>1, <2>0, <1>e, <4>3, SMTT(20) DEF end_op, end_op_last, OpInv, InCommit
    <3>4. CountInv'
      <4>1. Active' = Active \ {p} /\ p \in Active
        BY <1>4, <2>1, <2>0, <1>e DEF end_op, end_op_last, Active, WakeupAnd
      <4>2. IsFiniteSet(Active)
        BY ProcsAssumption, FS_Subset DEF Active
      <4> QED
        BY <1>4, <2>1, <2>0, <1>e, <4>1, <4>2, FS_RemoveElement, Zenon DEF end_op, end_op_last, CountInv
    <3>5. CommitInv'
      BY <1>4, <2>1, <2>0
      DEF end_op, end_op_last, CommitInv, Logged, Installed, InCommit
    <3>6. CacheInv'
      BY <1>4, <2>1, <2>0 DEF end_op, end_op_last, CacheInv, Pending
    <3>7. RecoverInv'
      BY <1>4, <2>1, <2>0 DEF end_op, end_op_last, RecoverInv, Installed
    <3> QED
      BY <3>1, <3>2, <3>3, <3>4, <3>5, <3>6, <3>7 DEF LogInv
  <2>2. CASE end_op_more(p)
    <3>1. TypeOK'
      BY <1>4, <2>2, <2>0 DEF end_op, end_op_more, WakeupAnd, TypeOK, Labels
    <3>2. LogShape'
      BY <1>4, <2>2, <2>0
      DEF end_op, end_op_more, WakeupAnd, LogShape, Injective
    <3>3. OpInv'
      BY <1>4, <2>2, <2>0
      DEF end_op, end_op_more, WakeupAnd, OpInv, InCommit, Active
    <3>4. CountInv'
      <4>1. Active' = Active \ {p} /\ p \in Active
        BY <1>4, <2>2, <2>0, <1>e DEF end_op, end_op_more, Active, WakeupAnd
      <4>2. IsFiniteSet(Active)
        BY ProcsAssumption, FS_Subset DEF Active
      <4> QED
        BY <1>4, <2>2, <2>0, <1>e, <4>1, <4>2, FS_RemoveElement, Zenon DEF end_op, end_op_more, CountInv
    <3>5. CommitInv'
      BY SMTT(30), <1>4, <2>2, <2>0
      DEF end_op, end_op_more, WakeupAnd, CommitInv, Logged, Installed,
          InCommit
    <3>6. CacheInv'
      BY <1>4, <2>2, <2>0
      DEF end_op, end_op_more, WakeupAnd, CacheInv, Pending
    <3>7. RecoverInv'
      BY <1>4, <2>2, <2>0
      DEF end_op, end_op_more, WakeupAnd, RecoverInv, Installed
    <3> QED
      BY <3>1, <3>2, <3>3, <3>4, <3>5, <3>6, <3>7 DEF LogInv
  <2> QED
    BY <1>4, <2>1, <2>2 DEF end_op
<1> QED
  BY <1>1, <1>2, <1>3, <1>4
=============================================================================
