--------------------------- MODULE ProcWaitProofs ---------------------------
(***************************************************************************)
(* The family tree of Proc: that exit(), wait(), sleep() and kill() keep it,*)
(* and that wait() misses no exit().                                       *)
(***************************************************************************)
EXTENDS ProcForkProofs

\* The wakeups, the end of exit() and wait() keep FamilyInv.
LEMMA WaitFamily ==
  ASSUME TypeOK, ThreadInv, FamilyInv, NEW c \in CPUS, NEW p \in Slots,
         \/ wake_init(c, p) \/ wake_parent(c, p) \/ exit_zombie(c, p)
         \/ wait(c, p) \/ wait_scan(c, p)
  PROVE  FamilyInv'
<1>0. /\ OwnCPU /\ OwnLock /\ WaitLock /\ OnState /\ OffState /\ ProcState
      /\ RetInv /\ ForkInv
      /\ InitLives /\ ParentLives /\ HasParent /\ NoKidsLeft
      /\ SleepChan /\ ZombieHeard /\ ExitWoke /\ ScanStart /\ ScanClean
  BY DEF ThreadInv, FamilyInv
<1> USE <1>0, SlotFacts, NULLAssumption
    DEF TypeOK, UNUSED, USED, SLEEPING, RUNNABLE, RUNNING, ZOMBIE, Goto, At,
        procVars, lockVars, cpuVars, localVars
<1>1. CASE wake_init(c, p)
  <2>0. idx[p] \in 0..NPROC
    BY DEF TypeOK
  <2>1. CASE wakeup_next(p, idx[p], initproc)
    <3>0. /\ state[p] = RUNNING /\ ret[p] = "none"
          /\ \A q, r \in Slots :
               pc[q] \in HoldsWait /\ pc[r] \in HoldsWait => q = r
          /\ \A q \in Slots : pc[q] \in HoldsWait => wait_lock # NULL
          /\ \A q \in Slots : plock[q] = NULL => pc[q] # "sleep_set"
      BY <1>1, <2>0, <2>1, AtRunning, WaitLockExclusive, SleeperLocked DEF wake_init, wakeup
    <3>1. /\ InitLives' /\ ParentLives' /\ HasParent' /\ NoKidsLeft'
          /\ SleepChan' /\ ExitWoke' /\ ScanStart' /\ ScanClean'
      BY SMTT(40), <1>1, <2>0, <2>1
      DEF wake_init, wakeup, wakeup_next, InitLives, ParentLives, HasParent,
          NoKidsLeft, SleepChan, ExitWoke, Asleep, ScanStart, ScanClean
    <3>2. ZombieHeard'
      BY SMTT(30), <1>1, <2>0, <2>1, <3>0
      DEF wake_init, wakeup, wakeup_next, ZombieHeard, Asleep, SleepChan,
          InitLives, HoldsWait, initproc
    <3> QED
      BY SMTT(30), <3>1, <3>2 DEF FamilyInv
  <2>2. CASE wakeup_done(p, idx[p], "reparent")
    <3>0. /\ NPROC # 0 /\ state[p] = RUNNING /\ ret[p] = "none"
          /\ \A q, r \in Slots :
               pc[q] \in HoldsWait /\ pc[r] \in HoldsWait => q = r
          /\ \A q \in Slots : pc[q] \in HoldsWait => wait_lock # NULL
          /\ \A q \in Slots : plock[q] = NULL => pc[q] # "sleep_set"
      BY <1>1, <2>0, <2>2, NPROCAssumption, AtRunning, WaitLockExclusive,
         SleeperLocked DEF wake_init, wakeup
    <3>1. /\ InitLives' /\ ParentLives' /\ HasParent' /\ NoKidsLeft'
          /\ SleepChan' /\ ExitWoke' /\ ScanStart' /\ ScanClean'
      BY SMTT(40), <1>1, <2>0, <2>2
      DEF wake_init, wakeup, wakeup_done, InitLives, ParentLives, HasParent,
          NoKidsLeft, SleepChan, ExitWoke, Asleep, ScanStart, ScanClean
    <3>2. ZombieHeard'
      BY <1>1, <2>0, <2>2, <3>0
      DEF wake_init, wakeup, wakeup_done, ZombieHeard, Asleep, HoldsWait
    <3> QED
      BY <3>1, <3>2 DEF FamilyInv
  <2> QED
    BY <1>1, <2>1, <2>2 DEF wake_init, wakeup
<1>2. CASE wake_parent(c, p)
  <2>0. idx[p] \in 0..NPROC
    BY DEF TypeOK
  <2>1. CASE wakeup_next(p, idx[p], parent[p])
    <3>0. /\ state[p] = RUNNING /\ ret[p] = "none"
          /\ \A q, r \in Slots :
               pc[q] \in HoldsWait /\ pc[r] \in HoldsWait => q = r
          /\ \A q \in Slots : pc[q] \in HoldsWait => wait_lock # NULL
          /\ \A q \in Slots : plock[q] = NULL => pc[q] # "sleep_set"
      BY SMTT(30), <1>2, <2>0, <2>1, AtRunning, WaitLockExclusive, SleeperLocked
      DEF wake_parent, wakeup
    <3>1. /\ InitLives' /\ ParentLives' /\ HasParent' /\ NoKidsLeft'
          /\ SleepChan' /\ ZombieHeard' /\ ScanStart' /\ ScanClean'
      BY SMTT(40), <1>2, <2>0, <2>1
      DEF wake_parent, wakeup, wakeup_next, InitLives, ParentLives,
          HasParent, NoKidsLeft, SleepChan, ZombieHeard, Asleep, ScanStart,
          ScanClean
    <3>2. ExitWoke'
      BY SMTT(40), <1>2, <2>0, <2>1, <3>0
      DEF wake_parent, wakeup, wakeup_next, ExitWoke, Asleep, SleepChan,
          HoldsWait
    <3> QED
      BY SMTT(30), <3>1, <3>2 DEF FamilyInv
  <2>2. CASE wakeup_done(p, idx[p], "exit_zombie")
    <3>0. /\ state[p] = RUNNING /\ ret[p] = "none"
          /\ \A q, r \in Slots :
               pc[q] \in HoldsWait /\ pc[r] \in HoldsWait => q = r
          /\ \A q \in Slots : pc[q] \in HoldsWait => wait_lock # NULL
          /\ \A q \in Slots : plock[q] = NULL => pc[q] # "sleep_set"
      BY <1>2, <2>0, <2>2, AtRunning, WaitLockExclusive, SleeperLocked DEF wake_parent, wakeup
    <3>1. /\ InitLives' /\ ParentLives' /\ HasParent' /\ NoKidsLeft'
          /\ SleepChan' /\ ZombieHeard' /\ ScanStart' /\ ScanClean'
      BY SMTT(40), <1>2, <2>0, <2>2
      DEF wake_parent, wakeup, wakeup_done, InitLives, ParentLives,
          HasParent, NoKidsLeft, SleepChan, ZombieHeard, Asleep, ScanStart,
          ScanClean
    <3>2. ExitWoke'
      BY SMTT(40), <1>2, <2>0, <2>2, <3>0
      DEF wake_parent, wakeup, wakeup_done, ExitWoke, Asleep, Slots,
          HoldsWait
    <3> QED
      BY <3>1, <3>2 DEF FamilyInv
  <2> QED
    BY <1>2, <2>1, <2>2 DEF wake_parent, wakeup
<1>3. CASE exit_zombie(c, p)
  <2>0. /\ state[p] = RUNNING /\ ret[p] = "none"
        /\ \A q, r \in Slots :
             pc[q] \in HoldsWait /\ pc[r] \in HoldsWait => q = r
        /\ \A q \in Slots : pc[q] \in HoldsWait => wait_lock # NULL
        /\ \A q \in Slots : plock[q] = NULL => pc[q] # "sleep_set"
    BY <1>3, AtRunning, WaitLockExclusive, SleeperLocked DEF exit_zombie
  <2>1. InitLives' /\ NoKidsLeft' /\ SleepChan' /\ ExitWoke' /\ ScanStart'
    BY <1>3
    DEF exit_zombie, InitLives, NoKidsLeft, SleepChan, ExitWoke, Asleep,
        ScanStart
  <2>2. ParentLives'
    BY <1>3, <2>0
    DEF exit_zombie, InitLives, ParentLives, HasParent, NoKidsLeft,
        SleepChan, ZombieHeard, Asleep, ExitWoke, ScanStart, ScanClean
  <2>3. HasParent'
    BY <1>3, <2>0
    DEF exit_zombie, HasParent, OwnLock, HoldsOwn, OnState, OffState
  <2>4. ZombieHeard'
    BY SMTT(40), <1>3, <2>0
    DEF exit_zombie, InitLives, ParentLives, HasParent, NoKidsLeft,
        SleepChan, ZombieHeard, Asleep, ExitWoke, ScanStart, ScanClean
  <2>5. ScanClean'
    BY <1>3, <2>0 DEF exit_zombie, ScanClean, HoldsWait
  <2> QED
    BY SMTT(30), <2>1, <2>2, <2>3, <2>4, <2>5 DEF FamilyInv
<1>4. CASE wait(c, p)
  <2>1. /\ InitLives' /\ ParentLives' /\ HasParent' /\ NoKidsLeft' /\ SleepChan'
        /\ ZombieHeard' /\ ExitWoke' /\ ScanStart' /\ ScanClean'
    BY SMTT(40), <1>4
    DEF wait, InitLives, ParentLives, HasParent, NoKidsLeft, SleepChan,
        ZombieHeard, Asleep, ExitWoke, ScanStart, ScanClean
  <2> QED
    BY <2>1 DEF FamilyInv
<1>5. CASE wait_scan(c, p)
  <2>0. idx[p] \in 0..NPROC
    BY DEF TypeOK
  <2>1. CASE wait_next(p, idx[p])
    <3>1. /\ InitLives' /\ ParentLives' /\ HasParent' /\ NoKidsLeft' /\ SleepChan'
          /\ ZombieHeard' /\ ExitWoke' /\ ScanStart' /\ ScanClean'
      BY SMTT(40), <1>5, <2>0, <2>1
      DEF wait_scan, wait_next, ChildLockFree, InitLives, ParentLives,
          HasParent, NoKidsLeft, SleepChan, ZombieHeard, Asleep, ExitWoke,
          ScanStart, ScanClean
    <3> QED
      BY <3>1 DEF FamilyInv
  <2>2. CASE wait_reap(p, idx[p])
    <3>0. /\ state[p] = RUNNING /\ ret[p] = "none"
          /\ idx[p] \in Slots
          /\ pc[idx[p]] = "zombie" /\ ret[idx[p]] = "none"
          /\ \A q \in Slots : np[q] # idx[p]
          /\ \A q, r \in Slots :
               pc[q] \in HoldsWait /\ pc[r] \in HoldsWait => q = r
      BY SMTT(30), <1>5, <2>0, <2>2, AtRunning, ZombieOff, WaitLockExclusive
      DEF wait_scan, wait_reap, FoundZombie, ChildLockFree
    <3>1. InitLives' /\ ParentLives'
      BY SMTT(30), <1>5, <2>0, <2>2
      DEF wait_scan, wait_reap, freeproc, FoundZombie, ChildLockFree,
          InitLives, ParentLives
    <3>2. HasParent'
      BY SMTT(40), <1>5, <2>0, <2>2, <3>0
      DEF wait_scan, wait_reap, freeproc, FoundZombie, ChildLockFree,
          HasParent
    <3>3. NoKidsLeft'
      BY SMTT(40), <1>5, <2>0, <2>2, <3>0
      DEF wait_scan, wait_reap, freeproc, FoundZombie, ChildLockFree,
          NoKidsLeft
    <3>4. SleepChan'
      BY SMTT(30), <1>5, <2>0, <2>2, <3>0
      DEF wait_scan, wait_reap, freeproc, FoundZombie, ChildLockFree,
          SleepChan
    <3>5. ZombieHeard'
      BY SMTT(40), <1>5, <2>0, <2>2, <3>0
      DEF wait_scan, wait_reap, freeproc, FoundZombie, ChildLockFree,
          ZombieHeard, Asleep, HoldsWait
    <3>6. ExitWoke'
      BY SMTT(40), <1>5, <2>0, <2>2, <3>0
      DEF wait_scan, wait_reap, freeproc, FoundZombie, ChildLockFree,
          ExitWoke, Asleep, HoldsWait
    <3>7. ScanStart'
      BY SMTT(30), <1>5, <2>0, <2>2, <3>0
      DEF wait_scan, wait_reap, freeproc, FoundZombie, ChildLockFree,
          ScanStart
    <3>8. ScanClean'
      BY SMTT(40), <1>5, <2>0, <2>2, <3>0
      DEF wait_scan, wait_reap, freeproc, FoundZombie, ChildLockFree,
          ScanClean, HoldsWait
    <3> QED
      BY SMTT(30), <3>1, <3>2, <3>3, <3>4, <3>5, <3>6, <3>7, <3>8 DEF FamilyInv
  <2>3. CASE wait_fail(p, idx[p])
    <3>0. /\ state[p] = RUNNING /\ ret[p] = "none"
          /\ \A q, r \in Slots :
               pc[q] \in HoldsWait /\ pc[r] \in HoldsWait => q = r
          /\ \A q \in Slots : pc[q] \in HoldsWait => wait_lock # NULL
          /\ \A q \in Slots : plock[q] = NULL => pc[q] # "sleep_set"
      BY SMTT(30), <1>5, <2>0, <2>3, AtRunning, WaitLockExclusive, SleeperLocked
      DEF wait_scan
    <3>1. /\ InitLives' /\ ParentLives' /\ HasParent' /\ NoKidsLeft'
          /\ SleepChan' /\ ZombieHeard' /\ ScanStart' /\ ScanClean'
      BY SMTT(40), <1>5, <2>0, <2>3
      DEF wait_scan, wait_fail, FoundZombie, ChildLockFree, InitLives,
          ParentLives, HasParent, NoKidsLeft, SleepChan, ZombieHeard,
          Asleep, ScanStart, ScanClean
    <3>2. ExitWoke'
      BY SMTT(40), <1>5, <2>0, <2>3, <3>0
      DEF wait_scan, wait_fail, FoundZombie, ChildLockFree, InitLives,
          ParentLives, HasParent, NoKidsLeft, SleepChan, ZombieHeard,
          Asleep, ExitWoke, ScanStart, ScanClean
    <3> QED
      BY <3>1, <3>2 DEF FamilyInv
  <2>4. CASE wait_sleep(p, idx[p])
    <3>0. /\ state[p] = RUNNING /\ ret[p] = "none"
          /\ \A q, r \in Slots :
               pc[q] \in HoldsWait /\ pc[r] \in HoldsWait => q = r
          /\ \A q \in Slots : pc[q] \in HoldsWait => wait_lock # NULL
          /\ \A q \in Slots : plock[q] = NULL => pc[q] # "sleep_set"
      BY SMTT(30), <1>5, <2>0, <2>4, AtRunning, WaitLockExclusive, SleeperLocked
      DEF wait_scan
    <3>1. /\ InitLives' /\ ParentLives' /\ HasParent' /\ NoKidsLeft'
          /\ SleepChan' /\ ZombieHeard' /\ ExitWoke' /\ ScanStart'
      BY SMTT(40), <1>5, <2>0, <2>4
      DEF wait_scan, wait_sleep, InitLives, ParentLives, HasParent,
          NoKidsLeft, SleepChan, ZombieHeard, Asleep, ExitWoke, ScanStart
    <3>2. ScanClean'
      BY SMTT(40), <1>5, <2>0, <2>4, <3>0
      DEF wait_scan, wait_sleep, ScanClean, Slots, HoldsWait
    <3> QED
      BY SMTT(30), <3>1, <3>2 DEF FamilyInv
  <2> QED
    BY SMTT(30), <1>5, <2>1, <2>2, <2>3, <2>4 DEF wait_scan
<1> QED
  BY <1>1, <1>2, <1>3, <1>4, <1>5

\* sleep(), kill() and the switches keep FamilyInv.
LEMMA SleepFamily ==
  ASSUME TypeOK, ThreadInv, FamilyInv, NEW c \in CPUS, NEW p \in Slots,
         \/ sleep(c, p) \/ sleep_set(c, p) \/ sleep_ret(c, p) \/ kill(c, p)
         \/ sched(c, p) \/ yield_ret(c, p) \/ forkret(c, p)
  PROVE  FamilyInv'
<1>0. /\ OwnCPU /\ OwnLock /\ WaitLock /\ OnState /\ OffState /\ ProcState
      /\ RetInv /\ ForkInv
      /\ InitLives /\ ParentLives /\ HasParent /\ NoKidsLeft
      /\ SleepChan /\ ZombieHeard /\ ExitWoke /\ ScanStart /\ ScanClean
  BY DEF ThreadInv, FamilyInv
<1> USE <1>0, SlotFacts, NULLAssumption
    DEF TypeOK, UNUSED, USED, SLEEPING, RUNNABLE, RUNNING, ZOMBIE, Goto, At,
        procVars, lockVars, cpuVars, localVars
<1>1. CASE sleep(c, p)
  <2>0. /\ state[p] = RUNNING /\ ret[p] = "none"
        /\ \A q, r \in Slots :
             pc[q] \in HoldsWait /\ pc[r] \in HoldsWait => q = r
        /\ \A q \in Slots : pc[q] \in HoldsWait => wait_lock # NULL
        /\ \A q \in Slots : plock[q] = NULL => pc[q] # "sleep_set"
    BY <1>1, AtRunning, WaitLockExclusive, SleeperLocked DEF sleep
  <2>1. /\ InitLives' /\ ParentLives' /\ HasParent' /\ NoKidsLeft'
        /\ SleepChan' /\ ScanStart' /\ ScanClean'
    BY <1>1
    DEF sleep, InitLives, ParentLives, HasParent, NoKidsLeft, SleepChan,
        ScanStart, ScanClean
  <2>2. ZombieHeard'
    BY <1>1, <2>0 DEF sleep, ZombieHeard, Asleep, ScanClean
  <2>3. ExitWoke'
    BY <1>1, <2>0 DEF sleep, ExitWoke, Asleep, HoldsWait
  <2> QED
    BY SMTT(30), <2>1, <2>2, <2>3 DEF FamilyInv
<1>2. CASE sleep_set(c, p)
  <2>0. /\ state[p] = RUNNING /\ ret[p] = "none"
        /\ \A q, r \in Slots :
             pc[q] \in HoldsWait /\ pc[r] \in HoldsWait => q = r
        /\ \A q \in Slots : pc[q] \in HoldsWait => wait_lock # NULL
        /\ \A q \in Slots : plock[q] = NULL => pc[q] # "sleep_set"
    BY <1>2, AtRunning, WaitLockExclusive, SleeperLocked DEF sleep_set
  <2>1. /\ InitLives' /\ ParentLives' /\ NoKidsLeft' /\ SleepChan'
        /\ ZombieHeard' /\ ExitWoke' /\ ScanStart' /\ ScanClean'
    BY <1>2
    DEF sleep_set, InitLives, ParentLives, NoKidsLeft, SleepChan,
        ZombieHeard, Asleep, ExitWoke, ScanStart, ScanClean
  <2>2. HasParent'
    BY <1>2, <2>0 DEF sleep_set, HasParent
  <2> QED
    BY SMTT(30), <2>1, <2>2 DEF FamilyInv
<1>3. CASE sleep_ret(c, p)
  <2>0. state[p] = RUNNING
    BY <1>3, AtRunning DEF sleep_ret
  <2>1. /\ InitLives' /\ ParentLives' /\ HasParent' /\ NoKidsLeft'
        /\ ZombieHeard' /\ ExitWoke' /\ ScanStart' /\ ScanClean'
    BY <1>3
    DEF sleep_ret, InitLives, ParentLives, HasParent, NoKidsLeft,
        ZombieHeard, Asleep, ExitWoke, ScanStart, ScanClean
  <2>2. SleepChan'
    BY <1>3, <2>0 DEF sleep_ret, SleepChan
  <2> QED
    BY <2>1, <2>2 DEF FamilyInv
<1>4. CASE kill(c, p)
  <2>0. idx[p] \in 0..NPROC
    BY DEF TypeOK
  <2>1. CASE kill_next(p, idx[p])
    <3>1. /\ InitLives' /\ ParentLives' /\ HasParent' /\ NoKidsLeft' /\ SleepChan'
          /\ ZombieHeard' /\ ExitWoke' /\ ScanStart' /\ ScanClean'
      BY SMTT(40), <1>4, <2>0, <2>1
      DEF kill, kill_next, InitLives, ParentLives, HasParent, NoKidsLeft,
          SleepChan, ZombieHeard, Asleep, ExitWoke, ScanStart, ScanClean
    <3> QED
      BY SMTT(30), <3>1 DEF FamilyInv
  <2>2. CASE kill_none(p, idx[p])
    <3>1. /\ InitLives' /\ ParentLives' /\ HasParent' /\ NoKidsLeft' /\ SleepChan'
          /\ ZombieHeard' /\ ExitWoke' /\ ScanStart' /\ ScanClean'
      BY SMTT(40), <1>4, <2>0, <2>2
      DEF kill, kill_none, InitLives, ParentLives, HasParent, NoKidsLeft,
          SleepChan, ZombieHeard, Asleep, ExitWoke, ScanStart, ScanClean
    <3> QED
      BY <3>1 DEF FamilyInv
  <2>3. CASE kill_found(p, idx[p])
    <3>1. /\ InitLives' /\ ParentLives' /\ HasParent' /\ NoKidsLeft' /\ SleepChan'
          /\ ZombieHeard' /\ ExitWoke' /\ ScanStart' /\ ScanClean'
      BY SMTT(40), <1>4, <2>0, <2>3
      DEF kill, kill_found, InitLives, ParentLives, HasParent, NoKidsLeft,
          SleepChan, ZombieHeard, Asleep, ExitWoke, ScanStart, ScanClean
    <3> QED
      BY <3>1 DEF FamilyInv
  <2> QED
    BY <1>4, <2>1, <2>2, <2>3 DEF kill
<1>5. CASE sched(c, p)
  <2>1. /\ InitLives' /\ ParentLives' /\ HasParent' /\ NoKidsLeft' /\ SleepChan'
        /\ ZombieHeard' /\ ExitWoke' /\ ScanStart' /\ ScanClean'
    BY SMTT(40), <1>5
    DEF sched, InitLives, ParentLives, HasParent, NoKidsLeft, SleepChan,
        ZombieHeard, Asleep, ExitWoke, ScanStart, ScanClean
  <2> QED
    BY <2>1 DEF FamilyInv
<1>6. CASE yield_ret(c, p)
  <2>0. state[p] = RUNNING /\ ret[p] \in Preemptible
    BY <1>6 DEF yield_ret, RetInv, OnState
  <2>1. ParentLives' /\ HasParent' /\ SleepChan' /\ ScanStart'
    BY <1>6 DEF yield_ret, ParentLives, HasParent, SleepChan, ScanStart
  <2>2. InitLives'
    BY SMTT(40), <1>6, <2>0
    DEF yield_ret, InitLives, OnState, OffState, ForkInv, Forking, RetInv,
        Preemptible
  <2>3. NoKidsLeft'
    BY <1>6, <2>0
    DEF yield_ret, NoKidsLeft, OnState, OffState, ForkInv, Forking, RetInv,
        Preemptible
  <2>4. ZombieHeard'
    BY <1>6, <2>0 DEF yield_ret, ZombieHeard, Preemptible, Asleep
  <2>5. ExitWoke'
    BY <1>6, <2>0 DEF yield_ret, ExitWoke, Preemptible, Asleep
  <2>6. ScanClean'
    BY SMTT(30), <1>6, <2>0 DEF yield_ret, ScanClean, Preemptible
  <2> QED
    BY <2>1, <2>2, <2>3, <2>4, <2>5, <2>6 DEF FamilyInv
<1>7. CASE forkret(c, p)
  <2>1. /\ InitLives' /\ ParentLives' /\ HasParent' /\ NoKidsLeft' /\ SleepChan'
        /\ ZombieHeard' /\ ExitWoke' /\ ScanStart' /\ ScanClean'
    BY SMTT(40), <1>7
    DEF forkret, InitLives, ParentLives, HasParent, NoKidsLeft, SleepChan,
        ZombieHeard, Asleep, ExitWoke, ScanStart, ScanClean
  <2> QED
    BY <2>1 DEF FamilyInv
<1> QED
  BY <1>1, <1>2, <1>3, <1>4, <1>5, <1>6, <1>7

\* Every step keeps FamilyInv.
LEMMA FamilyInductive ==
  TypeOK /\ ThreadInv /\ FamilyInv /\ [Next]_vars => FamilyInv'
<1> SUFFICES ASSUME TypeOK, ThreadInv, FamilyInv, [Next]_vars
             PROVE  FamilyInv'
  OBVIOUS
<1>1. CASE UNCHANGED vars
  BY <1>1
  DEF vars, FamilyInv, InitLives, ParentLives, HasParent, NoKidsLeft,
      SleepChan, ZombieHeard, ExitWoke, ScanStart, ScanClean, Asleep,
      procVars, lockVars, cpuVars, localVars
<1>2. ASSUME NEW c \in CPUS, NEW p \in Slots,
             \/ scheduler(c, p) \/ scheduler_ret(c, p) \/ yield(c, p)
             \/ usertrap(c, p) \/ Work(c, p) \/ Switch(c, p)
      PROVE FamilyInv'
  BY <1>2, ForkExitFamily, WaitFamily, SleepFamily DEF Work, Switch
<1> QED
  BY <1>1, <1>2 DEF Next

\* The family tree stays consistent.
THEOREM FamilyCorrect == Spec => []FamilyInv
<1>1. Init => FamilyInv
  BY SlotFacts, NULLAssumption
  DEF Init, FamilyInv, InitLives, ParentLives, HasParent, NoKidsLeft,
      SleepChan, ZombieHeard, ExitWoke, ScanStart, ScanClean, UNUSED, USED,
      RUNNABLE, SLEEPING, ZOMBIE
<1>2. QED
  BY <1>1, ThreadCorrect, FamilyInductive, PTL DEF Spec

\* wait() misses no exit(), and every process has a parent to wait for it:
\* for every size of the process table and every number of CPUs.
THEOREM WaitSafe == Spec => []NoSleepThroughExit /\ []LiveParent
<1>1. TypeOK /\ ThreadInv /\ FamilyInv => NoSleepThroughExit
  <2> SUFFICES ASSUME TypeOK, ThreadInv, FamilyInv, wait_lock = NULL,
                      NEW p \in Slots, NEW q \in Slots,
                      parent[q] = p, state[q] = ZOMBIE
               PROVE  ~Asleep(p)
    BY DEF NoSleepThroughExit, Asleep
  <2>1. \A r \in Slots : pc[r] # "wake_init"
    BY WaitLockExclusive DEF HoldsWait
  <2>2. QED
    BY <2>1 DEF FamilyInv, ZombieHeard
<1>2. TypeOK /\ ThreadInv /\ FamilyInv => LiveParent
  BY SlotFacts, NULLAssumption
  DEF LiveParent, FamilyInv, ParentLives, HasParent, TypeOK
<1>3. QED
  BY <1>1, <1>2, ThreadCorrect, FamilyCorrect, PTL
=============================================================================
