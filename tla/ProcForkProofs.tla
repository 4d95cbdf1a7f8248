--------------------------- MODULE ProcForkProofs ---------------------------
(***************************************************************************)
(* The family tree of Proc: what its proof rests on, and that scheduling,  *)
(* fork() and the reparenting half of exit() keep it.                      *)
(***************************************************************************)
EXTENDS ProcProofs

\* Inside a wait_lock section there is one thread, and while wait_lock is
\* free there is none.
LEMMA WaitLockExclusive ==
  ASSUME TypeOK, ThreadInv
  PROVE  /\ \A p, q \in Slots :
              pc[p] \in HoldsWait /\ pc[q] \in HoldsWait => p = q
         /\ \A p \in Slots : pc[p] \in HoldsWait => wait_lock # NULL
<1>1. \A p \in Slots : pc[p] \in HoldsWait => \E c \in CPUS : on[c] = p
  BY DEF ThreadInv, OffState, HoldsWait
<1>2. \A p \in Slots, c \in CPUS :
        pc[p] \in HoldsWait /\ on[c] = p => wait_lock = c
  BY DEF ThreadInv, WaitLock
<1>3. QED
  BY <1>1, <1>2, NULLAssumption, SlotFacts DEF TypeOK

\* A thread about to sleep holds its own lock, and so cannot miss a wakeup.
LEMMA SleeperLocked ==
  ASSUME TypeOK, ThreadInv, NEW p \in Slots, plock[p] = NULL
  PROVE  pc[p] # "sleep_set"
<1>1. pc[p] = "sleep_set" => \E c \in CPUS : on[c] = p
  BY DEF ThreadInv, OffState
<1>2. \A c \in CPUS : pc[p] = "sleep_set" /\ on[c] = p => plock[p] = c
  BY SlotFacts, NULLAssumption DEF TypeOK, ThreadInv, OwnCPU, OwnLock, HoldsOwn
<1>3. QED
  BY <1>1, <1>2, NULLAssumption

\* A thread on a CPU, unless it is about to leave it or has just come back
\* from a preemption, is RUNNING and has nowhere to return to.
LEMMA AtRunning ==
  ASSUME TypeOK, ThreadInv, NEW c \in CPUS, NEW p \in Slots, on[c] = p,
         pc[p] \notin {"sched", "yield_ret"}
  PROVE  state[p] = RUNNING /\ ret[p] = "none"
BY DEF ThreadInv, OnState, RetInv

\* A zombie whose lock is free has left its stack, and no fork() is at work
\* on its slot.
LEMMA ZombieOff ==
  ASSUME TypeOK, ThreadInv, NEW i \in Slots, plock[i] = NULL, state[i] = ZOMBIE
  PROVE  /\ pc[i] = "zombie" /\ ret[i] = "none"
         /\ \A q \in Slots : np[q] # i
<1> USE SlotFacts, NULLAssumption DEF TypeOK, ThreadInv, ZOMBIE, USED, RUNNING
<1>1. \A c \in CPUS : on[c] # i
  BY DEF OwnCPU, OwnLock, OnState, HoldsOwn
<1>2. pc[i] = "zombie"
  BY <1>1 DEF OffState, UNUSED, RUNNABLE, SLEEPING
<1>3. ret[i] = "none"
  BY <1>2 DEF RetInv
<1>4. \A q \in Slots : np[q] # i
  BY DEF ForkInv
<1>5. QED
  BY <1>2, <1>3, <1>4

\* Nothing is going on in an UNUSED slot either.
LEMMA UnusedOff ==
  ASSUME TypeOK, ThreadInv, NEW i \in Slots, state[i] = UNUSED
  PROVE  /\ pc[i] = "none" /\ ret[i] = "none"
         /\ \A q \in Slots : np[q] # i
<1> USE SlotFacts, NULLAssumption DEF TypeOK, ThreadInv, UNUSED
<1>1. pc[i] = "none"
  BY DEF OnState, OffState, USED, RUNNABLE, SLEEPING, ZOMBIE, RUNNING
<1>2. ret[i] = "none"
  BY <1>1 DEF RetInv
<1>3. \A q \in Slots : np[q] # i
  BY DEF ForkInv, USED
<1>4. QED
  BY <1>1, <1>2, <1>3


\* Scheduling, fork() and exit() up to the end of reparent() keep FamilyInv.
LEMMA ForkExitFamily ==
  ASSUME TypeOK, ThreadInv, FamilyInv, NEW c \in CPUS, NEW p \in Slots,
         \/ scheduler(c, p) \/ scheduler_ret(c, p) \/ yield(c, p)
         \/ usertrap(c, p) \/ trapret(c, p) \/ allocproc(c, p)
         \/ fork_parent(c, p) \/ fork_run(c, p) \/ exit(c, p)
         \/ reparent(c, p)
  PROVE  FamilyInv'
<1>0. /\ OwnCPU /\ OwnLock /\ WaitLock /\ OnState /\ OffState /\ ProcState
      /\ RetInv /\ ForkInv
      /\ InitLives /\ ParentLives /\ HasParent /\ NoKidsLeft
      /\ SleepChan /\ ZombieHeard /\ ExitWoke /\ ScanStart /\ ScanClean
  BY DEF ThreadInv, FamilyInv
<1> USE <1>0, SlotFacts, NULLAssumption
    DEF TypeOK, UNUSED, USED, SLEEPING, RUNNABLE, RUNNING, ZOMBIE, Goto, At,
        procVars, lockVars, cpuVars, localVars
<1>1. CASE scheduler(c, p)
  <2>1. /\ InitLives' /\ ParentLives' /\ HasParent' /\ NoKidsLeft' /\ SleepChan'
        /\ ZombieHeard' /\ ExitWoke' /\ ScanStart' /\ ScanClean'
    BY <1>1
    DEF scheduler, InitLives, ParentLives, HasParent, NoKidsLeft, SleepChan,
        ZombieHeard, Asleep, ExitWoke, ScanStart, ScanClean
  <2> QED
    BY <2>1 DEF FamilyInv
<1>2. CASE scheduler_ret(c, p)
  <2>1. /\ InitLives' /\ ParentLives' /\ HasParent' /\ NoKidsLeft' /\ SleepChan'
        /\ ZombieHeard' /\ ExitWoke' /\ ScanStart' /\ ScanClean'
    BY <1>2
    DEF scheduler_ret, InitLives, ParentLives, HasParent, NoKidsLeft,
        SleepChan, ZombieHeard, Asleep, ExitWoke, ScanStart, ScanClean
  <2> QED
    BY <2>1 DEF FamilyInv
<1>3. CASE yield(c, p)
  <2>0. state[p] = RUNNING /\ ret[p] = "none" /\ pc[p] \in Preemptible
    BY <1>3 DEF yield, RetInv, IntrOn, Labels, Preemptible, HoldsOwn, HoldsWait,
       OwnCPU, OwnLock, WaitLock, OnState
  <2>1. /\ InitLives' /\ ParentLives' /\ HasParent' /\ NoKidsLeft'
        /\ SleepChan' /\ ExitWoke' /\ ScanClean'
    BY <1>3
    DEF yield, IntrOn, InitLives, ParentLives, HasParent, NoKidsLeft,
        SleepChan, ExitWoke, Asleep, ScanClean
  <2>2. ZombieHeard'
    BY <1>3, <2>0 DEF yield, IntrOn, ZombieHeard, Asleep, Preemptible
  <2>3. ScanStart'
    BY <1>3, <2>0 DEF yield, IntrOn, ScanStart, Preemptible
  <2> QED
    BY <2>1, <2>2, <2>3 DEF FamilyInv
<1>4. CASE usertrap(c, p)
  <2>1. /\ InitLives' /\ ParentLives' /\ HasParent' /\ NoKidsLeft' /\ SleepChan'
        /\ ZombieHeard' /\ ExitWoke' /\ ScanStart' /\ ScanClean'
    BY <1>4
    DEF usertrap, InitLives, ParentLives, HasParent, NoKidsLeft, SleepChan,
        ZombieHeard, Asleep, ExitWoke, ScanStart, ScanClean
  <2> QED
    BY <2>1 DEF FamilyInv
<1>5. CASE trapret(c, p)
  <2>1. /\ InitLives' /\ ParentLives' /\ HasParent' /\ NoKidsLeft' /\ SleepChan'
        /\ ZombieHeard' /\ ExitWoke' /\ ScanStart' /\ ScanClean'
    BY <1>5
    DEF trapret, InitLives, ParentLives, HasParent, NoKidsLeft, SleepChan,
        ZombieHeard, Asleep, ExitWoke, ScanStart, ScanClean
  <2> QED
    BY <2>1 DEF FamilyInv
<1>6. CASE allocproc(c, p)
  <2>0. idx[p] \in 0..NPROC
    BY DEF TypeOK
  <2>1. CASE allocproc_next(p, idx[p])
    <3>1. /\ InitLives' /\ ParentLives' /\ HasParent' /\ NoKidsLeft' /\ SleepChan'
          /\ ZombieHeard' /\ ExitWoke' /\ ScanStart' /\ ScanClean'
      BY SMTT(30), <1>6, <2>0, <2>1
      DEF allocproc, allocproc_next, InitLives, ParentLives, HasParent,
          NoKidsLeft, SleepChan, ZombieHeard, Asleep, ExitWoke, ScanStart,
          ScanClean
    <3> QED
      BY <3>1 DEF FamilyInv
  <2>2. CASE allocproc_full(p, idx[p])
    <3>1. /\ InitLives' /\ ParentLives' /\ HasParent' /\ NoKidsLeft' /\ SleepChan'
          /\ ZombieHeard' /\ ExitWoke' /\ ScanStart' /\ ScanClean'
      BY <1>6, <2>0, <2>2
      DEF allocproc, allocproc_full, InitLives, ParentLives, HasParent,
          NoKidsLeft, SleepChan, ZombieHeard, Asleep, ExitWoke, ScanStart,
          ScanClean
    <3> QED
      BY <3>1 DEF FamilyInv
  <2>3. CASE allocproc_found(p, idx[p])
    <3>0. /\ state[p] = RUNNING /\ ret[p] = "none"
          /\ idx[p] \in Slots
          /\ pc[idx[p]] = "none" /\ ret[idx[p]] = "none"
          /\ \A q \in Slots : np[q] # idx[p]
      BY SMTT(30), <1>6, <2>0, <2>3, AtRunning, UnusedOff DEF allocproc, allocproc_found
    <3>1. /\ InitLives' /\ ParentLives' /\ NoKidsLeft'
          /\ SleepChan' /\ ExitWoke' /\ ScanClean'
      BY SMTT(30), <1>6, <2>0, <2>3
      DEF allocproc, allocproc_found, InitLives, ParentLives, NoKidsLeft,
          SleepChan, ExitWoke, Asleep, ScanClean
    <3>2. HasParent'
      BY SMTT(30), <1>6, <2>0, <2>3, <3>0 DEF allocproc, allocproc_found, HasParent
    <3>3. ZombieHeard'
      BY SMTT(30), <1>6, <2>0, <2>3, <3>0
      DEF allocproc, allocproc_found, ZombieHeard, Asleep
    <3>4. ScanStart'
      BY SMTT(30), <1>6, <2>0, <2>3, <3>0 DEF allocproc, allocproc_found, ScanStart
    <3> QED
      BY SMTT(30), <3>1, <3>2, <3>3, <3>4 DEF FamilyInv
  <2>4. CASE allocproc_nomem(p, idx[p])
    <3>1. /\ InitLives' /\ ParentLives' /\ HasParent' /\ NoKidsLeft' /\ SleepChan'
          /\ ZombieHeard' /\ ExitWoke' /\ ScanStart' /\ ScanClean'
      BY SMTT(40), <1>6, <2>0, <2>4
      DEF allocproc, allocproc_nomem, InitLives, ParentLives, HasParent,
          NoKidsLeft, SleepChan, ZombieHeard, Asleep, ExitWoke, ScanStart,
          ScanClean
    <3> QED
      BY <3>1 DEF FamilyInv
  <2> QED
    BY <1>6, <2>1, <2>2, <2>3, <2>4 DEF allocproc
<1>7. CASE fork_parent(c, p)
  <2>0. /\ state[p] = RUNNING /\ ret[p] = "none"
        /\ \A q, r \in Slots :
             pc[q] \in HoldsWait /\ pc[r] \in HoldsWait => q = r
        /\ \A q \in Slots : pc[q] \in HoldsWait => wait_lock # NULL
        /\ \A q \in Slots : plock[q] = NULL => pc[q] # "sleep_set"
    BY <1>7, AtRunning, WaitLockExclusive, SleeperLocked DEF fork_parent
  <2>1. /\ InitLives' /\ NoKidsLeft' /\ SleepChan'
        /\ ScanStart' /\ ScanClean'
    BY <1>7
    DEF fork_parent, InitLives, NoKidsLeft, SleepChan, ScanStart, ScanClean
  <2>2. ParentLives'
    BY <1>7, <2>0
    DEF fork_parent, ParentLives, OwnLock, HoldsOwn, OnState, OffState
  <2>3. HasParent'
    BY <1>7, <2>0
    DEF fork_parent, HasParent, OnState, OffState, ForkInv, Forking, RetInv,
        Preemptible
  <2>4. ZombieHeard'
    BY <1>7, <2>0
    DEF fork_parent, ZombieHeard, Asleep, OwnLock, HoldsOwn, OnState,
        OffState
  <2>5. ExitWoke'
    BY <1>7, <2>0
    DEF fork_parent, ExitWoke, Asleep, OwnLock, HoldsOwn, OnState, OffState
  <2> QED
    BY SMTT(30), <2>1, <2>2, <2>3, <2>4, <2>5 DEF FamilyInv
<1>8. CASE fork_run(c, p)
  <2>0. /\ state[p] = RUNNING /\ ret[p] = "none"
        /\ np[p] \in Slots /\ state[np[p]] = USED
        /\ \A q \in Slots : q # p => np[q] # np[p]
    BY <1>8, AtRunning DEF fork_run, ForkInv, Forking
  <2>1. /\ InitLives' /\ ParentLives' /\ NoKidsLeft' /\ SleepChan'
        /\ ZombieHeard' /\ ExitWoke' /\ ScanStart' /\ ScanClean'
    BY <1>8
    DEF fork_run, InitLives, ParentLives, NoKidsLeft, SleepChan,
        ZombieHeard, Asleep, ExitWoke, ScanStart, ScanClean
  <2>2. HasParent'
    BY SMTT(30), <1>8, <2>0 DEF fork_run, HasParent
  <2> QED
    BY <2>1, <2>2 DEF FamilyInv
<1>9. CASE exit(c, p)
  <2>0. /\ state[p] = RUNNING /\ ret[p] = "none"
        /\ \A q, r \in Slots :
             pc[q] \in HoldsWait /\ pc[r] \in HoldsWait => q = r
        /\ \A q \in Slots : pc[q] \in HoldsWait => wait_lock # NULL
        /\ \A q \in Slots : plock[q] = NULL => pc[q] # "sleep_set"
    BY <1>9, AtRunning, WaitLockExclusive, SleeperLocked DEF exit
  <2>1. /\ InitLives' /\ ParentLives' /\ HasParent' /\ NoKidsLeft' /\ SleepChan'
        /\ ZombieHeard' /\ ExitWoke' /\ ScanStart' /\ ScanClean'
    BY <1>9
    DEF exit, InitLives, ParentLives, HasParent, NoKidsLeft, SleepChan,
        ZombieHeard, Asleep, ExitWoke, ScanStart, ScanClean
  <2> QED
    BY <2>1 DEF FamilyInv
<1>10. CASE reparent(c, p)
  <2>0. idx[p] \in 0..NPROC
    BY DEF TypeOK
  <2>1. CASE \E q \in Children(p) : reparent_child(p, q)
    <3>0. /\ idx[p] = 0 /\ state[p] = RUNNING /\ ret[p] = "none"
          /\ \A q, r \in Slots :
               pc[q] \in HoldsWait /\ pc[r] \in HoldsWait => q = r
          /\ \A q \in Slots : pc[q] \in HoldsWait => wait_lock # NULL
          /\ \A q \in Slots : plock[q] = NULL => pc[q] # "sleep_set"
      BY <1>10, <2>0, <2>1, AtRunning, WaitLockExclusive, SleeperLocked DEF reparent, ScanStart
    <3>1. InitLives' /\ SleepChan' /\ ScanStart'
      BY SMTT(30), <1>10, <2>0, <2>1
      DEF reparent, reparent_child, Children, InitLives, SleepChan,
          ScanStart
    <3>2. ParentLives'
      BY SMTT(30), <1>10, <2>0, <2>1, <3>0
      DEF reparent, reparent_child, Children, ParentLives, InitLives
    <3>3. HasParent'
      BY SMTT(30), <1>10, <2>0, <2>1, <3>0
      DEF reparent, reparent_child, Children, HasParent
    <3>4. NoKidsLeft'
      BY <1>10, <2>0, <2>1, <3>0
      DEF reparent, reparent_child, Children, NoKidsLeft, HoldsWait,
          InitLives
    <3>5. ZombieHeard'
      <4>1. pc'[p] = "wake_init" /\ idx'[p] = 0
        BY SMTT(30), <1>10, <2>0, <2>1, <3>0 DEF reparent, reparent_child
      <4>2. ASSUME NEW x \in Slots, NEW y \in Slots,
                   parent'[y] = x, state'[y] = ZOMBIE, Asleep(x)'
            PROVE  x = initproc
        BY SMTT(30), <1>10, <2>0, <2>1, <3>0, <4>2
        DEF reparent, reparent_child, Children, ZombieHeard, Asleep
      <4>3. QED
        BY <4>1, <4>2 DEF ZombieHeard, Asleep
    <3>6. ExitWoke'
      BY SMTT(40), <1>10, <2>0, <2>1, <3>0
      DEF reparent, reparent_child, Children, ExitWoke, Asleep, ScanStart,
          HoldsWait, InitLives
    <3>7. ScanClean'
      BY SMTT(40), <1>10, <2>0, <2>1, <3>0
      DEF reparent, reparent_child, Children, ScanClean, HoldsWait,
          InitLives
    <3> QED
      BY SMTT(30), <3>1, <3>2, <3>3, <3>4, <3>5, <3>6, <3>7 DEF FamilyInv
  <2>2. CASE reparent_done(p)
    <3>0. /\ state[p] = RUNNING /\ ret[p] = "none"
          /\ \A q, r \in Slots :
               pc[q] \in HoldsWait /\ pc[r] \in HoldsWait => q = r
          /\ \A q \in Slots : pc[q] \in HoldsWait => wait_lock # NULL
          /\ \A q \in Slots : plock[q] = NULL => pc[q] # "sleep_set"
      BY <1>10, <2>0, <2>2, AtRunning, WaitLockExclusive, SleeperLocked DEF reparent
    <3>1. InitLives' /\ SleepChan' /\ ScanStart'
      BY <1>10, <2>0, <2>2
      DEF reparent, reparent_done, Children, InitLives, SleepChan, ScanStart
    <3>2. ParentLives'
      BY SMTT(30), <1>10, <2>0, <2>2, <3>0
      DEF reparent, reparent_done, Children, ParentLives, InitLives
    <3>3. HasParent'
      BY SMTT(30), <1>10, <2>0, <2>2, <3>0
      DEF reparent, reparent_done, Children, HasParent
    <3>4. NoKidsLeft'
      BY SMTT(30), <1>10, <2>0, <2>2, <3>0
      DEF reparent, reparent_done, Children, NoKidsLeft, HoldsWait,
          InitLives
    <3>5. ZombieHeard'
      BY SMTT(30), <1>10, <2>0, <2>2, <3>0
      DEF reparent, reparent_done, Children, ZombieHeard, Asleep, ScanStart,
          HoldsWait
    <3>6. ExitWoke'
      BY SMTT(30), <1>10, <2>0, <2>2, <3>0
      DEF reparent, reparent_done, Children, ExitWoke, Asleep, ScanStart,
          HoldsWait, InitLives
    <3>7. ScanClean'
      BY <1>10, <2>0, <2>2, <3>0
      DEF reparent, reparent_done, Children, ScanClean, HoldsWait, InitLives
    <3> QED
      BY <3>1, <3>2, <3>3, <3>4, <3>5, <3>6, <3>7 DEF FamilyInv
  <2> QED
    BY <1>10, <2>1, <2>2 DEF reparent
<1> QED
  BY <1>1, <1>2, <1>3, <1>4, <1>5, <1>6, <1>7, <1>8, <1>9, <1>10
=============================================================================
