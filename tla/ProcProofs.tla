----------------------------- MODULE ProcProofs -----------------------------
(***************************************************************************)
(* Proofs about Proc, for every number of process slots and CPUs.          *)
(***************************************************************************)
EXTENDS Proc, TLAPS

\* Facts about the slots of the process table.
LEMMA SlotFacts ==
  /\ initproc \in Slots
  /\ 0 \in 0..NPROC
  /\ \A i \in 0..NPROC : i < NPROC => i \in Slots /\ i + 1 \in 0..NPROC
  /\ NULL \notin Slots
  /\ Slots \subseteq Nat
BY NPROCAssumption, NULLAssumption DEF Slots, initproc

\* Every step keeps the types.
LEMMA TypeInductive == TypeOK /\ [Next]_vars => TypeOK'
<1> SUFFICES ASSUME TypeOK, [Next]_vars PROVE TypeOK'
  OBVIOUS
<1> USE SlotFacts, PidAssumption
    DEF TypeOK, Labels, procstate, UNUSED, USED, SLEEPING, RUNNABLE, RUNNING,
        ZOMBIE, Goto, At, procVars, lockVars, cpuVars, localVars
<1>1. CASE UNCHANGED vars
  BY <1>1, SMTT(30) DEF vars
<1>2. ASSUME NEW c \in CPUS, NEW p \in Slots,
             \/ scheduler(c, p) \/ scheduler_ret(c, p) \/ yield(c, p)
             \/ usertrap(c, p) \/ Work(c, p) \/ Switch(c, p)
      PROVE TypeOK'
  <2>1. CASE scheduler(c, p)
    BY <2>1 DEF scheduler
  <2>2. CASE scheduler_ret(c, p)
    BY <2>2 DEF scheduler_ret
  <2>3. CASE yield(c, p)
    BY <2>3 DEF yield
  <2>4. CASE usertrap(c, p)
    BY <2>4 DEF usertrap
  <2>5. CASE trapret(c, p)
    BY <2>5 DEF trapret
  <2>6. CASE allocproc(c, p)
    <3>0. idx[p] \in 0..NPROC
      OBVIOUS
    <3>1. CASE allocproc_next(p, idx[p])
      BY <2>6, <3>0, <3>1 DEF allocproc, allocproc_next
    <3>2. CASE allocproc_full(p, idx[p])
      BY <2>6, <3>0, <3>2 DEF allocproc, allocproc_full
    <3>3. CASE allocproc_found(p, idx[p])
      BY <2>6, <3>0, <3>3 DEF allocproc, allocproc_found
    <3>4. CASE allocproc_nomem(p, idx[p])
      BY <2>6, <3>0, <3>4 DEF allocproc, allocproc_nomem
    <3> QED
      BY <2>6, <3>1, <3>2, <3>3, <3>4 DEF allocproc
  <2>7. CASE fork_parent(c, p)
    BY <2>7, Zenon DEF fork_parent
  <2>8. CASE fork_run(c, p)
    BY <2>8, Zenon DEF fork_run
  <2>9. CASE exit(c, p)
    BY <2>9 DEF exit
  <2>10. CASE reparent(c, p)
    BY <2>10 DEF reparent, reparent_child, reparent_done,
       Children
  <2>11. CASE wake_init(c, p)
    BY <2>11 DEF wake_init, wakeup, wakeup_next, wakeup_done
  <2>12. CASE wake_parent(c, p)
    BY <2>12 DEF wake_parent, wakeup, wakeup_next, wakeup_done
  <2>13. CASE exit_zombie(c, p)
    BY <2>13 DEF exit_zombie
  <2>14. CASE wait(c, p)
    BY <2>14 DEF wait
  <2>15. CASE wait_scan(c, p)
    <3>0. idx[p] \in 0..NPROC
      OBVIOUS
    <3>1. CASE wait_next(p, idx[p])
      BY <2>15, <3>0, <3>1, Zenon DEF wait_scan, wait_next, ChildLockFree
    <3>2. CASE wait_reap(p, idx[p])
      BY <2>15, <3>0, <3>2 DEF wait_scan, wait_reap, freeproc, FoundZombie, ChildLockFree
    <3>3. CASE wait_fail(p, idx[p])
      BY <2>15, <3>0, <3>3 DEF wait_scan, wait_fail, FoundZombie
    <3>4. CASE wait_sleep(p, idx[p])
      BY <2>15, <3>0, <3>4 DEF wait_scan, wait_sleep
    <3> QED
      BY <2>15, <3>1, <3>2, <3>3, <3>4 DEF wait_scan
  <2>16. CASE sleep(c, p)
    BY <2>16 DEF sleep
  <2>17. CASE sleep_set(c, p)
    BY <2>17 DEF sleep_set
  <2>18. CASE sleep_ret(c, p)
    BY <2>18 DEF sleep_ret
  <2>19. CASE kill(c, p)
    <3>0. idx[p] \in 0..NPROC
      OBVIOUS
    <3>1. CASE kill_next(p, idx[p])
      BY <2>19, <3>0, <3>1 DEF kill, kill_next
    <3>2. CASE kill_none(p, idx[p])
      BY <2>19, <3>0, <3>2 DEF kill, kill_none
    <3>3. CASE kill_found(p, idx[p])
      BY <2>19, <3>0, <3>3 DEF kill, kill_found
    <3> QED
      BY <2>19, <3>1, <3>2, <3>3 DEF kill
  <2>20. CASE sched(c, p)
    BY <2>20 DEF sched
  <2>21. CASE yield_ret(c, p)
    BY <2>21 DEF yield_ret
  <2>22. CASE forkret(c, p)
    BY <2>22 DEF forkret
  <2> QED
    BY <1>2, <2>1, <2>2, <2>3, <2>4, <2>5, <2>6, <2>7, <2>8, <2>9, <2>10,
       <2>11, <2>12, <2>13, <2>14, <2>15, <2>16, <2>17, <2>18, <2>19, <2>20,
       <2>21, <2>22, Zenon
    DEF Work, Switch
<1> QED
  BY <1>1, <1>2 DEF Next

\* Type correctness of the process table.
THEOREM TypeCorrect == Spec => []TypeOK
<1>1. Init => TypeOK
  BY SlotFacts, PidAssumption
  DEF Init, TypeOK, Labels, procstate, UNUSED, RUNNABLE
<1>2. QED
  BY <1>1, TypeInductive, PTL DEF Spec

\* Every step keeps ThreadInv.
LEMMA ThreadInductive == TypeOK /\ ThreadInv /\ [Next]_vars => ThreadInv'
<1> SUFFICES ASSUME TypeOK, ThreadInv, [Next]_vars PROVE ThreadInv'
  OBVIOUS
<1>0. /\ OwnCPU /\ OwnLock /\ WaitLock /\ OnState /\ OffState /\ ProcState
      /\ RetInv /\ ForkInv
  BY DEF ThreadInv
<1> USE <1>0, SlotFacts, NULLAssumption
    DEF TypeOK, UNUSED, USED, SLEEPING, RUNNABLE, RUNNING, ZOMBIE, Goto, At,
        procVars, lockVars, cpuVars, localVars
<1>1. CASE UNCHANGED vars
  BY <1>1
  DEF vars, ThreadInv, OwnCPU, OwnLock, WaitLock, OnState, OffState,
      ProcState, RetInv, ForkInv, Forking
<1>2. ASSUME NEW c \in CPUS, NEW p \in Slots,
             \/ scheduler(c, p) \/ scheduler_ret(c, p) \/ yield(c, p)
             \/ usertrap(c, p) \/ Work(c, p) \/ Switch(c, p)
      PROVE ThreadInv'
  <2>1. CASE scheduler(c, p)
    <3>1. OffState' /\ ProcState' /\ ForkInv'
      BY <2>1 DEF scheduler, OffState, ProcState, ForkInv, Forking
    <3>2. OwnCPU'
      BY <2>1 DEF scheduler, OwnCPU, OwnLock, HoldsOwn, OnState
    <3>3. OwnLock'
      BY <2>1
      DEF scheduler, OwnLock, HoldsOwn, OwnCPU, OnState, OffState, ProcState
    <3>4. WaitLock'
      BY <2>1
      DEF scheduler, WaitLock, HoldsWait, OwnCPU, OwnLock, HoldsOwn, OnState,
          OffState, ProcState
    <3>5. OnState'
      BY <2>1
      DEF scheduler, OnState, OwnCPU, OwnLock, HoldsOwn, OffState, ProcState
    <3>6. RetInv'
      BY <2>1
      DEF scheduler, RetInv, Preemptible, OwnCPU, OwnLock, HoldsOwn, OnState,
          OffState, ProcState
    <3> QED
      BY <3>1, <3>2, <3>3, <3>4, <3>5, <3>6 DEF ThreadInv
  <2>2. CASE scheduler_ret(c, p)
    <3>1. /\ OwnCPU' /\ OwnLock' /\ WaitLock' /\ OnState'
          /\ OffState' /\ ProcState' /\ RetInv' /\ ForkInv'
      BY <2>2
      DEF scheduler_ret, OwnCPU, OwnLock, HoldsOwn, WaitLock, HoldsWait,
          OnState, OffState, ProcState, RetInv, Preemptible, ForkInv, Forking
    <3> QED
      BY <3>1 DEF ThreadInv
  <2>3. CASE yield(c, p)
    <3>0. pc[p] \in Preemptible
      BY <2>3 DEF yield, IntrOn, Labels, Preemptible, HoldsOwn, HoldsWait,
         OwnCPU, OwnLock, WaitLock, OnState
    <3>1. OwnCPU' /\ WaitLock' /\ OnState' /\ OffState' /\ ProcState'
      BY <2>3
      DEF yield, IntrOn, OwnCPU, WaitLock, HoldsWait, OnState, OffState,
          ProcState
    <3>2. OwnLock'
      BY <2>3, <3>0 DEF yield, IntrOn, OwnLock, HoldsOwn, OwnCPU, OnState
    <3>3. RetInv'
      BY <2>3, <3>0
      DEF yield, IntrOn, RetInv, Preemptible, OwnCPU, OwnLock, HoldsOwn,
          OnState
    <3>4. ForkInv'
      BY <2>3, <3>0
      DEF yield, IntrOn, ForkInv, Forking, OwnCPU, OwnLock, HoldsOwn, OnState,
          OffState, WaitLock, HoldsWait, RetInv, Preemptible
    <3> QED
      BY <3>1, <3>2, <3>3, <3>4 DEF ThreadInv
  <2>4. CASE usertrap(c, p)
    <3>1. /\ OwnCPU' /\ OwnLock' /\ WaitLock' /\ OnState'
          /\ OffState' /\ ProcState' /\ RetInv' /\ ForkInv'
      BY <2>4
      DEF usertrap, OwnCPU, OwnLock, HoldsOwn, WaitLock, HoldsWait, OnState,
          OffState, ProcState, RetInv, Preemptible, ForkInv, Forking
    <3> QED
      BY <3>1 DEF ThreadInv
  <2>5. CASE trapret(c, p)
    <3>1. /\ OwnCPU' /\ OwnLock' /\ WaitLock' /\ OnState'
          /\ OffState' /\ ProcState' /\ RetInv' /\ ForkInv'
      BY <2>5
      DEF trapret, OwnCPU, OwnLock, HoldsOwn, WaitLock, HoldsWait, OnState,
          OffState, ProcState, RetInv, Preemptible, ForkInv, Forking
    <3> QED
      BY <3>1 DEF ThreadInv
  <2>6. CASE allocproc(c, p)
    <3>0. idx[p] \in 0..NPROC
      BY DEF TypeOK
    <3>1. CASE allocproc_next(p, idx[p])
      <4>1. /\ OwnCPU' /\ OwnLock' /\ WaitLock' /\ OnState'
            /\ OffState' /\ ProcState' /\ RetInv' /\ ForkInv'
        BY SMTT(30), <2>6, <3>0, <3>1
        DEF allocproc, allocproc_next, OwnCPU, OwnLock, HoldsOwn, WaitLock,
            HoldsWait, OnState, OffState, ProcState, RetInv, Preemptible,
            ForkInv, Forking
      <4> QED
        BY <4>1 DEF ThreadInv
    <3>2. CASE allocproc_full(p, idx[p])
      <4>1. /\ OwnCPU' /\ OwnLock' /\ WaitLock' /\ OnState'
            /\ OffState' /\ ProcState' /\ RetInv' /\ ForkInv'
        BY <2>6, <3>0, <3>2
        DEF allocproc, allocproc_full, OwnCPU, OwnLock, HoldsOwn, WaitLock,
            HoldsWait, OnState, OffState, ProcState, RetInv, Preemptible,
            ForkInv, Forking
      <4> QED
        BY <4>1 DEF ThreadInv
    <3>3. CASE allocproc_found(p, idx[p])
      <4>1. OwnCPU' /\ OnState' /\ OffState' /\ ProcState'
        BY <2>6, <3>0, <3>3
        DEF allocproc, allocproc_found, OwnCPU, OnState, OffState, ProcState
      <4>2. OwnLock'
        BY <2>6, <3>0, <3>3
        DEF allocproc, allocproc_found, OwnLock, HoldsOwn, OwnCPU, OnState
      <4>3. WaitLock'
        BY <2>6, <3>0, <3>3
        DEF allocproc, allocproc_found, WaitLock, HoldsWait, OwnCPU, OwnLock,
            HoldsOwn, OnState
      <4>4. RetInv'
        BY <2>6, <3>0, <3>3
        DEF allocproc, allocproc_found, RetInv, Preemptible, OwnCPU, OwnLock,
            HoldsOwn, OnState, OffState, ProcState
      <4>5. ForkInv'
        BY <2>6, <3>0, <3>3
        DEF allocproc, allocproc_found, ForkInv, Forking, OwnCPU, OwnLock,
            HoldsOwn, OnState, OffState, ProcState
      <4> QED
        BY <4>1, <4>2, <4>3, <4>4, <4>5 DEF ThreadInv
    <3>4. CASE allocproc_nomem(p, idx[p])
      <4>1. /\ OwnCPU' /\ OwnLock' /\ WaitLock' /\ OnState'
            /\ OffState' /\ ProcState' /\ RetInv' /\ ForkInv'
        BY <2>6, <3>0, <3>4
        DEF allocproc, allocproc_nomem, OwnCPU, OwnLock, HoldsOwn, WaitLock,
            HoldsWait, OnState, OffState, ProcState, RetInv, Preemptible,
            ForkInv, Forking
      <4> QED
        BY <4>1 DEF ThreadInv
    <3> QED
      BY <2>6, <3>1, <3>2, <3>3, <3>4 DEF allocproc
  <2>7. CASE fork_parent(c, p)
    <3>1. /\ OwnCPU' /\ OwnLock' /\ WaitLock' /\ OnState'
          /\ OffState' /\ ProcState' /\ RetInv' /\ ForkInv'
      BY <2>7
      DEF fork_parent, OwnCPU, OwnLock, HoldsOwn, WaitLock, HoldsWait,
          OnState, OffState, ProcState, RetInv, Preemptible, ForkInv, Forking
    <3> QED
      BY <3>1 DEF ThreadInv
  <2>8. CASE fork_run(c, p)
    <3>1. OwnCPU' /\ OwnLock' /\ WaitLock' /\ ProcState'
      BY <2>8
      DEF fork_run, OwnCPU, OwnLock, HoldsOwn, WaitLock, HoldsWait, ProcState
    <3>2. OnState'
      BY <2>8
      DEF fork_run, OnState, OwnCPU, OwnLock, HoldsOwn, OffState, WaitLock,
          HoldsWait, RetInv, Preemptible, ForkInv, Forking
    <3>3. OffState'
      BY <2>8
      DEF fork_run, OffState, OwnCPU, OwnLock, HoldsOwn, OnState, WaitLock,
          HoldsWait, RetInv, Preemptible, ForkInv, Forking
    <3>4. RetInv'
      BY <2>8
      DEF fork_run, RetInv, Preemptible, OwnCPU, OwnLock, HoldsOwn, OnState,
          OffState, ProcState
    <3>5. ForkInv'
      BY <2>8
      DEF fork_run, ForkInv, Forking, OwnCPU, OwnLock, HoldsOwn, OnState,
          OffState, WaitLock, HoldsWait, RetInv, Preemptible
    <3> QED
      BY <3>1, <3>2, <3>3, <3>4, <3>5 DEF ThreadInv
  <2>9. CASE exit(c, p)
    <3>1. /\ OwnCPU' /\ OwnLock' /\ OnState' /\ OffState'
          /\ ProcState' /\ RetInv' /\ ForkInv'
      BY <2>9
      DEF exit, OwnCPU, OwnLock, HoldsOwn, OnState, OffState, ProcState,
          RetInv, Preemptible, ForkInv, Forking
    <3>2. WaitLock'
      BY <2>9
      DEF exit, WaitLock, HoldsWait, OwnCPU, OwnLock, HoldsOwn, OnState
    <3> QED
      BY <3>1, <3>2 DEF ThreadInv
  <2>10. CASE reparent(c, p)
    <3>0. idx[p] \in 0..NPROC
      BY DEF TypeOK
    <3>1. CASE \E q \in Children(p) : reparent_child(p, q)
      <4>1. /\ OwnCPU' /\ OwnLock' /\ WaitLock' /\ OnState'
            /\ OffState' /\ ProcState' /\ RetInv' /\ ForkInv'
        BY SMTT(30), <2>10, <3>0, <3>1
        DEF reparent, reparent_child, Children, OwnCPU, OwnLock, HoldsOwn,
            WaitLock, HoldsWait, OnState, OffState, ProcState, RetInv,
            Preemptible, ForkInv, Forking
      <4> QED
        BY <4>1 DEF ThreadInv
    <3>2. CASE reparent_done(p)
      <4>1. /\ OwnCPU' /\ OwnLock' /\ WaitLock' /\ OnState'
            /\ OffState' /\ ProcState' /\ RetInv' /\ ForkInv'
        BY <2>10, <3>0, <3>2
        DEF reparent, reparent_done, Children, OwnCPU, OwnLock, HoldsOwn,
            WaitLock, HoldsWait, OnState, OffState, ProcState, RetInv,
            Preemptible, ForkInv, Forking
      <4> QED
        BY <4>1 DEF ThreadInv
    <3> QED
      BY <2>10, <3>1, <3>2 DEF reparent
  <2>11. CASE wake_init(c, p)
    <3>0. idx[p] \in 0..NPROC
      BY DEF TypeOK
    <3>1. CASE wakeup_next(p, idx[p], initproc)
      <4>1. /\ OwnCPU' /\ OwnLock' /\ WaitLock' /\ OnState'
            /\ OffState' /\ ProcState' /\ ForkInv'
        BY <2>11, <3>0, <3>1
        DEF wake_init, wakeup, wakeup_next, OwnCPU, OwnLock, HoldsOwn,
            WaitLock, HoldsWait, OnState, OffState, ProcState, ForkInv,
            Forking
      <4>2. RetInv'
        BY SMTT(30), <2>11, <3>0, <3>1
        DEF wake_init, wakeup, wakeup_next, RetInv, Preemptible, OwnCPU,
            OwnLock, HoldsOwn, OnState, OffState, ProcState
      <4> QED
        BY SMTT(30), <4>1, <4>2 DEF ThreadInv
    <3>2. CASE wakeup_done(p, idx[p], "reparent")
      <4>1. /\ OwnCPU' /\ OwnLock' /\ WaitLock' /\ OnState'
            /\ OffState' /\ ProcState' /\ RetInv' /\ ForkInv'
        BY <2>11, <3>0, <3>2
        DEF wake_init, wakeup, wakeup_done, OwnCPU, OwnLock, HoldsOwn,
            WaitLock, HoldsWait, OnState, OffState, ProcState, RetInv,
            Preemptible, ForkInv, Forking
      <4> QED
        BY <4>1 DEF ThreadInv
    <3> QED
      BY <2>11, <3>1, <3>2 DEF wake_init, wakeup
  <2>12. CASE wake_parent(c, p)
    <3>0. idx[p] \in 0..NPROC
      BY DEF TypeOK
    <3>1. CASE wakeup_next(p, idx[p], parent[p])
      <4>1. /\ OwnCPU' /\ OwnLock' /\ WaitLock' /\ OnState'
            /\ OffState' /\ ProcState' /\ ForkInv'
        BY SMTT(30), <2>12, <3>0, <3>1
        DEF wake_parent, wakeup, wakeup_next, OwnCPU, OwnLock, HoldsOwn,
            WaitLock, HoldsWait, OnState, OffState, ProcState, ForkInv,
            Forking
      <4>2. RetInv'
        BY SMTT(30), <2>12, <3>0, <3>1
        DEF wake_parent, wakeup, wakeup_next, RetInv, Preemptible, OwnCPU,
            OwnLock, HoldsOwn, OnState, OffState, ProcState
      <4> QED
        BY <4>1, <4>2 DEF ThreadInv
    <3>2. CASE wakeup_done(p, idx[p], "exit_zombie")
      <4>1. /\ OwnCPU' /\ OwnLock' /\ WaitLock' /\ OnState'
            /\ OffState' /\ ProcState' /\ RetInv' /\ ForkInv'
        BY <2>12, <3>0, <3>2
        DEF wake_parent, wakeup, wakeup_done, OwnCPU, OwnLock, HoldsOwn,
            WaitLock, HoldsWait, OnState, OffState, ProcState, RetInv,
            Preemptible, ForkInv, Forking
      <4> QED
        BY <4>1 DEF ThreadInv
    <3> QED
      BY SMTT(30), <2>12, <3>1, <3>2 DEF wake_parent, wakeup
  <2>13. CASE exit_zombie(c, p)
    <3>1. /\ OwnCPU' /\ WaitLock' /\ OnState'
          /\ OffState' /\ ProcState' /\ RetInv'
      BY <2>13
      DEF exit_zombie, OwnCPU, WaitLock, HoldsWait, OnState, OffState,
          ProcState, RetInv, Preemptible
    <3>2. OwnLock'
      BY <2>13 DEF exit_zombie, OwnLock, HoldsOwn, OwnCPU, OnState
    <3>3. ForkInv'
      BY SMTT(30), <2>13
      DEF exit_zombie, ForkInv, Forking, OwnCPU, OwnLock, HoldsOwn, OnState
    <3> QED
      BY SMTT(30), <3>1, <3>2, <3>3 DEF ThreadInv
  <2>14. CASE wait(c, p)
    <3>1. /\ OwnCPU' /\ OwnLock' /\ OnState' /\ OffState'
          /\ ProcState' /\ RetInv' /\ ForkInv'
      BY <2>14
      DEF wait, OwnCPU, OwnLock, HoldsOwn, OnState, OffState, ProcState,
          RetInv, Preemptible, ForkInv, Forking
    <3>2. WaitLock'
      BY <2>14
      DEF wait, WaitLock, HoldsWait, OwnCPU, OwnLock, HoldsOwn, OnState
    <3> QED
      BY <3>1, <3>2 DEF ThreadInv
  <2>15. CASE wait_scan(c, p)
    <3>0. idx[p] \in 0..NPROC
      BY DEF TypeOK
    <3>1. CASE wait_next(p, idx[p])
      <4>1. /\ OwnCPU' /\ OwnLock' /\ WaitLock' /\ OnState'
            /\ OffState' /\ ProcState' /\ RetInv' /\ ForkInv'
        BY <2>15, <3>0, <3>1
        DEF wait_scan, wait_next, ChildLockFree, OwnCPU, OwnLock, HoldsOwn,
            WaitLock, HoldsWait, OnState, OffState, ProcState, RetInv,
            Preemptible, ForkInv, Forking
      <4> QED
        BY <4>1 DEF ThreadInv
    <3>2. CASE wait_reap(p, idx[p])
      <4>1. OwnCPU' /\ OwnLock' /\ WaitLock' /\ OffState'
        BY <2>15, <3>0, <3>2
        DEF wait_scan, wait_reap, freeproc, FoundZombie, ChildLockFree,
            OwnCPU, OwnLock, HoldsOwn, WaitLock, HoldsWait, OffState
      <4>2. OnState'
        BY <2>15, <3>0, <3>2
        DEF wait_scan, wait_reap, freeproc, FoundZombie, ChildLockFree,
            OnState, OwnCPU, OwnLock, HoldsOwn
      <4>3. ProcState'
        BY SMTT(30), <2>15, <3>0, <3>2
        DEF wait_scan, wait_reap, freeproc, FoundZombie, ChildLockFree,
            ProcState, OwnCPU, OwnLock, HoldsOwn, OnState
      <4>4. RetInv'
        BY SMTT(30), <2>15, <3>0, <3>2
        DEF wait_scan, wait_reap, freeproc, FoundZombie, ChildLockFree,
            RetInv, Preemptible, OwnCPU, OwnLock, HoldsOwn, OnState, OffState,
            ProcState
      <4>5. ForkInv'
        BY SMTT(30), <2>15, <3>0, <3>2
        DEF wait_scan, wait_reap, freeproc, FoundZombie, ChildLockFree,
            ForkInv, Forking, OwnCPU, OwnLock, HoldsOwn, OnState, OffState,
            ProcState
      <4> QED
        BY SMTT(30), <4>1, <4>2, <4>3, <4>4, <4>5 DEF ThreadInv
    <3>3. CASE wait_fail(p, idx[p])
      <4>1. /\ OwnCPU' /\ OwnLock' /\ WaitLock' /\ OnState'
            /\ OffState' /\ ProcState' /\ RetInv' /\ ForkInv'
        BY SMTT(30), <2>15, <3>0, <3>3
        DEF wait_scan, wait_fail, FoundZombie, ChildLockFree, OwnCPU, OwnLock,
            HoldsOwn, WaitLock, HoldsWait, OnState, OffState, ProcState,
            RetInv, Preemptible, ForkInv, Forking
      <4> QED
        BY <4>1 DEF ThreadInv
    <3>4. CASE wait_sleep(p, idx[p])
      <4>1. /\ OwnCPU' /\ OwnLock' /\ WaitLock' /\ OnState'
            /\ OffState' /\ ProcState' /\ RetInv' /\ ForkInv'
        BY <2>15, <3>0, <3>4
        DEF wait_scan, wait_sleep, OwnCPU, OwnLock, HoldsOwn, WaitLock,
            HoldsWait, OnState, OffState, ProcState, RetInv, Preemptible,
            ForkInv, Forking
      <4> QED
        BY <4>1 DEF ThreadInv
    <3> QED
      BY SMTT(30), <2>15, <3>1, <3>2, <3>3, <3>4 DEF wait_scan
  <2>16. CASE sleep(c, p)
    <3>1. /\ OwnCPU' /\ WaitLock' /\ OnState' /\ OffState'
          /\ ProcState' /\ RetInv' /\ ForkInv'
      BY <2>16
      DEF sleep, OwnCPU, WaitLock, HoldsWait, OnState, OffState, ProcState,
          RetInv, Preemptible, ForkInv, Forking
    <3>2. OwnLock'
      BY <2>16 DEF sleep, OwnLock, HoldsOwn, OwnCPU, OnState
    <3> QED
      BY SMTT(30), <3>1, <3>2 DEF ThreadInv
  <2>17. CASE sleep_set(c, p)
    <3>1. /\ OwnCPU' /\ OwnLock' /\ WaitLock' /\ OnState'
          /\ OffState' /\ ProcState' /\ RetInv'
      BY <2>17
      DEF sleep_set, OwnCPU, OwnLock, HoldsOwn, WaitLock, HoldsWait, OnState,
          OffState, ProcState, RetInv, Preemptible
    <3>2. ForkInv'
      BY SMTT(30), <2>17
      DEF sleep_set, ForkInv, Forking, OwnCPU, OwnLock, HoldsOwn, OnState
    <3> QED
      BY SMTT(30), <3>1, <3>2 DEF ThreadInv
  <2>18. CASE sleep_ret(c, p)
    <3>1. /\ OwnCPU' /\ WaitLock' /\ OnState' /\ OffState'
          /\ ProcState' /\ RetInv' /\ ForkInv'
      BY <2>18
      DEF sleep_ret, OwnCPU, WaitLock, HoldsWait, OnState, OffState,
          ProcState, RetInv, Preemptible, ForkInv, Forking
    <3>2. OwnLock'
      BY <2>18 DEF sleep_ret, OwnLock, HoldsOwn, OwnCPU, OnState
    <3> QED
      BY <3>1, <3>2 DEF ThreadInv
  <2>19. CASE kill(c, p)
    <3>0. idx[p] \in 0..NPROC
      BY DEF TypeOK
    <3>1. CASE kill_next(p, idx[p])
      <4>1. /\ OwnCPU' /\ OwnLock' /\ WaitLock' /\ OnState'
            /\ OffState' /\ ProcState' /\ RetInv' /\ ForkInv'
        BY SMTT(30), <2>19, <3>0, <3>1
        DEF kill, kill_next, OwnCPU, OwnLock, HoldsOwn, WaitLock, HoldsWait,
            OnState, OffState, ProcState, RetInv, Preemptible, ForkInv,
            Forking
      <4> QED
        BY <4>1 DEF ThreadInv
    <3>2. CASE kill_none(p, idx[p])
      <4>1. /\ OwnCPU' /\ OwnLock' /\ WaitLock' /\ OnState'
            /\ OffState' /\ ProcState' /\ RetInv' /\ ForkInv'
        BY SMTT(30), <2>19, <3>0, <3>2
        DEF kill, kill_none, OwnCPU, OwnLock, HoldsOwn, WaitLock, HoldsWait,
            OnState, OffState, ProcState, RetInv, Preemptible, ForkInv,
            Forking
      <4> QED
        BY <4>1 DEF ThreadInv
    <3>3. CASE kill_found(p, idx[p])
      <4>1. /\ OwnCPU' /\ OwnLock' /\ WaitLock' /\ OnState'
            /\ OffState' /\ ProcState' /\ ForkInv'
        BY SMTT(30), <2>19, <3>0, <3>3
        DEF kill, kill_found, OwnCPU, OwnLock, HoldsOwn, WaitLock, HoldsWait,
            OnState, OffState, ProcState, ForkInv, Forking
      <4>2. RetInv'
        BY <2>19, <3>0, <3>3
        DEF kill, kill_found, RetInv, Preemptible, OwnCPU, OwnLock, HoldsOwn,
            OnState, OffState, ProcState
      <4> QED
        BY <4>1, <4>2 DEF ThreadInv
    <3> QED
      BY SMTT(30), <2>19, <3>1, <3>2, <3>3 DEF kill
  <2>20. CASE sched(c, p)
    <3>1. OwnCPU' /\ WaitLock' /\ ProcState' /\ RetInv' /\ ForkInv'
      BY <2>20
      DEF sched, OwnCPU, WaitLock, HoldsWait, ProcState, RetInv, Preemptible,
          ForkInv, Forking
    <3>2. OwnLock'
      BY <2>20 DEF sched, OwnLock, HoldsOwn, OwnCPU, OnState
    <3>3. OnState'
      BY <2>20 DEF sched, OnState, OwnCPU, OwnLock, HoldsOwn
    <3>4. OffState'
      BY <2>20
      DEF sched, OffState, OwnCPU, OwnLock, HoldsOwn, OnState, WaitLock,
          HoldsWait, RetInv, Preemptible, ForkInv, Forking
    <3> QED
      BY SMTT(30), <3>1, <3>2, <3>3, <3>4 DEF ThreadInv
  <2>21. CASE yield_ret(c, p)
    <3>1. OwnCPU' /\ OffState' /\ ProcState' /\ RetInv' /\ ForkInv'
      BY SMTT(30), <2>21
      DEF yield_ret, OwnCPU, OffState, ProcState, RetInv, Preemptible,
          ForkInv, Forking
    <3>2. OwnLock'
      BY <2>21
      DEF yield_ret, OwnLock, HoldsOwn, OwnCPU, OnState, OffState, WaitLock,
          HoldsWait, RetInv, Preemptible, ForkInv, Forking
    <3>3. WaitLock'
      BY SMTT(30), <2>21
      DEF yield_ret, WaitLock, HoldsWait, OwnCPU, OwnLock, HoldsOwn, OnState,
          OffState, RetInv, Preemptible, ForkInv, Forking
    <3>4. OnState'
      BY SMTT(30), <2>21
      DEF yield_ret, OnState, OwnCPU, OwnLock, HoldsOwn, OffState, WaitLock,
          HoldsWait, RetInv, Preemptible, ForkInv, Forking
    <3> QED
      BY SMTT(30), <3>1, <3>2, <3>3, <3>4 DEF ThreadInv
  <2>22. CASE forkret(c, p)
    <3>1. /\ OwnCPU' /\ WaitLock' /\ OnState' /\ OffState'
          /\ ProcState' /\ RetInv' /\ ForkInv'
      BY <2>22
      DEF forkret, OwnCPU, WaitLock, HoldsWait, OnState, OffState, ProcState,
          RetInv, Preemptible, ForkInv, Forking
    <3>2. OwnLock'
      BY <2>22 DEF forkret, OwnLock, HoldsOwn, OwnCPU, OnState
    <3> QED
      BY <3>1, <3>2 DEF ThreadInv
  <2> QED
    BY <1>2, <2>1, <2>2, <2>3, <2>4, <2>5, <2>6, <2>7, <2>8, <2>9, <2>10,
       <2>11, <2>12, <2>13, <2>14, <2>15, <2>16, <2>17, <2>18, <2>19, <2>20,
       <2>21, <2>22
    DEF Work, Switch
<1> QED
  BY <1>1, <1>2 DEF Next

\* The threads and the locks stay consistent.
THEOREM ThreadCorrect == Spec => [](TypeOK /\ ThreadInv)
<1>1. Init => ThreadInv
  BY SlotFacts, NULLAssumption
  DEF Init, ThreadInv, OwnCPU, OwnLock, WaitLock, OnState, OffState, ProcState,
      RetInv, ForkInv, Forking, HoldsOwn, HoldsWait, UNUSED, USED, RUNNABLE,
      SLEEPING, ZOMBIE, RUNNING
<1>2. QED
  BY <1>1, TypeCorrect, ThreadInductive, PTL DEF Spec

\* No two CPUs execute one kernel thread, no CPU executes on the stack of a
\* freed slot, and the panics of sched() are never reached: for every size of
\* the process table and every number of CPUs.
THEOREM StacksSafe ==
  Spec => []OneCPUPerThread /\ []ReapedAfterSwtch /\ []SchedAsserts
<1> USE SlotFacts, NULLAssumption DEF TypeOK, ThreadInv
<1>1. TypeOK /\ ThreadInv => OneCPUPerThread
  BY DEF OneCPUPerThread, OwnCPU
<1>2. TypeOK /\ ThreadInv => ReapedAfterSwtch
  BY Zenon DEF ReapedAfterSwtch, OnState, UNUSED, USED, RUNNABLE, SLEEPING, ZOMBIE,
         RUNNING
<1>3. TypeOK /\ ThreadInv => SchedAsserts
  BY DEF SchedAsserts, At, OwnCPU, OwnLock, WaitLock, OnState, HoldsOwn,
         HoldsWait, RUNNABLE, SLEEPING, ZOMBIE, RUNNING
<1>4. QED
  BY <1>1, <1>2, <1>3, ThreadCorrect, PTL
=============================================================================
