-------------------------------- MODULE Proc --------------------------------
(***************************************************************************)
(* The process table of kernel/proc.c: fork, exit, wait, kill, sleep,      *)
(* wakeup, yield and the hand-over between a process's kernel thread and   *)
(* the per-CPU scheduler thread through swtch().                           *)
(*                                                                         *)
(* A CPU c executes one thread: on[c] is the process whose kernel thread   *)
(* it runs, or NULL when it runs scheduler().  cproc[c] is c->proc, which  *)
(* scheduler() sets before swtch() and clears after it, so the two differ  *)
(* while a thread that called sched() has switched away and the scheduler  *)
(* has not yet released its p->lock.                                       *)
(*                                                                         *)
(* Spinlocks are held by CPUs (lk->cpu).  "acquire; body; release" of one  *)
(* lock is one step guarded by the lock being free; a lock that stays held *)
(* over several statements is a variable, and every unlocked read (of      *)
(* p->killed, above all) is in a step of its own.  Which RUNNABLE process  *)
(* the scheduler picks is left open here: see Lottery.                     *)
(***************************************************************************)
EXTENDS Integers

CONSTANTS
  NPROC,     \* size of the process table
  CPUS,      \* the set of CPUs
  NULL,      \* the null pointer
  MaxPid,    \* bound: fork() is called only while nextpid <= MaxPid
  KillPids   \* the arguments user programs pass to kill()

Slots == 0..(NPROC - 1)

ASSUME NPROCAssumption == NPROC \in Nat \ {0}
ASSUME NULLAssumption == NULL \notin Int /\ NULL \notin CPUS
ASSUME PidAssumption == MaxPid \in Nat /\ KillPids \subseteq Int

\* userinit() allocates first and so gets slot 0.
initproc == 0

UNUSED == "UNUSED"
USED == "USED"
SLEEPING == "SLEEPING"
RUNNABLE == "RUNNABLE"
RUNNING == "RUNNING"
ZOMBIE == "ZOMBIE"
procstate == {UNUSED, USED, SLEEPING, RUNNABLE, RUNNING, ZOMBIE}

VARIABLES
  state,      \* p->state
  chan,       \* p->chan; the channel of wait() is the waiting slot itself
  killed,     \* p->killed
  pid,        \* p->pid, 0 in a free slot
  parent,     \* p->parent
  plock,      \* plock[p]: the CPU that holds p->lock, or NULL
  wait_lock,  \* the CPU that holds wait_lock, or NULL
  nextpid,
  cproc,      \* cproc[c]: c->proc
  on,         \* on[c]: the process whose kernel thread c executes
  pc,         \* where p's kernel thread is
  ret,        \* where a thread preempted by the timer goes on
  idx,        \* loop index of a scan over the process table
  np,         \* fork()'s np
  havekids,   \* wait()'s havekids
  kpid        \* kill()'s argument

procVars == <<state, chan, killed, pid, parent>>
lockVars == <<plock, wait_lock>>
cpuVars == <<cproc, on>>
localVars == <<idx, np, havekids, kpid>>
vars == <<procVars, lockVars, nextpid, cpuVars, pc, ret, localVars>>

Labels ==
  {"none", "forkret", "user", "trapret", "allocproc", "fork_parent",
   "fork_run", "exit", "reparent", "wake_init", "wake_parent",
   "exit_zombie", "zombie", "wait", "wait_scan", "sleep", "sleep_set",
   "sleep_ret", "sched", "yield_ret", "kill", "panic"}

\* CPU c executes the kernel thread of p, which has reached label l.
At(c, p, l) == on[c] = p /\ pc[p] = l

Goto(p, l) == pc' = [pc EXCEPT ![p] = l]

-----------------------------------------------------------------------------
(* Boot: procinit() and userinit(), before any CPU enters scheduler().     *)

Init ==
  /\ state = [p \in Slots |-> IF p = initproc THEN RUNNABLE ELSE UNUSED]
  /\ chan = [p \in Slots |-> NULL]
  /\ killed = [p \in Slots |-> FALSE]
  /\ pid = [p \in Slots |-> IF p = initproc THEN 1 ELSE 0]
  /\ parent = [p \in Slots |-> NULL]
  /\ plock = [p \in Slots |-> NULL]
  /\ wait_lock = NULL
  /\ nextpid = 2
  /\ cproc = [c \in CPUS |-> NULL]
  /\ on = [c \in CPUS |-> NULL]
  /\ pc = [p \in Slots |-> IF p = initproc THEN "forkret" ELSE "none"]
  /\ ret = [p \in Slots |-> "none"]
  /\ idx = [p \in Slots |-> 0]
  /\ np = [p \in Slots |-> NULL]
  /\ havekids = [p \in Slots |-> FALSE]
  /\ kpid = [p \in Slots |-> 0]

-----------------------------------------------------------------------------
(* The scheduler thread and the threads it switches to.                    *)

\* scheduler() picks p, finds it RUNNABLE under p->lock and switches to it,
\* still holding the lock.
scheduler(c, p) ==
  /\ on[c] = NULL
  /\ cproc[c] = NULL
  /\ plock[p] = NULL
  /\ state[p] = RUNNABLE
  /\ plock' = [plock EXCEPT ![p] = c]
  /\ state' = [state EXCEPT ![p] = RUNNING]
  /\ cproc' = [cproc EXCEPT ![c] = p]
  /\ on' = [on EXCEPT ![c] = p]
  /\ UNCHANGED <<chan, killed, pid, parent, wait_lock, nextpid, pc, ret,
                 localVars>>

\* The scheduler after swtch() returned: c->proc = 0; release(&p->lock).
scheduler_ret(c, p) ==
  /\ on[c] = NULL
  /\ cproc[c] = p
  /\ cproc' = [cproc EXCEPT ![c] = NULL]
  /\ plock' = [plock EXCEPT ![p] = NULL]
  /\ UNCHANGED <<procVars, wait_lock, nextpid, on, pc, ret, localVars>>

\* sched(): swtch() from p's thread to the scheduler thread of its CPU.
\* The saved context resumes in yield(), in sleep() or, for a zombie, never.
sched(c, p) ==
  /\ At(c, p, "sched")
  /\ on' = [on EXCEPT ![c] = NULL]
  /\ Goto(p, IF ret[p] # "none" THEN "yield_ret"
             ELSE IF state[p] = ZOMBIE THEN "zombie" ELSE "sleep_ret")
  /\ UNCHANGED <<procVars, lockVars, nextpid, cproc, ret, localVars>>

\* A CPU takes interrupts only while it holds no spinlock (push_off).
IntrOn(c) == wait_lock # c /\ \A q \in Slots : plock[q] # c

\* Fault: yield() releases p->lock before it switches away.
yieldUnlocked(c, p) ==
  /\ on[c] = p
  /\ IntrOn(c)
  /\ plock[p] = NULL
  /\ state' = [state EXCEPT ![p] = RUNNABLE]
  /\ ret' = [ret EXCEPT ![p] = pc[p]]
  /\ Goto(p, "sched")
  /\ UNCHANGED <<chan, killed, pid, parent, lockVars, nextpid, cpuVars,
                 localVars>>

\* Timer interrupt: usertrap() or kerneltrap() calls yield(), which takes
\* p->lock and sets RUNNABLE.  From user space a killed process exits first.
yield(c, p) ==
  /\ on[c] = p
  /\ IntrOn(c)
  /\ pc[p] = "user" => ~killed[p]
  /\ state[p] = RUNNING
  /\ plock[p] = NULL
  /\ plock' = [plock EXCEPT ![p] = c]
  /\ state' = [state EXCEPT ![p] = RUNNABLE]
  /\ ret' = [ret EXCEPT ![p] = pc[p]]
  /\ Goto(p, "sched")
  /\ UNCHANGED <<chan, killed, pid, parent, wait_lock, nextpid, cpuVars,
                 localVars>>

\* yield() after sched() returned: release(&p->lock).
yield_ret(c, p) ==
  /\ At(c, p, "yield_ret")
  /\ plock' = [plock EXCEPT ![p] = NULL]
  /\ Goto(p, ret[p])
  /\ ret' = [ret EXCEPT ![p] = "none"]
  /\ UNCHANGED <<procVars, wait_lock, nextpid, cpuVars, localVars>>

\* A new process's first instruction: release(&p->lock), then user space.
forkret(c, p) ==
  /\ At(c, p, "forkret")
  /\ plock' = [plock EXCEPT ![p] = NULL]
  /\ Goto(p, "user")
  /\ UNCHANGED <<procVars, wait_lock, nextpid, cpuVars, ret, localVars>>

-----------------------------------------------------------------------------
(* Traps from user space.                                                  *)

\* usertrap() on a system call or a fault: a killed process exits instead,
\* and a fault sets p->killed without p->lock.
usertrap(c, p) ==
  /\ At(c, p, "user")
  /\ idx' = [idx EXCEPT ![p] = 0]
  /\ \/ /\ Goto(p, "exit")          \* exit(), or killed, or a fault
        /\ \E fault \in BOOLEAN :
             killed' = [killed EXCEPT ![p] = killed[p] \/ fault]
        /\ UNCHANGED kpid
     \/ /\ ~killed[p]
        /\ nextpid <= MaxPid
        /\ Goto(p, "allocproc")
        /\ UNCHANGED <<killed, kpid>>
     \/ /\ ~killed[p]
        /\ Goto(p, "wait")
        /\ UNCHANGED <<killed, kpid>>
     \/ /\ ~killed[p]
        /\ Goto(p, "kill")
        /\ \E k \in KillPids : kpid' = [kpid EXCEPT ![p] = k]
        /\ UNCHANGED killed
  /\ UNCHANGED <<state, chan, pid, parent, lockVars, nextpid, cpuVars, ret,
                 np, havekids>>

\* usertrap() after syscall() returned: if(p->killed) exit(-1).
trapret(c, p) ==
  /\ At(c, p, "trapret")
  /\ Goto(p, IF killed[p] THEN "exit" ELSE "user")
  /\ UNCHANGED <<procVars, lockVars, nextpid, cpuVars, ret, localVars>>

-----------------------------------------------------------------------------
(* fork()                                                                  *)

\* allocproc() looks at slot idx[p] under the slot's lock: it passes over a
\* slot in use, and returns 0 after the last one.
allocproc_next(p, i) ==
  /\ i < NPROC /\ plock[i] = NULL
  /\ state[i] # UNUSED
  /\ idx' = [idx EXCEPT ![p] = i + 1]
  /\ UNCHANGED <<state, pid, killed, nextpid, pc, np>>

allocproc_full(p, i) ==
  /\ i = NPROC
  /\ Goto(p, "trapret")
  /\ idx' = [idx EXCEPT ![p] = 0]
  /\ UNCHANGED <<state, pid, killed, nextpid, np>>

\* In an UNUSED slot it takes a pid and, when memory suffices for the
\* trapframe, the page table and fork()'s uvmcopy(), the slot is USED and its
\* context starts at forkret.  p->killed is not initialised.
allocproc_found(p, i) ==
  /\ i < NPROC /\ plock[i] = NULL
  /\ state[i] = UNUSED
  /\ nextpid' = nextpid + 1
  /\ pid' = [pid EXCEPT ![i] = nextpid]
  /\ state' = [state EXCEPT ![i] = USED]
  /\ np' = [np EXCEPT ![p] = i]
  /\ idx' = [idx EXCEPT ![p] = 0]
  /\ pc' = [pc EXCEPT ![p] = "fork_parent", ![i] = "forkret"]
  /\ UNCHANGED killed

\* When memory does not suffice, freeproc() gives the slot back.
allocproc_nomem(p, i) ==
  /\ i < NPROC /\ plock[i] = NULL
  /\ state[i] = UNUSED
  /\ nextpid' = nextpid + 1
  /\ killed' = [killed EXCEPT ![i] = FALSE]
  /\ idx' = [idx EXCEPT ![p] = 0]
  /\ Goto(p, "trapret")
  /\ UNCHANGED <<state, pid, np>>

allocproc(c, p) ==
  /\ At(c, p, "allocproc")
  /\ \/ allocproc_next(p, idx[p])
     \/ allocproc_full(p, idx[p])
     \/ allocproc_found(p, idx[p])
     \/ allocproc_nomem(p, idx[p])
  /\ UNCHANGED <<chan, parent, lockVars, cpuVars, ret, havekids, kpid>>

\* acquire(&wait_lock); np->parent = p; release(&wait_lock).
fork_parent(c, p) ==
  /\ At(c, p, "fork_parent")
  /\ wait_lock = NULL
  /\ parent' = [parent EXCEPT ![np[p]] = p]
  /\ Goto(p, "fork_run")
  /\ UNCHANGED <<state, chan, killed, pid, lockVars, nextpid, cpuVars, ret,
                 localVars>>

\* acquire(&np->lock); np->state = RUNNABLE; release(&np->lock).
fork_run(c, p) ==
  /\ At(c, p, "fork_run")
  /\ plock[np[p]] = NULL
  /\ state' = [state EXCEPT ![np[p]] = RUNNABLE]
  /\ np' = [np EXCEPT ![p] = NULL]
  /\ Goto(p, "trapret")
  /\ UNCHANGED <<chan, killed, pid, parent, lockVars, nextpid, cpuVars, ret,
                 idx, havekids, kpid>>

-----------------------------------------------------------------------------
(* exit()                                                                  *)

\* Fault: acquire() records the process instead of the CPU as the holder.
exitHolder(c, p) ==
  /\ At(c, p, "exit")
  /\ p # initproc
  /\ wait_lock = NULL
  /\ wait_lock' = p
  /\ Goto(p, "reparent")
  /\ UNCHANGED <<procVars, plock, nextpid, cpuVars, ret, localVars>>

\* exit() up to acquire(&wait_lock): init panics, any other process has
\* closed its files and given up its directory (modelled elsewhere).
exit(c, p) ==
  /\ At(c, p, "exit")
  /\ \/ /\ p = initproc
        /\ Goto(p, "panic")
        /\ UNCHANGED wait_lock
     \/ /\ p # initproc
        /\ wait_lock = NULL
        /\ wait_lock' = c
        /\ Goto(p, "reparent")
  /\ UNCHANGED <<procVars, plock, nextpid, cpuVars, ret, localVars>>

Children(p) == {q \in Slots : parent[q] = p}

\* Fault: exit() leaves its children with their parent pointer.
reparentNone(c, p) ==
  /\ At(c, p, "reparent")
  /\ Goto(p, "wake_parent")
  /\ UNCHANGED <<procVars, lockVars, nextpid, cpuVars, ret, localVars>>

\* reparent() gives the next child to init and wakes init ...
reparent_child(p, q) ==
  /\ \A r \in Children(p) : q <= r
  /\ parent' = [parent EXCEPT ![q] = initproc]
  /\ Goto(p, "wake_init")

\* ... until no child is left; then exit() wakes the parent.
reparent_done(p) ==
  /\ Children(p) = {}
  /\ Goto(p, "wake_parent")
  /\ UNCHANGED parent

reparent(c, p) ==
  /\ At(c, p, "reparent")
  /\ \/ \E q \in Children(p) : reparent_child(p, q)
     \/ reparent_done(p)
  /\ UNCHANGED <<state, chan, killed, pid, lockVars, nextpid, cpuVars, ret,
                 localVars>>

\* One iteration of wakeup(ch), called at label l, returning to label next.
wakeup_next(p, i, ch) ==
  /\ i < NPROC /\ (i = p \/ plock[i] = NULL)
  /\ state' = IF i # p /\ state[i] = SLEEPING /\ chan[i] = ch
              THEN [state EXCEPT ![i] = RUNNABLE] ELSE state
  /\ idx' = [idx EXCEPT ![p] = i + 1]
  /\ UNCHANGED pc

wakeup_done(p, i, next) ==
  /\ i = NPROC
  /\ Goto(p, next)
  /\ idx' = [idx EXCEPT ![p] = 0]
  /\ UNCHANGED state

wakeup(c, p, ch, l, next) ==
  /\ At(c, p, l)
  /\ \/ wakeup_next(p, idx[p], ch)
     \/ wakeup_done(p, idx[p], next)
  /\ UNCHANGED <<chan, killed, pid, parent, lockVars, nextpid, cpuVars, ret,
                 np, havekids, kpid>>

wake_init(c, p) == wakeup(c, p, initproc, "wake_init", "reparent")
wake_parent(c, p) == wakeup(c, p, parent[p], "wake_parent", "exit_zombie")

\* Fault: exit() keeps wait_lock over sched().
exit_zombieKeep(c, p) ==
  /\ At(c, p, "exit_zombie")
  /\ plock[p] = NULL
  /\ plock' = [plock EXCEPT ![p] = c]
  /\ state' = [state EXCEPT ![p] = ZOMBIE]
  /\ Goto(p, "sched")
  /\ UNCHANGED <<chan, killed, pid, parent, wait_lock, nextpid, cpuVars, ret,
                 localVars>>

\* acquire(&p->lock); p->state = ZOMBIE; release(&wait_lock); sched().
exit_zombie(c, p) ==
  /\ At(c, p, "exit_zombie")
  /\ plock[p] = NULL
  /\ plock' = [plock EXCEPT ![p] = c]
  /\ state' = [state EXCEPT ![p] = ZOMBIE]
  /\ wait_lock' = NULL
  /\ Goto(p, "sched")
  /\ UNCHANGED <<chan, killed, pid, parent, nextpid, cpuVars, ret, localVars>>

-----------------------------------------------------------------------------
(* wait() and sleep()                                                      *)

\* acquire(&wait_lock), on entry and again at the end of sleep(); havekids = 0.
wait(c, p) ==
  /\ At(c, p, "wait")
  /\ wait_lock = NULL
  /\ wait_lock' = c
  /\ idx' = [idx EXCEPT ![p] = 0]
  /\ havekids' = [havekids EXCEPT ![p] = FALSE]
  /\ Goto(p, "wait_scan")
  /\ UNCHANGED <<procVars, plock, nextpid, cpuVars, ret, np, kpid>>

\* Fault: freeproc() forgets p->killed.
freeprocKilled(q) ==
  /\ state' = [state EXCEPT ![q] = UNUSED]
  /\ pid' = [pid EXCEPT ![q] = 0]
  /\ parent' = [parent EXCEPT ![q] = NULL]
  /\ chan' = [chan EXCEPT ![q] = NULL]
  /\ UNCHANGED killed

\* freeproc(): the fields of the slot that the model keeps.
freeproc(q) ==
  /\ state' = [state EXCEPT ![q] = UNUSED]
  /\ pid' = [pid EXCEPT ![q] = 0]
  /\ parent' = [parent EXCEPT ![q] = NULL]
  /\ chan' = [chan EXCEPT ![q] = NULL]
  /\ killed' = [killed EXCEPT ![q] = FALSE]

\* Fault: wait() looks at the child without taking its lock.
ChildLockIgnored(i) == TRUE

\* wait() examines a child under the child's lock, "to make sure the child
\* isn't still in exit() or swtch()".
ChildLockFree(i) == plock[i] = NULL

\* wait() passes over a slot that is not a zombie child.
wait_next(p, i) ==
  /\ i < NPROC
  /\ \/ parent[i] # p /\ UNCHANGED havekids
     \/ /\ parent[i] = p /\ ChildLockFree(i) /\ state[i] # ZOMBIE
        /\ havekids' = [havekids EXCEPT ![p] = TRUE]
  /\ idx' = [idx EXCEPT ![p] = i + 1]
  /\ UNCHANGED <<procVars, wait_lock, pc>>

FoundZombie(p, i) ==
  /\ i < NPROC
  /\ parent[i] = p
  /\ ChildLockFree(i)
  /\ state[i] = ZOMBIE

\* It frees a zombie child and returns its pid ...
wait_reap(p, i) ==
  /\ FoundZombie(p, i)
  /\ freeproc(i)
  /\ wait_lock' = NULL
  /\ pc' = [pc EXCEPT ![p] = "trapret", ![i] = "none"]
  /\ idx' = [idx EXCEPT ![p] = 0]
  /\ havekids' = [havekids EXCEPT ![p] = FALSE]

\* ... and returns -1 when copyout() of the status fails (the zombie stays)
\* or, after the last slot, without children or killed.
wait_fail(p, i) ==
  /\ \/ FoundZombie(p, i)
     \/ i = NPROC /\ (~havekids[p] \/ killed[p])
  /\ wait_lock' = NULL
  /\ Goto(p, "trapret")
  /\ idx' = [idx EXCEPT ![p] = 0]
  /\ havekids' = [havekids EXCEPT ![p] = FALSE]
  /\ UNCHANGED procVars

\* Otherwise it goes to sleep, wait_lock held.
wait_sleep(p, i) ==
  /\ i = NPROC /\ havekids[p] /\ ~killed[p]
  /\ Goto(p, "sleep")
  /\ idx' = [idx EXCEPT ![p] = 0]
  /\ havekids' = [havekids EXCEPT ![p] = FALSE]
  /\ UNCHANGED <<procVars, wait_lock>>

wait_scan(c, p) ==
  /\ At(c, p, "wait_scan")
  /\ \/ wait_next(p, idx[p])
     \/ wait_reap(p, idx[p])
     \/ wait_fail(p, idx[p])
     \/ wait_sleep(p, idx[p])
  /\ UNCHANGED <<plock, nextpid, cpuVars, ret, np, kpid>>

\* Fault: sleep() releases lk before it holds p->lock.
sleepReleaseFirst(c, p) ==
  /\ At(c, p, "sleep")
  /\ wait_lock' = NULL
  /\ Goto(p, "sleep_set")
  /\ UNCHANGED <<procVars, plock, nextpid, cpuVars, ret, localVars>>

\* sleep(p, &wait_lock): acquire(&p->lock); release(lk).
sleep(c, p) ==
  /\ At(c, p, "sleep")
  /\ plock[p] = NULL
  /\ plock' = [plock EXCEPT ![p] = c]
  /\ wait_lock' = NULL
  /\ Goto(p, "sleep_set")
  /\ UNCHANGED <<procVars, nextpid, cpuVars, ret, localVars>>

\* p->chan = chan; p->state = SLEEPING; sched().
sleep_set(c, p) ==
  /\ At(c, p, "sleep_set")
  /\ chan' = [chan EXCEPT ![p] = p]
  /\ state' = [state EXCEPT ![p] = SLEEPING]
  /\ Goto(p, "sched")
  /\ UNCHANGED <<killed, pid, parent, lockVars, nextpid, cpuVars, ret,
                 localVars>>

\* sleep() after sched() returned: p->chan = 0; release(&p->lock).
sleep_ret(c, p) ==
  /\ At(c, p, "sleep_ret")
  /\ chan' = [chan EXCEPT ![p] = NULL]
  /\ plock' = [plock EXCEPT ![p] = NULL]
  /\ Goto(p, "wait")
  /\ UNCHANGED <<state, killed, pid, parent, wait_lock, nextpid, cpuVars,
                 ret, localVars>>

-----------------------------------------------------------------------------
(* kill()                                                                  *)

\* kill() compares slot idx[p]'s pid under its lock and goes on ...
kill_next(p, i) ==
  /\ i < NPROC /\ plock[i] = NULL
  /\ pid[i] # kpid[p]
  /\ idx' = [idx EXCEPT ![p] = i + 1]
  /\ UNCHANGED <<state, killed, pc, kpid>>

\* ... returns -1 after the last slot ...
kill_none(p, i) ==
  /\ i = NPROC
  /\ Goto(p, "trapret")
  /\ idx' = [idx EXCEPT ![p] = 0]
  /\ kpid' = [kpid EXCEPT ![p] = 0]
  /\ UNCHANGED <<state, killed>>

\* ... or marks the victim and, if it sleeps, makes it RUNNABLE.
kill_found(p, i) ==
  /\ i < NPROC /\ plock[i] = NULL
  /\ pid[i] = kpid[p]
  /\ killed' = [killed EXCEPT ![i] = TRUE]
  /\ state' = IF state[i] = SLEEPING
              THEN [state EXCEPT ![i] = RUNNABLE] ELSE state
  /\ Goto(p, "trapret")
  /\ idx' = [idx EXCEPT ![p] = 0]
  /\ kpid' = [kpid EXCEPT ![p] = 0]

kill(c, p) ==
  /\ At(c, p, "kill")
  /\ \/ kill_next(p, idx[p])
     \/ kill_none(p, idx[p])
     \/ kill_found(p, idx[p])
  /\ UNCHANGED <<chan, pid, parent, lockVars, nextpid, cpuVars, ret, np,
                 havekids>>

-----------------------------------------------------------------------------

\* What the thread of p does on CPU c: its own work, which takes it further
\* through the system call, and the switching back and forth around it.
Work(c, p) ==
  \/ trapret(c, p)
  \/ allocproc(c, p) \/ fork_parent(c, p) \/ fork_run(c, p)
  \/ exit(c, p) \/ reparent(c, p) \/ wake_init(c, p) \/ wake_parent(c, p)
  \/ exit_zombie(c, p)
  \/ wait(c, p) \/ wait_scan(c, p) \/ sleep(c, p) \/ sleep_set(c, p)
  \/ sleep_ret(c, p)
  \/ kill(c, p)

Switch(c, p) ==
  \/ sched(c, p) \/ yield_ret(c, p) \/ forkret(c, p)

Next ==
  \E c \in CPUS, p \in Slots :
    \/ scheduler(c, p)
    \/ scheduler_ret(c, p)
    \/ yield(c, p)
    \/ usertrap(c, p)
    \/ Work(c, p)
    \/ Switch(c, p)

Spec == Init /\ [][Next]_vars

\* The timer interrupts a thread that never leaves user space (or spins in
\* panic() with interrupts on): it yields or, when killed, exits.
Timer(c, p) ==
  /\ pc[p] \in {"user", "panic"}
  /\ \/ yield(c, p)
     \/ killed[p] /\ usertrap(c, p)

\* Fairness.  A spinning acquire() eventually gets its lock and the scheduler
\* eventually picks a process that is RUNNABLE again and again (strong
\* fairness: the lock or the RUNNABLE state may come and go); a thread gets
\* further between two timer interrupts; the timer keeps firing.  User
\* programs need not make any system call.
Fairness ==
  \A p \in Slots :
    /\ SF_vars(\E c \in CPUS : Work(c, p))
    /\ WF_vars(\E c \in CPUS : Switch(c, p))
    /\ SF_vars(\E c \in CPUS : scheduler(c, p))
    /\ WF_vars(\E c \in CPUS : scheduler_ret(c, p))
    /\ SF_vars(\E c \in CPUS : Timer(c, p))

FairSpec == Spec /\ Fairness

-----------------------------------------------------------------------------
(* Properties                                                              *)

\* Every field of the process table, the locks and the per-CPU data stay in
\* their domains.
TypeOK ==
  /\ state \in [Slots -> procstate]
  /\ chan \in [Slots -> Slots \cup {NULL}]
  /\ killed \in [Slots -> BOOLEAN]
  /\ pid \in [Slots -> Nat]
  /\ parent \in [Slots -> Slots \cup {NULL}]
  /\ plock \in [Slots -> CPUS \cup {NULL}]
  /\ wait_lock \in CPUS \cup {NULL}
  /\ nextpid \in Nat \ {0}
  /\ cproc \in [CPUS -> Slots \cup {NULL}]
  /\ on \in [CPUS -> Slots \cup {NULL}]
  /\ pc \in [Slots -> Labels]
  /\ ret \in [Slots -> Labels]
  /\ idx \in [Slots -> 0..NPROC]
  /\ np \in [Slots -> Slots \cup {NULL}]
  /\ havekids \in [Slots -> BOOLEAN]
  /\ kpid \in [Slots -> Int]

\* A kernel stack is used by one CPU at a time: no two CPUs execute the
\* thread of the same process, although yield(), sleep() and the scheduler
\* make it RUNNABLE again before it has left its stack.
OneCPUPerThread ==
  \A c, d \in CPUS : on[c] # NULL /\ on[c] = on[d] => c = d

\* No CPU executes on the kernel stack of a slot that wait() has freed or
\* that fork() is filling in: wait() takes the zombie's lock so that the
\* zombie has left its stack in swtch().
ReapedAfterSwtch ==
  \A c \in CPUS : on[c] # NULL => state[on[c]] \notin {UNUSED, USED}

\* The panics of sched(): a thread that calls it holds p->lock and no other
\* lock, and has changed p->state.
SchedAsserts ==
  \A c \in CPUS, p \in Slots :
    At(c, p, "sched") =>
      /\ plock[p] = c
      /\ wait_lock # c
      /\ \A q \in Slots \ {p} : plock[q] # c
      /\ state[p] # RUNNING

\* Lost wakeups: whenever nobody is inside a wait_lock section, no process
\* sleeps in wait() while one of its children is a zombie.
NoSleepThroughExit ==
  wait_lock = NULL =>
    \A p, q \in Slots :
      parent[q] = p /\ state[q] = ZOMBIE =>
        /\ ~(state[p] = SLEEPING /\ chan[p] = p)
        /\ pc[p] # "sleep_set"

\* Every process but init has a parent that can still wait() for it: exit()
\* hands its children to init before it becomes a zombie itself.
LiveParent ==
  \A p \in Slots \ {initproc} :
    state[p] \notin {UNUSED, USED} =>
      /\ parent[p] # NULL
      /\ state[parent[p]] \in {SLEEPING, RUNNABLE, RUNNING}

\* A free slot carries no trace of a kill(), so that fork() does not create
\* a process that is already killed (allocproc() leaves p->killed alone).
FreeSlotNotKilled ==
  \A p \in Slots : state[p] = UNUSED => ~killed[p]

\* p is inside wait(), possibly asleep or preempted on its way to wait_lock.
InWait(p) ==
  \/ pc[p] \in {"wait", "wait_scan", "sleep", "sleep_set", "sleep_ret"}
  \/ pc[p] = "sched" /\ state[p] = SLEEPING
  \/ ret[p] = "wait"

\* wait() returns once the caller has a zombie child: whatever the order of
\* the child's exit() and the parent's sleep(), the parent finds out.
WaitReturns ==
  \A p \in Slots :
    (InWait(p) /\ \E q \in Slots : parent[q] = p /\ state[q] = ZOMBIE)
      ~> pc[p] = "trapret"

\* kill() kills: a process other than init whose p->killed is set exits.
KilledExits ==
  \A p \in Slots \ {initproc} :
    killed[p] ~> state[p] \in {ZOMBIE, UNUSED}
-----------------------------------------------------------------------------
(* The inductive invariants behind the properties.                         *)

\* Labels at which a thread holds its own p->lock, at which it holds
\* wait_lock, and at which it holds nothing and the timer may preempt it.
HoldsOwn == {"forkret", "yield_ret", "sleep_ret", "sleep_set", "sched"}
HoldsWait ==
  {"reparent", "wake_init", "wake_parent", "exit_zombie", "wait_scan",
   "sleep"}
Preemptible ==
  {"user", "trapret", "allocproc", "fork_parent", "fork_run", "exit",
   "wait", "kill", "panic"}

\* p is between allocproc() and np->state = RUNNABLE.
Forking(p) ==
  pc[p] \in {"fork_parent", "fork_run"} \/ ret[p] \in {"fork_parent", "fork_run"}

\* A process belongs to at most one CPU, from the scheduler's choice to its
\* release of p->lock, and a CPU executes no thread but that process's.
OwnCPU ==
  /\ \A c \in CPUS : on[c] \in {NULL, cproc[c]}
  /\ \A c, d \in CPUS : cproc[c] # NULL /\ cproc[c] = cproc[d] => c = d

\* A CPU holds p->lock exactly while p's thread is switched in or out.
OwnLock ==
  \A c \in CPUS, p \in Slots :
    plock[p] = c <=>
      cproc[c] = p /\ (on[c] = NULL \/ pc[p] \in HoldsOwn)

\* A CPU holds wait_lock exactly inside exit() and wait().
WaitLock ==
  \A c \in CPUS :
    wait_lock = c <=> \E p \in Slots : on[c] = p /\ pc[p] \in HoldsWait

\* p->state while a CPU executes p's thread.
OnState ==
  \A c \in CPUS, p \in Slots :
    on[c] = p =>
      /\ pc[p] = "sched" => state[p] \in {RUNNABLE, SLEEPING, ZOMBIE}
      /\ pc[p] # "sched" => state[p] = RUNNING
      /\ pc[p] \notin {"none", "zombie"}

\* p->state and the saved context while no CPU executes p's thread.
OffState ==
  \A p \in Slots :
    (\A c \in CPUS : on[c] # p) =>
      \/ state[p] = UNUSED /\ pc[p] = "none"
      \/ state[p] = USED /\ pc[p] = "forkret"
      \/ /\ state[p] = RUNNABLE
         /\ pc[p] \in {"forkret", "yield_ret", "sleep_ret"}
      \/ state[p] = SLEEPING /\ pc[p] = "sleep_ret"
      \/ state[p] = ZOMBIE /\ pc[p] = "zombie"

\* c->proc is never a free or half-made process.
ProcState ==
  \A c \in CPUS, p \in Slots :
    cproc[c] = p => state[p] \notin {UNUSED, USED}

\* Where a preempted thread goes on.
RetInv ==
  \A p \in Slots :
    /\ ret[p] # "none" =>
         /\ ret[p] \in Preemptible
         /\ pc[p] \in {"sched", "yield_ret"}
    /\ pc[p] = "yield_ret" => ret[p] # "none"
    /\ pc[p] = "sched" /\ ret[p] = "none" => state[p] \in {SLEEPING, ZOMBIE}
    /\ pc[p] = "sched" /\ ret[p] # "none" => state[p] = RUNNABLE

\* The slot that a fork() is filling in is nobody else's.
ForkInv ==
  /\ \A p \in Slots :
       /\ Forking(p) => np[p] \in Slots /\ state[np[p]] = USED
       /\ ~Forking(p) => np[p] = NULL
  /\ \A p, q \in Slots : np[p] # NULL /\ np[p] = np[q] => p = q

\* Which CPU executes which thread, which locks it holds, and what p->state
\* says about it.
ThreadInv ==
  /\ OwnCPU /\ OwnLock /\ WaitLock
  /\ OnState /\ OffState /\ ProcState /\ RetInv
  /\ ForkInv

\* p sleeps in wait(), or is about to with wait_lock already released.
Asleep(p) == state[p] = SLEEPING \/ pc[p] = "sleep_set"

\* init never exits.
InitLives ==
  /\ state[initproc] \in {SLEEPING, RUNNABLE, RUNNING}
  /\ pc[initproc] \notin
       {"reparent", "wake_init", "wake_parent", "exit_zombie"}

\* A parent is alive ...
ParentLives ==
  \A p \in Slots :
    parent[p] \in Slots => state[parent[p]] \in {SLEEPING, RUNNABLE, RUNNING}

\* ... and everybody but init has one, from fork() on.
HasParent ==
  /\ \A p \in Slots \ {initproc} :
       state[p] \notin {UNUSED, USED} => parent[p] \in Slots
  /\ \A p \in Slots :
       pc[p] = "fork_run" \/ ret[p] = "fork_run" => parent[np[p]] \in Slots

\* After reparent() the exiting process has no children.
NoKidsLeft ==
  \A p, q \in Slots :
    pc[p] \in {"wake_parent", "exit_zombie"} => parent[q] # p

\* The only channel of the model is the one of wait().
SleepChan ==
  \A p \in Slots : state[p] = SLEEPING => chan[p] = p

\* A parent of a zombie is awake, or it is init and reparent() is just about
\* to wake it.
ZombieHeard ==
  \A p, q \in Slots :
    parent[q] = p /\ state[q] = ZOMBIE /\ Asleep(p) =>
      p = initproc /\ \E r \in Slots : pc[r] = "wake_init" /\ idx[r] = 0

\* exit() has woken the parent once its wakeup() has passed the parent's slot.
ExitWoke ==
  \A p, q \in Slots :
    parent[p] = q =>
      /\ pc[p] = "wake_parent" /\ idx[p] > q => ~Asleep(q)
      /\ pc[p] = "exit_zombie" => ~Asleep(q)

\* A scan of the process table starts at its first slot.
ScanStart ==
  \A p \in Slots :
    \/ pc[p] \in {"allocproc", "kill", "wake_init", "wake_parent", "wait_scan"}
    \/ ret[p] \in {"allocproc", "kill"}
    \/ idx[p] = 0

\* wait() has seen no zombie child in the slots that it has passed.
ScanClean ==
  \A p, q \in Slots :
    parent[q] = p =>
      /\ pc[p] = "wait_scan" /\ q < idx[p] => state[q] # ZOMBIE
      /\ pc[p] = "sleep" => state[q] # ZOMBIE

\* The family tree while it changes under wait_lock: who can be a parent,
\* and why no parent sleeps through the exit of a child.
FamilyInv ==
  /\ InitLives /\ ParentLives /\ HasParent /\ NoKidsLeft
  /\ SleepChan /\ ZombieHeard /\ ExitWoke /\ ScanStart /\ ScanClean
=============================================================================
