------------------------------- MODULE Virtio -------------------------------
(***************************************************************************)
(* The disk driver of kernel/virtio_disk.c: descriptors, the avail and the *)
(* used ring, virtio_disk_rw() and virtio_disk_intr(), beside a device     *)
(* that takes requests in order, finishes them in any order and raises an  *)
(* interrupt some time after it has extended the used ring.                *)
(*                                                                         *)
(* A process has one buffer, which it holds locked; the buffer is named by *)
(* the process.  disk.vdisk_lock is a variable because the device runs     *)
(* beside whoever holds it.  The indices of the rings are 16 bits wide; an  *)
(* entry of a ring is forgotten when it has been read.                     *)
(***************************************************************************)
EXTENDS Integers, FiniteSets, FiniteSetsExt

CONSTANTS
  Procs,  \* processes, and the buffers they read or write
  NUM,    \* the number of descriptors and of entries of a ring
  U16,    \* the number of values of a uint16
  NULL

ASSUME SizeAssumption ==
  NUM \in Nat /\ NUM >= 3 /\ U16 \in Nat /\ U16 >= NUM /\ U16 % NUM = 0
ASSUME ProcAssumption == NULL \notin Procs \cup {"intr"} /\ "intr" \notin Procs

Desc == 0..(NUM - 1)

VARIABLES
  \* the driver
  lock,       \* disk.vdisk_lock: a process, "intr" or NULL
  free,       \* the descriptors i with disk.free[i]
  next,       \* desc[i].next, NULL without VRING_DESC_F_NEXT
  addr,       \* the buffer that desc[i].addr points to, if it is a data block
  info,       \* disk.info[i].b
  status,     \* disk.info[i].status
  avail,      \* avail->ring
  avail_idx,  \* avail->idx
  used_idx,   \* disk.used_idx: how far the driver has looked
  busy,       \* the buffers b with b->disk = 1
  pc,         \* where each process is, and the interrupt handler
  head,       \* idx[0] of each process
  \* the device
  seen,       \* how far it has read the avail ring
  inflight,   \* the chains it works on
  used,       \* used->ring
  uidx,       \* used->idx
  notify,     \* it has extended the used ring and will raise an interrupt
  irq,        \* the interrupt is pending
  transfers   \* how often each buffer's present request was carried out

ringVars == <<avail, avail_idx>>
descVars == <<free, next, addr, info, status>>
devVars == <<seen, inflight, used, uidx, notify, irq, transfers>>
vars == <<lock, descVars, ringVars, used_idx, busy, pc, head, devVars>>

\* virtio_disk_init()
Init ==
  /\ lock = NULL
  /\ free = Desc
  /\ next = [i \in Desc |-> NULL]
  /\ addr = [i \in Desc |-> NULL]
  /\ info = [i \in Desc |-> NULL]
  /\ status = [i \in Desc |-> 0]
  /\ avail = [k \in Desc |-> NULL]
  /\ avail_idx = 0
  /\ used_idx = 0
  /\ busy = {}
  /\ pc = [p \in Procs \cup {"intr"} |-> "idle"]
  /\ head = [p \in Procs |-> NULL]
  /\ seen = 0
  /\ inflight = {}
  /\ used = [k \in Desc |-> NULL]
  /\ uidx = 0
  /\ notify = FALSE
  /\ irq = FALSE
  /\ transfers = [p \in Procs |-> 0]

Goto(p, l) == pc' = [pc EXCEPT ![p] = l]

\* p goes to label l, and those that sleep at label s try again.
WakeupAnd(p, l, s) ==
  pc' = [q \in DOMAIN pc |->
           IF q = p THEN l
           ELSE IF pc[q] = s THEN "alloc" ELSE pc[q]]

-----------------------------------------------------------------------------
(* virtio_disk_rw()                                                        *)

\* bread() or bwrite() of a locked buffer.
call(p) ==
  /\ pc[p] = "idle"
  /\ Goto(p, "alloc")
  /\ UNCHANGED <<lock, descVars, ringVars, used_idx, busy, head, devVars>>

\* alloc3_desc() fails: what it got goes back through free_desc(), which wakes
\* everybody that waits for a descriptor, and p sleeps.
alloc3_desc_fail(p) ==
  /\ pc[p] = "alloc" /\ lock = NULL
  /\ Cardinality(free) < 3
  /\ IF free = {} THEN Goto(p, "wait_desc")
     ELSE WakeupAnd(p, "wait_desc", "wait_desc")
  /\ UNCHANGED <<lock, descVars, ringVars, used_idx, busy, head, devVars>>

\* Fault: disk.info[].b is not recorded.
virtio_disk_rwInfo(p) ==
  /\ pc[p] = "alloc" /\ lock = NULL
  /\ Cardinality(free) >= 3
  /\ LET i0 == Min(free)
         i1 == Min(free \ {i0})
         i2 == Min(free \ {i0, i1})
     IN  /\ free' = free \ {i0, i1, i2}
         /\ next' = [next EXCEPT ![i0] = i1, ![i1] = i2, ![i2] = NULL]
         /\ addr' = [addr EXCEPT ![i1] = p]
         /\ status' = [status EXCEPT ![i0] = 255]
         /\ avail' = [avail EXCEPT ![avail_idx % NUM] = i0]
         /\ head' = [head EXCEPT ![p] = i0]
  /\ busy' = busy \cup {p}
  /\ lock' = p
  /\ Goto(p, "notify")
  /\ UNCHANGED <<info, avail_idx, used_idx, devVars>>

\* alloc3_desc() takes the first three free descriptors; they are formatted
\* and the head goes into the avail ring.
virtio_disk_rw(p) ==
  /\ pc[p] = "alloc" /\ lock = NULL
  /\ Cardinality(free) >= 3
  /\ LET i0 == Min(free)
         i1 == Min(free \ {i0})
         i2 == Min(free \ {i0, i1})
     IN  /\ free' = free \ {i0, i1, i2}
         /\ next' = [next EXCEPT ![i0] = i1, ![i1] = i2, ![i2] = NULL]
         /\ addr' = [addr EXCEPT ![i1] = p]
         /\ status' = [status EXCEPT ![i0] = 255]
         /\ info' = [info EXCEPT ![i0] = p]
         /\ avail' = [avail EXCEPT ![avail_idx % NUM] = i0]
         /\ head' = [head EXCEPT ![p] = i0]
  /\ busy' = busy \cup {p}
  /\ lock' = p
  /\ Goto(p, "notify")
  /\ UNCHANGED <<avail_idx, used_idx, devVars>>

\* Fault: avail->idx is wider than 16 bits.
notify_deviceWide(p) ==
  /\ pc[p] = "notify"
  /\ avail_idx' = avail_idx + 1
  /\ Goto(p, "wait_disk")
  /\ UNCHANGED <<lock, descVars, avail, used_idx, busy, head, devVars>>

\* avail->idx += 1: the device may see the request from now on.
notify_device(p) ==
  /\ pc[p] = "notify"
  /\ avail_idx' = (avail_idx + 1) % U16
  /\ Goto(p, "wait_disk")
  /\ UNCHANGED <<lock, descVars, avail, used_idx, busy, head, devVars>>

\* while(b->disk == 1) sleep(b, &disk.vdisk_lock)
sleep(p) ==
  /\ \/ pc[p] = "wait_disk" /\ lock = p
     \/ pc[p] = "woken" /\ lock = NULL
  /\ p \in busy
  /\ lock' = NULL
  /\ Goto(p, "asleep")
  /\ UNCHANGED <<descVars, ringVars, used_idx, busy, head, devVars>>

\* The descriptors of the chain that starts at i.
Chain(i) ==
  LET j == next[i] IN
  IF j = NULL THEN {i}
  ELSE IF next[j] = NULL THEN {i, j} ELSE {i, j, next[j]}

\* Fault: only the head of the chain is freed.
free_chainHead(p) ==
  /\ pc[p] = "woken" /\ lock = NULL /\ p \notin busy
  /\ LET i == head[p] IN
     /\ free' = free \cup {i}
     /\ info' = [info EXCEPT ![i] = NULL]
     /\ next' = [next EXCEPT ![i] = NULL]
     /\ addr' = [addr EXCEPT ![i] = NULL]
  /\ head' = [head EXCEPT ![p] = NULL]
  /\ transfers' = [transfers EXCEPT ![p] = 0]
  /\ WakeupAnd(p, "idle", "wait_desc")
  /\ UNCHANGED <<lock, status, ringVars, used_idx, busy, seen, inflight, used,
                 uidx, notify, irq>>

\* Fault: after sleep() b->disk is not looked at again.
free_chainOnce(p) ==
  /\ pc[p] = "woken" /\ lock = NULL
  /\ LET c == Chain(head[p]) IN
     /\ free' = free \cup c
     /\ next' = [i \in Desc |-> IF i \in c THEN NULL ELSE next[i]]
     /\ addr' = [i \in Desc |-> IF i \in c THEN NULL ELSE addr[i]]
     /\ info' = [info EXCEPT ![head[p]] = NULL]
  /\ head' = [head EXCEPT ![p] = NULL]
  /\ transfers' = [transfers EXCEPT ![p] = 0]
  /\ WakeupAnd(p, "idle", "wait_desc")
  /\ UNCHANGED <<lock, status, ringVars, used_idx, busy, seen, inflight, used,
                 uidx, notify, irq>>

\* Fault: free_desc() does not wake those that wait for descriptors.
free_chainSilent(p) ==
  /\ pc[p] = "woken" /\ lock = NULL /\ p \notin busy
  /\ LET c == Chain(head[p]) IN
     /\ free' = free \cup c
     /\ next' = [i \in Desc |-> IF i \in c THEN NULL ELSE next[i]]
     /\ addr' = [i \in Desc |-> IF i \in c THEN NULL ELSE addr[i]]
     /\ info' = [info EXCEPT ![head[p]] = NULL]
  /\ head' = [head EXCEPT ![p] = NULL]
  /\ transfers' = [transfers EXCEPT ![p] = 0]
  /\ Goto(p, "idle")
  /\ UNCHANGED <<lock, status, ringVars, used_idx, busy, seen, inflight, used,
                 uidx, notify, irq>>

\* The request is done: free_chain() gives the descriptors back and wakes the
\* processes that wait for some.
free_chain(p) ==
  /\ pc[p] = "woken" /\ lock = NULL /\ p \notin busy
  /\ LET c == Chain(head[p]) IN
     /\ free' = free \cup c
     /\ next' = [i \in Desc |-> IF i \in c THEN NULL ELSE next[i]]
     /\ addr' = [i \in Desc |-> IF i \in c THEN NULL ELSE addr[i]]
     /\ info' = [info EXCEPT ![head[p]] = NULL]
  /\ head' = [head EXCEPT ![p] = NULL]
  /\ transfers' = [transfers EXCEPT ![p] = 0]
  /\ WakeupAnd(p, "idle", "wait_desc")
  /\ UNCHANGED <<lock, status, ringVars, used_idx, busy, seen, inflight, used,
                 uidx, notify, irq>>

-----------------------------------------------------------------------------
(* virtio_disk_intr()                                                      *)

\* The interrupt is acknowledged before the handler looks at the used ring.
intr_ack ==
  /\ pc["intr"] = "idle" /\ irq /\ lock = NULL
  /\ lock' = "intr"
  /\ irq' = FALSE
  /\ Goto("intr", "loop")
  /\ UNCHANGED <<descVars, ringVars, used_idx, busy, head, seen, inflight, used,
                 uidx, notify, transfers>>

\* One entry of the used ring: b->disk = 0; wakeup(b).
intr_entry ==
  /\ pc["intr"] = "loop" /\ used_idx # uidx
  /\ LET id == used[used_idx % NUM]
         b == info[id]
     IN  IF status[id] # 0
         THEN Goto("intr", "panic") /\ UNCHANGED <<busy, used, used_idx>>
         ELSE /\ busy' = busy \ {b}
              /\ used' = [used EXCEPT ![used_idx % NUM] = NULL]
              /\ pc' = IF b # NULL /\ pc[b] = "asleep"
                       THEN [pc EXCEPT ![b] = "woken"] ELSE pc
              /\ used_idx' = (used_idx + 1) % U16
  /\ UNCHANGED <<lock, descVars, ringVars, head, seen, inflight, uidx, notify,
                 irq, transfers>>

\* Fault: the handler looks at one entry per interrupt.
intr_endOne ==
  /\ pc["intr"] = "loop"
  /\ lock' = NULL
  /\ Goto("intr", "idle")
  /\ UNCHANGED <<descVars, ringVars, used_idx, busy, head, devVars>>

intr_end ==
  /\ pc["intr"] = "loop" /\ used_idx = uidx
  /\ lock' = NULL
  /\ Goto("intr", "idle")
  /\ UNCHANGED <<descVars, ringVars, used_idx, busy, head, devVars>>

virtio_disk_intr == intr_ack \/ intr_entry \/ intr_end

-----------------------------------------------------------------------------
(* The device                                                              *)

\* It takes the next request from the avail ring.
dev_take ==
  /\ seen # avail_idx
  /\ seen' = (seen + 1) % U16
  /\ inflight' = inflight \cup {avail[seen % NUM]}
  /\ avail' = [avail EXCEPT ![seen % NUM] = NULL]
  /\ UNCHANGED <<lock, descVars, avail_idx, used_idx, busy, pc, head, used, uidx,
                 notify, irq, transfers>>

\* It carries out a chain: transfers the data, writes the status, puts the
\* head into the used ring and extends it.
dev_done(i) ==
  /\ i \in inflight
  /\ inflight' = inflight \ {i}
  /\ LET b == addr[next[i]] IN
     transfers' = [transfers EXCEPT ![b] = @ + 1]
  /\ status' = [status EXCEPT ![i] = 0]
  /\ used' = [used EXCEPT ![uidx % NUM] = i]
  /\ uidx' = (uidx + 1) % U16
  /\ notify' = TRUE
  /\ UNCHANGED <<lock, free, next, addr, info, ringVars, used_idx, busy, pc,
                 head, seen, irq>>

dev_irq ==
  /\ notify
  /\ notify' = FALSE
  /\ irq' = TRUE
  /\ UNCHANGED <<lock, descVars, ringVars, used_idx, busy, pc, head, seen,
                 inflight, used, uidx, transfers>>

Device == dev_take \/ (\E i \in Desc : dev_done(i)) \/ dev_irq

\* kill(p) makes a process that sleeps in virtio_disk_rw() RUNNABLE.
kill(p) ==
  /\ \/ pc[p] = "asleep" /\ Goto(p, "woken")
     \/ pc[p] = "wait_desc" /\ Goto(p, "alloc")
  /\ UNCHANGED <<lock, descVars, ringVars, used_idx, busy, head, devVars>>

Step(p) ==
  \/ alloc3_desc_fail(p) \/ virtio_disk_rw(p)
  \/ notify_device(p) \/ sleep(p) \/ free_chain(p)

Next ==
  \/ \E p \in Procs : call(p) \/ Step(p) \/ kill(p)
  \/ virtio_disk_intr
  \/ Device

Spec == Init /\ [][Next]_vars

\* The device serves every request and interrupts, interrupts are taken, and a
\* process goes on; acquire() gets a lock that is free again and again.
Fairness ==
  /\ WF_vars(dev_take) /\ WF_vars(dev_irq)
  /\ \A i \in Desc : WF_vars(dev_done(i))
  /\ SF_vars(intr_ack) /\ WF_vars(virtio_disk_intr)
  /\ \A p \in Procs : WF_vars(Step(p)) /\ SF_vars(free_chain(p))

FairSpec == Spec /\ Fairness

-----------------------------------------------------------------------------
(* Properties                                                              *)

\* Descriptors, rings and indices stay in their ranges.
TypeOK ==
  /\ lock \in Procs \cup {"intr", NULL}
  /\ free \subseteq Desc
  /\ next \in [Desc -> Desc \cup {NULL}]
  /\ addr \in [Desc -> Procs \cup {NULL}]
  /\ info \in [Desc -> Procs \cup {NULL}]
  /\ status \in [Desc -> {0, 255}]
  /\ avail \in [Desc -> Desc \cup {NULL}] /\ used \in [Desc -> Desc \cup {NULL}]
  /\ {avail_idx, used_idx, uidx, seen} \subseteq 0..(U16 - 1)
  /\ busy \subseteq Procs
  /\ pc["intr"] \in {"idle", "loop", "panic"}
  /\ \A p \in Procs :
       pc[p] \in {"idle", "alloc", "wait_desc", "notify", "wait_disk", "asleep",
                  "woken"}
  /\ head \in [Procs -> Desc \cup {NULL}]
  /\ inflight \subseteq Desc
  /\ notify \in BOOLEAN /\ irq \in BOOLEAN
  /\ transfers \in [Procs -> Nat]

Requests == {p \in Procs : head[p] # NULL}

\* Every descriptor is free or in the chain of exactly one request: none leaks,
\* none is shared, and free_desc() never meets one that is free already.
DescAccounted ==
  /\ free = Desc \ UNION {Chain(head[p]) : p \in Requests}
  /\ Cardinality(free) = NUM - 3 * Cardinality(Requests)

\* virtio_disk_rw() returns when the device has carried out the request once
\* and does not work on it any more, even if kill() wakes the process early.
TransferDone ==
  \A p \in Procs :
    /\ transfers[p] <= 1
    /\ p \in busy => head[p] # NULL
    /\ pc[p] \in {"asleep", "woken"} /\ p \notin busy =>
         transfers[p] = 1 /\ head[p] \notin inflight

\* The handler never sees a failed status or an entry that is nobody's.
HandlerKnows ==
  /\ pc["intr"] # "panic"
  /\ used_idx # uidx => info[used[used_idx % NUM]] # NULL

\* An entry of the used ring that the driver has not seen is announced: the
\* interrupt is pending or coming, or the handler has not finished its loop.
NoLostInterrupt == used_idx # uidx => notify \/ irq \/ pc["intr"] = "loop"

\* Nobody waits for descriptors while there are three.
NoLostDesc ==
  (\E p \in Procs : pc[p] = "wait_desc") => Cardinality(free) < 3

\* A request that the device has been told of completes.
RequestReturns == \A p \in Procs : pc[p] = "asleep" ~> pc[p] = "idle"
=============================================================================
