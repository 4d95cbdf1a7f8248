------------------------------ MODULE Lottery ------------------------------
(***************************************************************************)
(* The lottery of kernel/proc.c (built with LAB2 = LOTTERY): the tickets   *)
(* of the processes, the winning ranges that calculate_procs_ticket()      *)
(* derives from them, and the draw at the top of scheduler().              *)
(*                                                                         *)
(* The ranges and total_tickets change only under tickets_lock, and the    *)
(* draw holds it too; but allocproc() and freeproc() change p->state and   *)
(* p->tickets under p->lock alone, one after the other, so those writes    *)
(* are steps of their own.                                                 *)
(***************************************************************************)
EXTENDS Integers

CONSTANTS
  NPROC,        \* size of the process table
  CPUS,         \* the set of CPUs
  NULL,         \* the null pointer
  DefaultTickets,  \* what allocproc() gives a new process
  TicketArgs,   \* the arguments user programs pass to tickets()
  MaxRandom     \* the largest value of rand_int()

Slots == 0..(NPROC - 1)
initproc == 0

ASSUME NPROCAssumption == NPROC \in Nat \ {0}
ASSUME NULLAssumption == NULL \notin Int
ASSUME TicketAssumption ==
  DefaultTickets \in Nat \ {0} /\ TicketArgs \subseteq Nat /\ MaxRandom \in Nat

VARIABLES
  state,          \* "UNUSED", "USED", or "live" for every later state
  busy,           \* per CPU: the slot it is inside allocproc() or freeproc() of
  tickets,        \* p->tickets
  rbegin,         \* p->tickets_winning_range_beginning
  rend,           \* p->tickets_winning_range_end
  total_tickets,
  winner_ticket,  \* per CPU: the last draw, 0 before the first
  p,              \* per CPU: the local variable p of scheduler()
  cproc           \* per CPU: c->proc, the process it runs

vars ==
  <<state, busy, tickets, rbegin, rend, total_tickets, winner_ticket, p,
    cproc>>

Init ==
  /\ state = [i \in Slots |-> IF i = initproc THEN "live" ELSE "UNUSED"]
  /\ busy = [c \in CPUS |-> NULL]
  /\ tickets = [i \in Slots |-> IF i = initproc THEN DefaultTickets ELSE 0]
  /\ rbegin = [i \in Slots |-> IF i = initproc THEN 1 ELSE 0]
  /\ rend = [i \in Slots |-> IF i = initproc THEN DefaultTickets ELSE 0]
  /\ total_tickets = DefaultTickets
  /\ winner_ticket = [c \in CPUS |-> 0]
  /\ p = [c \in CPUS |-> NULL]
  /\ cproc = [c \in CPUS |-> NULL]

-----------------------------------------------------------------------------

\* The slots that take part, given the tickets t.
Plays(t, i) == state[i] # "UNUSED" /\ t[i] # 0

\* The running total of calculate_procs_ticket() before slot i.
Before(t) ==
  LET sum[i \in 0..NPROC] ==
        IF i = 0 THEN 0
        ELSE sum[i - 1] + (IF Plays(t, i - 1) THEN t[i - 1] ELSE 0)
  IN sum

\* Fault: the range of a slot starts at the last ticket of the one before.
calculateOverlap(t) ==
  LET before == Before(t) IN
  /\ rbegin' = [i \in Slots |-> IF Plays(t, i) THEN before[i] ELSE rbegin[i]]
  /\ rend' = [i \in Slots |-> IF Plays(t, i) THEN before[i] + t[i] ELSE rend[i]]
  /\ total_tickets' = before[NPROC]

\* calculate_procs_ticket(): slots that do not play keep their old range.
calculate_procs_ticket(t) ==
  LET before == Before(t) IN
  /\ rbegin' = [i \in Slots |-> IF Plays(t, i) THEN before[i] + 1 ELSE rbegin[i]]
  /\ rend' = [i \in Slots |-> IF Plays(t, i) THEN before[i] + t[i] ELSE rend[i]]
  /\ total_tickets' = before[NPROC]

\* Fault: set_proc_tickets() leaves the ranges alone.
set_proc_ticketsOnly(i, n) ==
  /\ tickets' = [tickets EXCEPT ![i] = n]
  /\ UNCHANGED <<rbegin, rend, total_tickets>>

\* set_proc_tickets(), under tickets_lock.
set_proc_tickets(i, n) ==
  /\ tickets' = [tickets EXCEPT ![i] = n]
  /\ calculate_procs_ticket(tickets')

Running(i) == \E c \in CPUS : cproc[c] = i

\* CPU c runs a process that may enter allocproc() or freeproc() of slot i.
Enter(c, i) ==
  /\ cproc[c] # NULL /\ busy[c] = NULL
  /\ \A d \in CPUS : busy[d] # i
  /\ busy' = [busy EXCEPT ![c] = i]

Leave(c) == busy' = [busy EXCEPT ![c] = NULL]

\* allocproc(): p->state = USED, with tickets still 0 ...
allocproc_used(c, i) ==
  /\ Enter(c, i)
  /\ state[i] = "UNUSED"
  /\ state' = [state EXCEPT ![i] = "USED"]
  /\ UNCHANGED <<tickets, rbegin, rend, total_tickets, winner_ticket, p, cproc>>

\* ... then set_proc_tickets(p, 10).
allocproc_tickets(c, i) ==
  /\ busy[c] = i /\ state[i] = "USED"
  /\ set_proc_tickets(i, DefaultTickets)
  /\ state' = [state EXCEPT ![i] = "live"]
  /\ Leave(c)
  /\ UNCHANGED <<winner_ticket, p, cproc>>

\* sys_tickets(n) of process i.
sys_tickets(c, i, n) ==
  /\ cproc[c] = i /\ busy[c] = NULL
  /\ set_proc_tickets(i, n)
  /\ UNCHANGED <<state, busy, winner_ticket, p, cproc>>

\* freeproc() of a reaped or half-made process: p->state = UNUSED ...
freeproc_state(c, i) ==
  /\ Enter(c, i)
  /\ i # initproc /\ ~Running(i)
  /\ state[i] = "live"
  /\ state' = [state EXCEPT ![i] = "UNUSED"]
  /\ UNCHANGED <<tickets, rbegin, rend, total_tickets, winner_ticket, p, cproc>>

\* ... then p->tickets = 0; the ranges and total_tickets stay as they are.
freeproc_tickets(c, i) ==
  /\ busy[c] = i /\ state[i] = "UNUSED"
  /\ tickets' = [tickets EXCEPT ![i] = 0]
  /\ Leave(c)
  /\ UNCHANGED <<state, rbegin, rend, total_tickets, winner_ticket, p, cproc>>

\* random % total_tickets + 1; the remainder by zero is the dividend on RISC-V.
Draw(random) ==
  IF total_tickets = 0 THEN random + 1 ELSE (random % total_tickets) + 1

\* The slots whose range holds ticket w.
Winners(w) ==
  {i \in Slots : Plays(tickets, i) /\ rbegin[i] <= w /\ w <= rend[i]}

\* Fault: p itself is the loop variable: it points behind the table when no
\* range holds the ticket.
scheduler_drawEnd(c) ==
  /\ winner_ticket[c] = 0
  /\ \E random \in 0..MaxRandom :
       LET w == Draw(random) IN
       /\ winner_ticket' = [winner_ticket EXCEPT ![c] = w]
       /\ \/ Winners(w) = {} /\ p' = [p EXCEPT ![c] = NPROC]
          \/ \E i \in Winners(w) :
               /\ \A j \in Winners(w) : i <= j
               /\ p' = [p EXCEPT ![c] = i]
  /\ UNCHANGED <<state, busy, tickets, rbegin, rend, total_tickets, cproc>>

\* scheduler() draws a ticket under tickets_lock: the first slot whose range
\* holds it becomes p; when there is none p keeps its value.
scheduler_draw(c) ==
  /\ winner_ticket[c] = 0
  /\ \E random \in 0..MaxRandom :
       LET w == Draw(random) IN
       /\ winner_ticket' = [winner_ticket EXCEPT ![c] = w]
       /\ \/ Winners(w) = {} /\ UNCHANGED p
          \/ \E i \in Winners(w) :
               /\ \A j \in Winners(w) : i <= j
               /\ p' = [p EXCEPT ![c] = i]
  /\ UNCHANGED <<state, busy, tickets, rbegin, rend, total_tickets, cproc>>

\* acquire(&p->lock), and p runs if it is RUNNABLE: not free, nor half-made,
\* nor running elsewhere. Whether it sleeps is left open.
scheduler_run(c) ==
  /\ winner_ticket[c] # 0 /\ cproc[c] = NULL /\ p[c] # NULL
  /\ state[p[c]] = "live" /\ ~Running(p[c])
  /\ cproc' = [cproc EXCEPT ![c] = p[c]]
  /\ UNCHANGED <<state, busy, tickets, rbegin, rend, total_tickets, winner_ticket, p>>

\* p gives the CPU back, or was not RUNNABLE: the next turn of the loop.
scheduler_loop(c) ==
  /\ winner_ticket[c] # 0 /\ p[c] # NULL /\ busy[c] = NULL
  /\ cproc' = [cproc EXCEPT ![c] = NULL]
  /\ winner_ticket' = [winner_ticket EXCEPT ![c] = 0]
  /\ UNCHANGED <<state, busy, tickets, rbegin, rend, total_tickets, p>>

Next ==
  \E c \in CPUS :
    \/ \E i \in Slots :
         \/ allocproc_used(c, i) \/ allocproc_tickets(c, i)
         \/ freeproc_state(c, i) \/ freeproc_tickets(c, i)
         \/ \E n \in TicketArgs : sys_tickets(c, i, n)
    \/ scheduler_draw(c) \/ scheduler_run(c) \/ scheduler_loop(c)

Spec == Init /\ [][Next]_vars

-----------------------------------------------------------------------------
(* Properties                                                              *)

\* The tickets, the ranges and the total are natural numbers and p a slot.
TypeOK ==
  /\ state \in [Slots -> {"UNUSED", "USED", "live"}]
  /\ busy \in [CPUS -> Slots \cup {NULL}]
  /\ tickets \in [Slots -> Nat]
  /\ rbegin \in [Slots -> Nat]
  /\ rend \in [Slots -> Nat]
  /\ total_tickets \in Nat
  /\ winner_ticket \in [CPUS -> Nat]
  /\ p \in [CPUS -> Slots \cup {NULL}]
  /\ cproc \in [CPUS -> Slots \cup {NULL}]

\* A live process wins exactly as many of the tickets 1..total_tickets as it
\* holds, through every interleaving of fork(), exit() and tickets().
ProportionalShare ==
  \A i \in Slots :
    state[i] = "live" /\ tickets[i] > 0 =>
      /\ 1 <= rbegin[i] /\ rend[i] <= total_tickets
      /\ rend[i] - rbegin[i] + 1 = tickets[i]

\* No ticket wins for two processes.
OneWinner ==
  \A i, j \in Slots :
    Plays(tickets, i) /\ Plays(tickets, j) /\ i < j => rend[i] < rbegin[j]

\* scheduler() never goes on to acquire(&p->lock) with a null p.
PickedSomebody == \A c \in CPUS : winner_ticket[c] # 0 => p[c] # NULL

=============================================================================
