SPECIFICATION Spec
CONSTANTS
  NPROC = 3
  CPUS = {c1, c2}
  NULL = NULL
  DefaultTickets = 1
  TicketArgs = {2}
  MaxRandom = 5
INVARIANT PickedSomebody
