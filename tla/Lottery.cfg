SPECIFICATION Spec
CONSTANTS
  NPROC = 3
  CPUS = {c1, c2}
  NULL = NULL
  DefaultTickets = 1
  TicketArgs = {0, 2}
  MaxRandom = 5
INVARIANTS
  TypeOK
  ProportionalShare
  OneWinner
SYMMETRY CPUSymmetry
