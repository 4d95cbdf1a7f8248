SPECIFICATION FairSpec
CONSTANTS
  Procs = {p1, p2, p3}
  b1 = b1
  b2 = b2
  b3 = b3
  b4 = b4
  v0 = v0
  v1 = v1
  Blocks <- MCBlocks4
  Values = {v0}
  NULL = NULL
  InitDisk <- MCInitDisk
  LOGSIZE = 4
  MAXOPBLOCKS = 2
  nlog = 5
  OpBlocks = 1
INVARIANTS
  
  WaiterHasWaker
PROPERTY WaiterWakes
