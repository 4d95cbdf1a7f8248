SPECIFICATION Spec
CONSTANTS
  Procs = {p1, p2}
  b1 = b1
  b2 = b2
  b3 = b3
  b4 = b4
  v0 = v0
  v1 = v1
  Blocks <- MCBlocks3
  Values = {v0, v1}
  NULL = NULL
  InitDisk <- MCInitDisk
  LOGSIZE = 7
  MAXOPBLOCKS = 3
  nlog = 4
  OpBlocks = 2
INVARIANTS
  TypeOK
  QuietIsDurable
  CommitAlone
  LogInv
PROPERTY AtomicCommit
SYMMETRY Symmetry
