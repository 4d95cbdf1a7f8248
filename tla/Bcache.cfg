SPECIFICATION Spec
CONSTANTS
  Bufs = {a, b}
  Blocks = {b1, b2, b3}
  Procs = {p1, p2, p3}
  v0 = v0
  Values = {v0, v1}
  InitDisk <- MCInitDisk
  NULL = NULL
  NoBlock = NoBlock
  NoValue = NoValue
INVARIANTS
  TypeOK
  OneBuffer
  KeepsBlock
  RefcntCounts
  NoLostWakeup
PROPERTY IsStore
SYMMETRY Symmetry
CHECK_DEADLOCK FALSE
