SPECIFICATION Spec
CONSTANTS
  Readers = {r1}
  Writers = {w1, w2}
  Bytes = {0}
  NoByte = NoByte
  NULL = NULL
  PIPESIZE = 2
  UINT = 4
  MaxN = 3
  Victims = {w1}
INVARIANTS
  ReaderAwake
CHECK_DEADLOCK FALSE
