SPECIFICATION FairSpec
CONSTANTS
  Readers = {r1}
  Writers = {w1, w2}
  Bytes = {0, 1}
  NoByte = NoByte
  NULL = NULL
  PIPESIZE = 2
  UINT = 4
  MaxN = 3
  Victims = {r1}
INVARIANTS
  TypeOK
  ReaderAwake
  WriterAwake
  FreedOnce
PROPERTIES
  IsQueue
  
CHECK_DEADLOCK FALSE
