SPECIFICATION FairSpec
CONSTANTS
  Procs = {p1, p2, p3}
  NUM = 7
  U16 = 7
  NULL = NULL
INVARIANTS
  TypeOK
  DescAccounted
  TransferDone
  HandlerKnows
  NoLostInterrupt
  NoLostDesc
PROPERTY RequestReturns
