SPECIFICATION FairSpec
CONSTANTS
  NPROC = 2
  CPUS = {c1, c2}
  NULL = NULL
  MaxPid = 3
  KillPids = {2}
PROPERTY WaitReturns
