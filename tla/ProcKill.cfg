SPECIFICATION FairSpec
CONSTANTS
  NPROC = 3
  CPUS = {c1, c2}
  NULL = NULL
  MaxPid = 3
  KillPids = {2}
PROPERTY KilledExits
CONSTRAINT NoKernelPreemption
