SPECIFICATION Spec
CONSTANTS
  NPROC = 3
  CPUS = {c1, c2}
  NULL = NULL
  MaxPid = 3
  KillPids = {1, 2}
INVARIANTS
  TypeOK
  OneCPUPerThread
  ReapedAfterSwtch
  SchedAsserts
  NoSleepThroughExit
  LiveParent
  
  ThreadInv
  FamilyInv
SYMMETRY CPUSymmetry
