SPECIFICATION FairSpec
CONSTANTS
  MAX_PROCS = 4
  PID_SPAN = 2
  MaxPid = 3
INVARIANTS
  TypeOK
  NoCorpseUnderSleeper
  CpuHolderRunnable
  PidsDistinct
PROPERTIES
  FreedByParent
  WaiterReturns
  RunnableRuns
