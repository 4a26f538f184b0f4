SPECIFICATION FairSpec
CONSTANTS
  NSIG = 5
  SIGINT = 1
  SIGKILL = 2
  SIGALRM = 3
  SIGWINCH = 4
  Offered <- MCOffered
  Masks <- MCMasks
  MaxDepth = 2
CHECK_DEADLOCK FALSE
INVARIANTS
  TypeOK
  KillUncatchable
  ReturnsToInterrupted
  NoSleepOverSignal
PROPERTIES
  SignalHandled
