SPECIFICATION Spec
CONSTANTS
  root = root
  user = user
  Pids = {root, user}
  Init1 = root
  UidOf <- MCUid
  GidOf <- MCGid
  Uids = {0, 1}
  MAX_N = 7
  MAX_FD = 5
  STDIO = 2
  Frames = 3
  PAGE = 2
  Tree <- MCTree
  Paths <- MCPaths
  KernelPaths <- MCKernelPaths
  Flags <- MCFlags
  Modes <- MCModes
  Counts = {1, 3}
  Limits = {0, 1}
  MaxPos = 5
  Budgets <- MCBudgets
INVARIANTS
  OwnersLive
  PagesAccounted
PROPERTIES
  DisplayGivenBack
  QuotaHeld
  OutgrowsOnlyStarved
CHECK_DEADLOCK FALSE
