SPECIFICATION Spec
CONSTANTS
  MAX_CLUSTER = 5
  ROOT_ENTRIES = 4
  SLOTS = 2
  ShortNames = {"a", "d"}
  LongNames = {"Long"}
  LFN_SLOTS = 1
  Data = {1}
  FilePaths <- MCFilePaths
  DirPaths <- MCDirPaths
  Fds = {0, 1}
  MaxLen = 3
  MaxIO = 2
  CHUNK = 2
  MaxFaults = 1
  MaxCalls = 3
  Volumes <- MCVolumes
INVARIANTS
  CalmKeepsSound
  WriteHitStructured
  LeaksOnlyOnFailure
  CachedSizeRight
PROPERTIES
  Refines
  MovePowerSafe
CHECK_DEADLOCK FALSE
