SPECIFICATION Spec
CONSTANTS
  MAX_CLUSTER = 7
  ROOT_ENTRIES = 4
  SLOTS = 3
  ShortNames = {"home", "etc", "rc"}
  LongNames = {}
  LFN_SLOTS = 1
  Data = {1}
  SeedDirs <- MCSeedDirs
  SeedFiles <- MCSeedFiles
  SeedData <- MCSeedData
  MaxFaults = 1
INVARIANTS
  NoHalfSeed
