\* Two processes, one pipe, a two-byte ring: counts, order, wrap-around, end of file.
CONSTANTS
  Pids = {1, 2}
  FirstPid = 1
  MAX_PIPES = 1
  MAX_FD = 2
  FIRST_FD = 0
  MAX_TABLES = 2
  BUF = 2
  Byte = {0, 1}
  MaxIO = 2
SPECIFICATION FairSpec
INVARIANTS TypeOK CountsExact
PROPERTIES Refines EofReachesReader
CHECK_DEADLOCK FALSE
