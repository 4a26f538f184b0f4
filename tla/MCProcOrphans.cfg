SPECIFICATION Spec
CONSTANTS
  MAX_PROCS = 4
  PID_SPAN = 2
  MaxPid = 4
INVARIANT
  OrphansAdopted
