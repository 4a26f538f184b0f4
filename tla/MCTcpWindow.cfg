SPECIFICATION Spec
CONSTANTS
  a = a
  b = b
  NoHost = NoHost
  Stale = Stale
  Hosts = {a, b}
  Servers = {b}
  MAX_SOCKS = 3
  SEND_CAP = 2
  RECV_CAP = 2
  MSS = 1
  MAX_ACCEPT = 2
  SEQ = 256
  ISS_STEP = 16
  PORT = 0
  FIRST_PORT = 1
  MaxOpens = 2
  Budgets <- CalmBudgets
INVARIANT WindowUpdateResumes
CHECK_DEADLOCK FALSE
