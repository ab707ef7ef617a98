SPECIFICATION Spec
CONSTANTS
  NODES = 2
  MAXCL = 1
  QMAX = 2
  CLIENT_MAX_JOBS = 2
  SockCap = 1
  WIDS = 4
  Requests <- EchoRequests
  Images = {2}
  Caps = {0}
  Dues = {1}
  Left = {100}
  Faults = {"linkfail"}
  MaxConn = 1
  MaxReq = 1
  MaxBootFails = 1
INVARIANTS
  Conservation
CHECK_DEADLOCK FALSE
