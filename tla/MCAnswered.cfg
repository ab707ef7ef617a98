SPECIFICATION FairSpec
CONSTANTS
  NODES = 2
  MAXCL = 1
  QMAX = 2
  CLIENT_MAX_JOBS = 2
  SockCap = 1
  WIDS = 4
  Requests <- LiveRequests
  Images = {2}
  Caps = {0}
  Dues = {1}
  Left = {100}
  Faults = {"bootfail", "oom"}
  MaxConn = 1
  MaxReq = 2
  MaxBootFails = 1
INVARIANTS
  Conservation
  LinkMatches
PROPERTIES
  Answered
  UsesCard
CHECK_DEADLOCK FALSE
