SPECIFICATION Spec
CONSTANTS
  NODES = 2
  MAXCL = 2
  QMAX = 2
  CLIENT_MAX_JOBS = 2
  SockCap = 1
  WIDS = 4
  Requests <- JobdRequests
  Images = {1, 2}
  Caps = {0}
  Dues = {1}
  Left = {100}
  Faults = {"linkfail", "bootfail"}
  MaxConn = 2
  MaxReq = 2
  MaxBootFails = 0
INVARIANTS
  TypeOK
  BusyMatches
  DownIsEmpty
  NoStranded
  LeaseExclusive
  DueFile
  OwnersMatch
  RepliesRouted
PROPERTIES
  LeaseRespected
CHECK_DEADLOCK FALSE
