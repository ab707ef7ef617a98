SPECIFICATION FairSpec
CONSTANTS
  Pids = {1, 2}
  Faults = {"reuse"}
  Servers = {"comp", "bz"}
  MaxTries = 2
  MaxStarts = 2
  MaxCalls = 2
  MaxTrouble = 2
INVARIANTS
  OneOwner
PROPERTIES
  ToldTruly
  HungEnds
CHECK_DEADLOCK FALSE
