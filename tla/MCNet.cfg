SPECIFICATION FairSpec
CONSTANTS
  Trams = 2
  Kinds <- AllKinds
  HeapFails = TRUE
  MaxJobs = 4
INVARIANTS
  RepliesWhole
  HeapSafe
PROPERTIES
  ImplementsCard
CHECK_DEADLOCK FALSE
