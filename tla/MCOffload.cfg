SPECIFICATION FairSpec
CONSTANTS
  HeapSize = 240
  Stacks = 24
  JobSizes = {24, 400}
  Asks = {40}
  MaxAsks = 2
  PerSlab = 1
  Slabs = 1
  Work <- AllWork
  JOB_BIG = 399
  IdMax = 4
  MaxPieces = 2
  MaxOther = 2
  MaxTrouble = 1
INVARIANTS
  JobsSafe
  HeapSound
PROPERTIES
  Finishes
CHECK_DEADLOCK FALSE
