SPECIFICATION FairSpec
CONSTANTS
  a = a
  b = b
  NoFile = NoFile
  Order <- MCOrder
  Valid = {a}
  Indexes <- MCIndexes
  Databases <- MCDatabases
  Patterns <- MCPatterns
  RowCounts = {1, 2}
  Positions = {1, 400, 1000}
  MAX_PKGS = 2
INVARIANTS
  WindowTrue
PROPERTIES
  ActionsShown
CHECK_DEADLOCK FALSE
