SPECIFICATION FairSpec
CONSTANTS
  Keys = {c, e}
  Chord = {c, e}
  Modes = {"net", "serial", "file"}
  Faults = {"kill", "window", "pipe", "serial"}
  MaxStarts = 2
  MaxSent = 2
  MaxTrouble = 1
INVARIANTS
  KeysTrue
PROPERTIES
  SessionEnds
CHECK_DEADLOCK FALSE
