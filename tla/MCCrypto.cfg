SPECIFICATION Spec
CONSTANTS
  P = 109
  A = 25
  Size = 8
  Order = 13
  Base <- MCBase
  Half = 4
  Wide = 3
  Chunk <- MCChunk
  LWord = 2
  Spacing = 2
  Keys = {0, 1, 3, 12, 37, 255}
  Signers = {1, 37}
  Hashes <- MCHashes
  Lengths <- MCLengths
  MulConsts = {2, 4, 53}
  MsgMax = 1
  MsgLens = {0, 1, 2}
  MaxCalls = 3
  MaxFaults = 2
INVARIANTS
  KernelsSound
  SameEitherWay
  LinkInStep
CHECK_DEADLOCK FALSE
