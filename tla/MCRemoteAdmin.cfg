\* One power, network or broker fault and three events in the TT's life; two runs and an upload on the
\* serial line, one of the runs perhaps outlasting its timeout, and one stall.
SPECIFICATION FairSpec
CONSTANTS
    MaxTime = 4
    MaxFaults = 1
    Window = 2
    TooLong = {3}
    Killed = FALSE
    SameSecond = FALSE
    Replies <- MCReplies
    MaxLosses = 1
    Runs = {"r1", "r2"}
    Beside = {"r1"}
    Long = {"r1"}
    MaxTx = 3
    MaxPend = 2
    MaxStalls = 1
    Buf = 3
    Answers <- MCAnswers
    MaxBad = 1
    Batches <- MCBatches
    Olds <- MCOlds
    Now <- MCNow
    Keep = 1
INVARIANTS
  MessagesTrue
  LineSafe
  FetchedTrue
PROPERTIES
  SettlesAndEnds
CHECK_DEADLOCK FALSE
