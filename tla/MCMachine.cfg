\* The card tool on plans of up to two operations and the four ROMs; the copy-engine hook on every
\* small rectangle; the screen saver with a signal at every step.
SPECIFICATION FairSpec
CONSTANTS
    CSize = 2
    NClus = 5
    NRoot = 6
    Upper <- MCUpper
    Fits8_3 <- MCFits
    Tilde <- MCTilde
    MaxMB = 4
    Targets = {0, 1, 2}
    NCmd = 1
    NData = 3
    EPB = 2
    Late = FALSE
    Drives = {"C", "D"}
    Slots <- MCSlots
    Cards <- MCCards
    Ops <- MCOps
    Recipes <- MCRecipes
    Machines <- MCMachines
    MaxOps = 2
    B = 2
    Pitch = 3
    H = 3
    Threshold = 4
    CopyCalls <- MCCopyCalls
    FillCalls <- MCFillCalls
    VrtCalls <- MCVrtCalls
    MaxRuns = 3
    MaxCalls = 1
    Chunks = 2
    Limit = 2
    Fallback = 16
    Rows = 3
    Bands = 2
    BandLen = 2
    MaxSpeed = 2
    MaxDraws = 3
    MaxPals = 2
    MaxInputs = 3
INVARIANTS
  CardAsPlanned
  RomTellsTruth
  ScreenRight
PROPERTIES
  ComesBack
CHECK_DEADLOCK FALSE
