SPECIFICATION Spec
CONSTANTS
  None = None
  BlockSizes <- Sizes
  TargetSize = 1
  TargetBlockTime = 1
  MaxBlockSkips = 1
  TimeShiftLimit = 1
  MaxTimeShift = 3
  MaxStall = 1
  MaxAnchorErrors = 0
  MaxBlock = 2
  MaxL1 = 2
  MaxPending = 1
  MaxFeed = 0
INVARIANTS NoAnchorAssertion
