SPECIFICATION Spec
CONSTANTS
  L1Lag = 2
  MaxL1 = 3
  MaxBlock = 2
  MaxFork = 0
  MaxQueue = 2
INVARIANTS HeadersNeverEmpty
