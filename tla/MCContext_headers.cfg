SPECIFICATION Spec
CONSTANTS
  L1Lag = 1
  MaxL1 = 3
  MaxBlock = 3
  MaxFork = 1
  MaxQueue = 2
INVARIANTS TypeOK HeadersSorted VerifiesKnownBlocks OwnBlocksVerified SafeHeaderFinal
