SPECIFICATION FairSpec
CONSTANTS
  None = None
  Estimates <- QuietAndBusy
  MinPriorityFee = 4
  Buffer = 140
  MaxRetries = 2
  MaxFee = 24
  MaxBatch = 1
  MaxNonce = 2
INVARIANTS TypeOK NamedOnce TipAboveCapIsLearned NoNonceGap OneLanding
PROPERTIES BatchEnds
