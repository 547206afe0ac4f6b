SPECIFICATION Spec
CONSTANTS
  None = None
  TargetSize = 2
  MaxPerBatch = 2
  MaxRetries = 3
  MaxBlock = 1
  MaxAnchor = 0
  MaxNonce = 1
  MaxQueue = 1
  Sizes = {1, 3}
INVARIANTS NoEmptyBatch
