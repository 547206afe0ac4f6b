SPECIFICATION FairSpec
CONSTANTS
  None = None
  TargetSize = 3
  MaxPerBatch = 2
  MaxRetries = 2
  MaxBlock = 2
  MaxAnchor = 0
  MaxNonce = 4
  MaxQueue = 2
  MaxFaults = 2
  Sizes = {2}
INVARIANTS NothingStranded
PROPERTIES BlocksLand
