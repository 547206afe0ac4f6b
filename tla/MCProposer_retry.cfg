SPECIFICATION Spec
CONSTANTS
  None = None
  TargetSize = 3
  MaxPerBatch = 2
  MaxRetries = 2
  MaxBlock = 3
  MaxAnchor = 1
  MaxNonce = 2
  MaxQueue = 1
  Sizes = {1, 3}
CONSTRAINT MCBound
INVARIANTS TypeOK LivePendingExact DelayedWhileRetrying BatchExact NoSilentDrop OneNonce
