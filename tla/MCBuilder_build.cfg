SPECIFICATION Spec
CONSTANTS
  None = None
  a = a
  b = b
  Senders <- TwoSenders
  Orders <- ThreeOrders
  Fees = {1, 2}
  MaxSims = 2
  MaxBlock = 1
  MaxStale = 2
INVARIANTS TypeOK BlockExecutable InFlightExact NoLostWakeUp
