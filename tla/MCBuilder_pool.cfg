SPECIFICATION Spec
CONSTANTS
  None = None
  a = a
  b = b
  Senders <- TwoSenders
  Orders <- ThreeOrders
  Fees = {1}
  MaxSims = 1
  MaxBlock = 2
  MaxStale = 0
INVARIANTS CacheSound
PROPERTIES PoolKeepsOrders
