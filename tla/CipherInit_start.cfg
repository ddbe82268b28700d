SPECIFICATION StartSpec
CONSTANTS
  Threads = {t1, t2, t3}
  HeapSteps = 3
  MaxShutdowns = 2
  MaxLeaks = 1
  NoThread = NoThread
INVARIANTS CodecHasResources PrngServesUsers
PROPERTY OpenReturns
CHECK_DEADLOCK FALSE
