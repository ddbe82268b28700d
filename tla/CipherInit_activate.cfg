SPECIFICATION StartSpec
CONSTANTS
  Threads = {t1}
  HeapSteps = 1
  MaxShutdowns = 0
  MaxLeaks = 0
  NoThread = NoThread
PROPERTY EveryOpenReturns
CHECK_DEADLOCK FALSE
