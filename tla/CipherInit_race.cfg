SPECIFICATION StartSpec
CONSTANTS
  Threads = {t1, t2}
  HeapSteps = 3
  MaxShutdowns = 0
  MaxLeaks = 0
  NoThread = NoThread
INVARIANT InitIsComplete
