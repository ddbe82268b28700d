SPECIFICATION Spec
CONSTANTS
  Threads = {t1, t2}
  HeapSize = 176
  Header = 16
  MinSplit = 32
  Align = 8
  Requests = {5, 24, 41}
  Outside = {1000, 2000}
  Wrap = 256
  MaxLive = 4
  Null = Null
VIEW NoStatistics
INVARIANTS BlocksTile Coalesced UsedIsLive
PROPERTY AllocSpec
