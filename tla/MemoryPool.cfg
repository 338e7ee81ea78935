CONSTANTS
  t1 = t1
  t2 = t2
  Threads <- TwoThreads
  BlockSize = 4096
  CacheStart = 8192
  BlockCacheNum = 1
  HeapBlocks = {4096, 12288}
  ElementSize = 1300
  CacheNum = 1
  PoolStart = 20480
  HeapMayFail = TRUE
SPECIFICATION Spec
SYMMETRY Symmetry
INVARIANTS BlocksConserved LiveElementsSafe CountsExact ListsExact EmptyBlocksReturned
CHECK_DEADLOCK FALSE
