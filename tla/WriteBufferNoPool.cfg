CONSTANTS
  BlockSize = 4096
  CacheStart = 8192
  BlockCacheNum = 1
  HeapBlocks = {16384}
  WriteSizes = {2048, 2049}
  BufAddrs = {40960, 49152}
  WithPool = {FALSE}
  MaxWrites = 3
  Fields <- BoundaryFields
  LargeAddrs = {1048576}
  MaxFields = 0
  MaxBlocks = 0
SPECIFICATION Spec
INVARIANT WriteAllocates
CHECK_DEADLOCK FALSE
