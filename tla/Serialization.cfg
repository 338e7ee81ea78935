CONSTANTS
  BlockSize = 4096
  CacheStart = 8192
  BlockCacheNum = 1
  HeapBlocks = {16384}
  WriteSizes = {2048, 2049}
  BufAddrs = {40960, 49152}
  WithPool = {TRUE, FALSE}
  MaxWrites = 3
  Fields <- BoundaryFields
  LargeAddrs = {1048576}
  MaxFields = 3
  MaxBlocks = 3
SPECIFICATION Spec
INVARIANTS RegionsSafe PackedInBounds RoundTrip BlocksShared
CHECK_DEADLOCK FALSE
