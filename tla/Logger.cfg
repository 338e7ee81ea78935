CONSTANTS
  t1 = t1
  t2 = t2
  Threads <- TwoThreads
  BlockSize = 8192
  CacheStart = 8192
  BlockCacheNum = 1
  HeapBlocks = {16384, 24576, 32768}
  MsgLens = {20}
  HeadLen = 60
  MaxFileSize = 81
  MaxFileNum = 2
  Levels = {1}
  QueueCapacity = 1
  MaxLines = 3
  MaxCrashes = 1
SPECIFICATION FairSpec
INVARIANTS BuffersConserved LinesInOrder CloseFlushes FilesInOrder 
PROPERTIES RotationKeeps CloseCompletes
CHECK_DEADLOCK FALSE
