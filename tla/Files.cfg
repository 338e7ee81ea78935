CONSTANTS
  t1 = t1
  t2 = t2
  Threads <- TwoThreads
  Inodes <- FiveInodes
  Pieces <- Buffers
  Names <- FiveNames
  UserMask = 18
  InitTrees <- BareAndFull
  MaxCalls = 3
  DirPaths <- Directories
  DirRenames <- DirectoryMoves
  Copies <- CopyPairs
  FilePaths <- FileNames
  Part = Part
  Hole = Hole
SPECIFICATION Spec
SYMMETRY Symmetry
INVARIANTS CreateReports  CopyFaithful UmaskKept
CHECK_DEADLOCK FALSE
