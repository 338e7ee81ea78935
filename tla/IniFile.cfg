CONSTANTS
  Names <- SmallNames
  Values <- SmallValues
  MaxLines = 3
  MaxFiles = 2
SPECIFICATION Spec
INVARIANT ParsedAsWritten
CHECK_DEADLOCK FALSE
