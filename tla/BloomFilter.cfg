CONSTANTS
  Filters = {"five", "twelve"}
  BitNum <- FiveAndTwelve
  HashBits = 8
  Hashes = {1, 77, 180}
  MaxCount = 2
SPECIFICATION BloomSpec
INVARIANT NoFalseNegative
