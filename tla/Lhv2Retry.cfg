SPECIFICATION BlockSpec
CONSTANTS
  N = 2
  Byte = {0, 1}
  Addressing = "offset"
  Addrs = {0, 1}
  Counts = {3}
  BufLens = {1, 2}
  Fill <- MCFill
  StartOffset = 0
  MaxOut = 4
  BlockLens = {0, 1, 2}
  MaxBlocks = 3
  Retry = TRUE
INVARIANT TreesAreSane
