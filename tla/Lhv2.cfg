SPECIFICATION BlockSpec
CONSTANTS
  N = 4
  Byte = {0, 1}
  Addressing = "offset"
  Addrs = {0, 2, 3, 5}
  Counts = {1, 3, 6}
  BufLens = {0, 1, 3, 4}
  Fill <- MCFill
  StartOffset = 0
  MaxOut = 5
  BlockLens = {0, 1, 2}
  MaxBlocks = 3
  Retry = FALSE
INVARIANTS TreesAreSane DeliveredIsDecoded
PROPERTIES RefinesHistory CallEnds
