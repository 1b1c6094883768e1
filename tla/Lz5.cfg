SPECIFICATION Lz5Spec
CONSTANTS
  N = 4
  Byte = {0, 1}
  Addressing = "pos"
  Addrs = {0, 1, 2, 3}
  Counts = {3, 6}
  BufLens = {0, 1, 3, 4}
  Fill <- MCFill
  StartOffset <- MCStartPos
  MaxOut = 5
  FlagBits = 2
INVARIANTS TypeOK WindowIsHistory NoCommandOverPendingCopy CommandsFollowFlags
  ResumeAddressFits
PROPERTY RefinesHistory
