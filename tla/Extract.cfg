SPECIFICATION LoopSpec
CONSTANTS
  Sources <- MCSources
  NoSource = "-"
  Eof <- MCEof
  Content <- MCContent
  BufLens = {1, 2, 5}
  UsizeModulus = 16
  IoErrors = FALSE
INVARIANT OffersEveryFile
PROPERTY LoopEnds
