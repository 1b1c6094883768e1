SPECIFICATION Spec
CONSTANTS
  Sources <- MCSources
  NoSource = "-"
  Eof <- MCEof
  Content <- MCContent
  BufLens = {0, 1}
  UsizeModulus = 2
  IoErrors = FALSE
INVARIANT ZeroMeansEndOfFile
