SPECIFICATION Spec
CONSTANTS
  Sources <- MCSources
  NoSource = "-"
  Eof <- MCEof
  Content <- MCContent
  BufLens = {0, 1, 2}
  UsizeModulus = 16
  IoErrors = TRUE
INVARIANTS TypeOK StreamAccounting LimitReachesDataEnd NextFilePassesData
  LenNeverUnderflows VerifiedIsDelivered CleanReadVerifies
