SPECIFICATION Spec
CONSTANTS
  ByteBits = 2
  BufBytes = 2
  TypeBits = {2, 4}
  MaxBits = 5
  MaxStream = 4
  IoErrors = TRUE
  Streams <- MCStreams
INVARIANTS BufferIsWhatIsLeft AnswersAreNextBits EofOnlyAtEnd
