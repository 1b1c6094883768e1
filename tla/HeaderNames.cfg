SPECIFICATION AccessSpec
CONSTANTS
  B = 32
  Eofs <- MCEofs
  UsizeModuli <- MCUsizeModuli
  FirstBytes = {0, 4, 13, 21, 27, 31}
  Csums = {0, 1}
  FilenameLens = {0, 2, 5}
  OsTypes = {"generic", "amiga", "unix"}
  Sizes <- MCSizes
  LongLens <- MCLongLens
  ExtraLens <- MCExtraLens
  ExtraShapes <- MCExtraShapes
  MaxExtras = 2
  Texts <- MCTexts
  UnixTimes = {7}
  Filetimes <- MCFiletimes
  MsdosTimes <- MCMsdosTimes
  EpochTicks = 35
  TicksPerSec = 10
  NanosPerTick = 24414
  I64Modulus = 1000
INVARIANT ParentsAreStripped
