SPECIFICATION Spec
CONSTANTS
  MaxIndex = 17
  OverflowChecks = {TRUE, FALSE}
  Singles = {0, 1}
  Lengths <- MCLengths
INVARIANTS BuildAcceptsCompleteCodes ReadsCanonicalCodes StaysInTree
