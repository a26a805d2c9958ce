SPECIFICATION Spec
CONSTANTS
  LineCount = 2
  LineSize = 2
  Pages = {p1, p2}
  Bytes = {x, a}
  Techniques = {"Strawman", "PMDK"}
INVARIANTS
  TypeOK
  FlagsAreConsistent
  ResidentIsCurrent
  CleanLineIsInNvm
  SwapInFindsEmptyFrame
