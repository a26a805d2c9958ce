SPECIFICATION Spec
CONSTANTS
  LineCount = 2
  PageCount = 2
  Val = {x, a}
  Torn = Torn
  InvalidPageId = kInvalidPageId
  JunkPageId = xxxxxxxx
  JunkCount = 7
SYMMETRY Symmetry
INVARIANTS
  TypeOK
  IInv
  CleanPageSurvives
  LogIsFreeAtEntry
PROPERTIES
  FlushIsAtomic
  ImplementsAtomicPages
