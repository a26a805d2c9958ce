SPECIFICATION Spec
CONSTANTS
  LineCount = 2
  PageCount = 2
  x = x
  a = a
  Val = {x, a}
  Torn = Torn
  InvalidPageId = kInvalidPageId
SYMMETRY Symmetry
CONSTRAINT Few
INVARIANTS
  TypeOK
  TableIsConsistent
  OldCopyIsIntact
  CleanPageSurvives
