SPECIFICATION Spec
CONSTANTS
  LineCount = 1
  PageCount = 1
  x = x
  a = a
  Val = {x, a}
  Torn = Torn
  InvalidPageId = kInvalidPageId
SYMMETRY Symmetry
INVARIANTS
  NewestPvnIsThePage
