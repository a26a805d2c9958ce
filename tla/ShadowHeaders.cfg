SPECIFICATION SpecH
CONSTANTS
  LineCount = 1
  PageCount = 2
  x = x
  a = a
  Val = {x, a}
  Torn = Torn
  InvalidPageId = kInvalidPageId
INVARIANTS
  HeaderIsNeverMixed
