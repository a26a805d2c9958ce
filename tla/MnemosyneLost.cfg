SPECIFICATION Spec
CONSTANTS
  LineWords = 2
  LineCount = 4
  Value = {0, 3}
  MaxPayload = 3
  HeaderCount = 2
  High = {0, 1}
  CheckerPeriod = 2
  Tried = {"Mnemosyne"}
INVARIANTS
  AddedEntriesSurvive
CHECK_DEADLOCK FALSE
