SPECIFICATION Spec
CONSTANTS
  ENTRY_COUNT = 3
  ITERATION_COUNT = 2
  WordCount = 3
  Width = 3
  LineWords = 2
  Filler = 7
  Data <- MCData
  Tried = {"sliding"}
INVARIANT
  OldStatesAreTheLastUpdate
CHECK_DEADLOCK FALSE
