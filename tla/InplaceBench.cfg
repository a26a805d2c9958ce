SPECIFICATION Spec
CONSTANTS
  ENTRY_COUNT = 3
  ITERATION_COUNT = 2
  WordCount = 2
  Width = 3
  LineWords = 2
  Filler = 7
  Data <- MCData
  Tried = {"log", "cow", "cow16", "cow32", "cow48", "sliding", "high"}
INVARIANTS
  TypeOK
  ReadsReturnTheLastUpdate
  ReadsVisitEveryEntry
PROPERTIES
  ImplementsAtomicCells
CHECK_DEADLOCK FALSE
