SPECIFICATION Spec
CONSTANTS
  Capacity = 2
  HashCount = 4
  NODE_COUNT = 2
  GROUP_SIZE = 2
  OperationCount = 5
  CoroutineCounts = {1, 3}
  Initial = Initial
  Torn = Torn
  Tried <- Programs
INVARIANTS
  TypeOK
  CoroutineEqualsScalar
  InsertsAreDurable
  NewEntriesAreDurableFirst
  FramesAreConserved
  LookupsFindTheirKey
CHECK_DEADLOCK FALSE
