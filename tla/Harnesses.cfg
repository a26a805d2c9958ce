SPECIFICATION Spec
CONSTANTS
  VectorOf <- MCVectorOf
  MaxIterations = 4
  THREAD_COUNT = 2
  Rounds = 2
  thread_count = 2
  MaxIterationCount = 2
  Wrap = 5
  COUNT = 4
  threadCount = 3
  Repetitions = {4, 5}
  STEP = 2
  LastRun = 1
INVARIANTS
  TypeOK
  NobodyStartsEarly
  ResultsAreComplete
  EveryElementIsVisited
  PrintedIterationIsUndisturbed
  NoThreadOutlivesItsRound
PROPERTIES
  NoCrashOnceReady
  EveryRunEnds
