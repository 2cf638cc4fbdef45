SPECIFICATION FairSpec
CONSTANTS
  e1 = e1
  e3 = e3
  e2 = e2
  w1 = w1
  w2 = w2
  Events <- ThreeRows
  Workers <- OneWorker
  Batch = 2
  MaxAttempts = 2
  MaxEnqueues = 4
  MaxCrashes = 1
CHECK_DEADLOCK FALSE
INVARIANTS
  TypeOK
  AttemptsAreReal
PROPERTIES
  ImplementsPromise
  EveryRowSettles
