\* Neither property looks at keys: one key, which stale bytes hold too.
CONSTANTS
  t1 = t1
  t2 = t2
  r1 = r1
  r2 = r2
  r3 = r3
  k1 = k1
  k2 = k2
  IOThreads = {t1, t2}
  Requests = {r1, r2, r3}
  Keys = {k1}
  KeyOf <- MCKeyOfOne
  SegmentsOf <- MCSegmentsOf
  QueueCapacity = 1
  SyncLimit = 1
  FsyncWal = FALSE
  PowerLoss = FALSE
  Null = Null
  Garbage = k1
SPECIFICATION FairSpec
INVARIANTS
  AckedSurvives
PROPERTIES
  AddsAreAnswered
  DestroyCompletes
