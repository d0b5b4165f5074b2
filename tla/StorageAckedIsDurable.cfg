CONSTANTS
  t1 = t1
  t2 = t2
  r1 = r1
  r2 = r2
  r3 = r3
  k1 = k1
  k2 = k2
  IOThreads = {t1, t2}
  Requests = {r1, r2}
  Keys = {k1, k2}
  KeyOf <- MCKeyOfTwo
  SegmentsOf <- MCSegmentsOfTwo
  QueueCapacity = 2
  SyncLimit = 1
  FsyncWal = TRUE
  PowerLoss = TRUE
  Null = Null
  Garbage = Garbage
SPECIFICATION Spec
INVARIANT AckedIsDurable
