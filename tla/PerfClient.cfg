SPECIFICATION Spec
CONSTANTS
  c1 = c1
  c2 = c2
  t1 = t1
  Connections = {c1, c2}
  IoThreads = {t1}
  ThreadOf <- MCThreadOf
  Entries <- MCEntries
  Order <- MCOrder
  Second = 4
  Rate = 3
  Shares = 2
  StartTime = 6
  MaxTime = 8
INVARIANTS
  ClientTypeOK
  RateIsKept
  RateIsAtMostDoubled
  SamplesAreCounted
  PendingIsOutstanding
PROPERTIES
  ResponseFindsItsAdd
  SamplesAreCollected
CHECK_DEADLOCK FALSE
