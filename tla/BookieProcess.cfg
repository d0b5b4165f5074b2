SPECIFICATION Spec
CONSTANTS
  t1 = t1
  t2 = t2
  Null = Null
  h1 = h1
  h2 = h2
  IOThreads = {t1, t2}
  Handles = {h1, h2}
INVARIANTS
  ProcessTypeOK
  MetricsAreThere
  HandlersShareMetric
  RegisteredIsServed
  WholeUntilDestroyed
PROPERTIES
  StopsWhenTold
CHECK_DEADLOCK FALSE
