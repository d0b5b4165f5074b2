CONSTANTS
  c1 = c1
  c2 = c2
  t1 = t1
  a1 = a1
  a2 = a2
  r1 = r1
  x1 = x1
  Connections = {c1, c2}
  IOThreads = {t1}
  Messages = {a1, a2, r1, x1}
  ThreadOf <- MCThreadOf
  ConnectionOf <- MCConnectionOf
  RequestOf <- MCRequestOf
  CutOf <- MCCutOf
  SyncLimit = 1
  MayCrash = TRUE
  Null = Null
  Unwritten = Unwritten
SPECIFICATION FairSpec
INVARIANTS
  ServerTypeOK
  ArrivesAsSent
  RepliesTellOutcome
  OneReplyPerAdd
  LoggedAsSent
PROPERTIES
  AddsAreReplied
  ServesAdds
