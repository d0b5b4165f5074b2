CONSTANTS
  l1 = l1
  l2 = l2
  l3 = l3
  Listeners = {l1, l2, l3}
  MaxHandles = 4
  MaxEvents = 2
  InitMayFail = TRUE
SPECIFICATION SessionSpec
INVARIANTS
  SessionTypeOK
  OncePerSession
PROPERTIES
  EverySessionIsTold
