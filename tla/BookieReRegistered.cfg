CONSTANTS
  l1 = l1
  Listeners = {l1}
  MaxHandles = 2
  MaxEvents = 2
  InitMayFail = FALSE
  MayEnd = FALSE
SPECIFICATION Spec
PROPERTIES
  ReRegistered
CHECK_DEADLOCK FALSE
