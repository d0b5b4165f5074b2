CONSTANTS
  l1 = l1
  Listeners = {l1}
  MaxHandles = 4
  MaxEvents = 3
  InitMayFail = TRUE
  MayEnd = TRUE
SPECIFICATION Spec
INVARIANTS
  RegistrationTypeOK
  NeverMeetsItself
  ReportedNodeIsThere
  CreateOnItsThread
PROPERTIES
  RegisteredOrGone
CHECK_DEADLOCK FALSE
