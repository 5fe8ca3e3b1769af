SPECIFICATION FairSpec
CONSTANTS
  c1 = c1
  c2 = c2
  w = w
  none = none
  Clients <- ClientSet
  Worker = w
  NoThread = none
  Ops <- WithNotifyStop
  InitMayFail = FALSE
  CallbackOps <- NoCallbacks
PROPERTIES
  StopReturns
CHECK_DEADLOCK FALSE
