SPECIFICATION FairSpec
CONSTANTS
  c1 = c1
  c2 = c2
  w = w
  none = none
  Clients <- ClientSet
  Worker = w
  NoThread = none
  Ops <- AllOps
  InitMayFail = TRUE
  CallbackOps <- AllCallbackOps
INVARIANTS
  StartedMeansRunning
  ReadyMeansRunning
  SetFnRace
  OnlyKnownHangs
  JoinsEnd
PROPERTIES
  Refines
  NeedStopEnds
  StopReturnsOrHangs
CHECK_DEADLOCK FALSE
