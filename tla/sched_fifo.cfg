SPECIFICATION FairSpec
CONSTANTS
  c1 = c1
  c2 = c2
  p = p
  Clients <- ClientSet
  PoolThread = p
  WorkCalls <- NoSelfStop
  LocalPost = FALSE
INVARIANTS
  StopReturnsStopped
  NoEventAfterDestroy
PROPERTIES
  DestructorReturns
  IdleRuns
  Refines
