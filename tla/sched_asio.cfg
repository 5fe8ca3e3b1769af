SPECIFICATION FairSpec
CONSTANTS
  c1 = c1
  c2 = c2
  p = p
  Clients <- ClientSet
  PoolThread = p
  WorkCalls <- AllCalls
  LocalPost = TRUE
INVARIANTS
  OneWorkOutstanding
  IdleWakes
  PromptNotify
  StopTakesHold
  PromiseKept
PROPERTIES
  StopReturns
CHECK_DEADLOCK FALSE
