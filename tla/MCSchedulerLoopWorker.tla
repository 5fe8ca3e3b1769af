----------------------- MODULE MCSchedulerLoopWorker -----------------------
EXTENDS SchedulerLoopWorker

CONSTANTS c1, c2, p

ClientSet == {c1, c2}
NoSelfStop == {"start", "notify"}
AllCalls == {"start", "stop", "notify"}
=============================================================================
