------------------------- MODULE MCThreadLoopWorker -------------------------
EXTENDS ThreadLoopWorker

CONSTANTS c1, c2, w, none

ClientSet == {c1, c2}
WithNotifyStop == {"start", "stop", "notify_stop"}
WithoutStop == {"start", "notify_work", "notify_stop"}
NoCallbacks == {}
=============================================================================
