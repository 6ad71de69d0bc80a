\* Two host threads, two variables, two nodes, the engine started twice; a host
\* that waits for its Dispose calls before KitsuneCleanup, and makes the last of
\* them before the next KitsuneInit.
SPECIFICATION FairSpec
CONSTANTS
  Callers = {h1, h2}
  Vars = {v1, v2}
  Nodes = {n1, n2}
  NULL = NULL
  Nobody = Nobody
  SchedulerThread = SchedulerThread
  CleanupThread = CleanupThread
  MaxSession = 2
  DisposesReturn = TRUE
INVARIANTS TypeOK QueuedOnce UnrefWithAccess GCSeesAll UnrefInOwnSession
PROPERTIES QueuedIsFreed
\* After the last KitsuneCleanup nothing more happens.
CHECK_DEADLOCK FALSE
