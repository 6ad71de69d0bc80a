\* Two host threads and a KitsuneCleanup at any moment.
SPECIFICATION FairSpec
CONSTANTS
  h1 = h1  h2 = h2
  Callers <- TwoCallers
  Nobody = Nobody
  SchedulerThread = SchedulerThread
  CleanupThread = CleanupThread
INVARIANTS TypeOK ExclusiveAccess NoPhantomSignal
PROPERTIES AccessGranted ParkedCoroutineResumes CleanupCompletes ImplementsLock
\* A host thread that asks for the Lua state after the shutdown waits for ever.
CHECK_DEADLOCK FALSE
