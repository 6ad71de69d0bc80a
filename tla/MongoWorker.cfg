\* Two coroutines, two operations, shared or not.
SPECIFICATION FairSpec
CONSTANTS
  Coros = {c1, c2}
  MaxOps = 2
INVARIANTS TypeOK OperationKept OwnedOrFreed CutOnlyIfAsked WholeResults
PROPERTIES CoroutineResumes CloseReturns
\* After Close nothing more happens.
CHECK_DEADLOCK FALSE
