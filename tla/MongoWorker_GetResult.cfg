\* What the documentation promises of GetResult with nothing dispatched: one coroutine, two operations.
SPECIFICATION Spec
CONSTANTS
  Coros = {c1}
  MaxOps = 2
INVARIANTS DispatchedOnly
\* After Close nothing more happens.
CHECK_DEADLOCK FALSE
