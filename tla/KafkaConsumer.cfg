\* Two consumers of a group, two messages, faults and moves at any time.
SPECIFICATION FairSpec
CONSTANTS
  Consumers = {c1, c2}
  Nobody = nobody
  MaxOffset = 2
  MaxMoves = 2
  MaxFaults = 2
INVARIANT AtLeastOnce
PROPERTY EventuallyProcessed
CHECK_DEADLOCK FALSE
