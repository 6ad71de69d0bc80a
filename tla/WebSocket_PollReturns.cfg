\* Poll of a client whose peer has left.
SPECIFICATION FairSpec
CONSTANTS
  Readers = {a}
  Nobody = nobody
  MaxFrames = 1
  MaxPieces = 2
  BigFrames = {}
PROPERTY PollReturns
CHECK_DEADLOCK FALSE
