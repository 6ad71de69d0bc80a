\* A server's or a client's WebSocket, two readers, three frames in up to three pieces.
SPECIFICATION FairSpec
CONSTANTS
  Readers = {a, b}
  Nobody = nobody
  MaxFrames = 3
  MaxPieces = 3
  BigFrames = {2}
INVARIANT WholeInOrder
PROPERTY ReaderReturns
\* A WebSocket that was collected does nothing more.
CHECK_DEADLOCK FALSE
