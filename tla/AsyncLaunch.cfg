\* A host thread that starts and waits: one slot, which three coroutines use in turn.
SPECIFICATION LaunchSpec
CONSTANTS
  MaxSlots = 1
  MaxId = 3
  MaxRefs = 1
  HandlerStartsTasks = FALSE
INVARIANTS IdWhileKept WaitedForAll
