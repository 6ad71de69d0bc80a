\* Liveness of the slots: two slots, two coroutines, a fair scheduler.
SPECIFICATION LiveSpec
CONSTANTS
  MaxSlots = 2
  MaxId = 2
  MaxRefs = 1
  HandlerStartsTasks = FALSE
PROPERTIES ReleasedIsFreed CancelledIsFreed WaiterWakes
