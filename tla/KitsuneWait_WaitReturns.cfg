\* A notification between the look at the slots and the sleep.
SPECIFICATION FairWaitSpec
CONSTANTS
  MaxSlots = 1
  MaxId = 1
  MaxRefs = 1
  HandlerStartsTasks = FALSE
PROPERTY WaitReturns
CHECK_DEADLOCK FALSE
