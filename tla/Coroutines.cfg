\* Safety of the slots: two slots, three coroutines.
SPECIFICATION Spec
CONSTANTS
  MaxSlots = 2
  MaxId = 3
  MaxRefs = 1
  HandlerStartsTasks = FALSE
INVARIANTS TypeOK RunningSlotKept NoCoroutineLost OutcomeKept DeliveredOnce
