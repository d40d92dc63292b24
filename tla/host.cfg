SPECIFICATION Spec
CONSTANTS
  MinStack = 20
  QueueMax = 2
  MaxMessages = 6
CHECK_DEADLOCK FALSE
INVARIANTS MainErrorShown
PROPERTIES EveryFrameShown CloseEndsProgram
