SPECIFICATION Spec
CONSTANTS
  MinStack = 20
  QueueMax = 2
  MaxMessages = 20
CHECK_DEADLOCK FALSE
INVARIANTS StackInFrame
