CONSTANTS
  Main = "main"
  Children = {"a", "b"}
  AWAKE_RING_SIZE = 3
  PipeSize = 1
  MaxCalls <- Calls
SPECIFICATION FairSpec
INVARIANTS OneHolder CalledInOrder
PROPERTIES HandlersCalled CallsReturn
CHECK_DEADLOCK FALSE
