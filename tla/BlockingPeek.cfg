SPECIFICATION Spec
CHECK_DEADLOCK FALSE
CONSTANTS
  InitialCount = 0
  SignalCounts = {1}
  Waits = {"try", "forever", "zero", "timed"}
  MaxSignalled = 2
  Capacity = 2
  Ops = {"try_dequeue", "pop"}
PROPERTY PeekedIsRemoved
