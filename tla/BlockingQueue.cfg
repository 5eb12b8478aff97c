SPECIFICATION FairSpec
CHECK_DEADLOCK FALSE
CONSTANTS
  InitialCount = 0
  SignalCounts = {1}
  Waits = {"try", "forever", "zero", "timed"}
  MaxSignalled = 6
  Capacity = 3
  Ops = {"try_dequeue", "pop", "wait_dequeue", "zero_timeout", "timed"}
INVARIANTS
  BlockingInv
  DequeueSucceeds
PROPERTIES
  RefusedOnlyWhenNoneReady
  CountingSpec
  WaitEnds
