SPECIFICATION Spec
CONSTANTS
  QueueCapacity = 2
  MaxQueueSize = 3
  MaxFrames = 4
  MaxStarts = 1
INVARIANT NothingLost
