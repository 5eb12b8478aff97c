SPECIFICATION PlayerFairSpec
CONSTANTS
  QueueCapacity = 2
  MaxQueueSize = 3
  MaxFrames = 3
  MaxStarts = 1
  MaxEvents = 2
INVARIANTS
  NothingLeftRunning
  CallsInTurn
  LoopPlays
PROPERTIES
  QuitEndsPlayer
  PublishedIsDrawn
