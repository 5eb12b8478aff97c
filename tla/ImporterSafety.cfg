SPECIFICATION FairSpec
CONSTANTS
  QueueCapacity = 3
  MaxQueueSize = 4
  MaxFrames = 5
  MaxStarts = 3
INVARIANTS
  SingleConsumer
  FrameOwnership
  NoStaleSession
  QuiescentAfterStop
  PictureSafe
  ImporterInv
PROPERTIES
  LossOnlyWhenFull
  FifoDecode
  ShownNeverGoesBack
  StopReturns
  QueuedFramesAreFreed
