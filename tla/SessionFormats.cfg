SPECIFICATION Spec
CONSTANTS
  Media <- MCWideMedia
  Delay = 0
  QueueSize = 2
  MaxOpens = 2
  NoContext = NoContext
  NoFrame = NoFrame
  NoCodec = NoCodec
  NoPicture = NoPicture
INVARIANT PictureFormatsKnown
