SPECIFICATION FairSpec
CONSTANTS
  Media <- MCMedia
  Delay = 1
  QueueSize = 2
  MaxOpens = 2
  NoContext = NoContext
  NoFrame = NoFrame
  NoCodec = NoCodec
  NoPicture = NoPicture
INVARIANTS
  SessionInv
  ChosenStreamIsOfOpenFile
  CodecKeptUp
PROPERTIES
  PicturesInOrder
  PlaysToTheEnd
