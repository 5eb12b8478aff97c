SPECIFICATION Spec
CONSTANTS
  Size = 1
  MaxBlockSize = 4
  Modes = {"CanAlloc", "CannotAlloc"}
  SizeCallers = {"producer", "consumer"}
  MaxBlocks = 3
  MaxItems = 6
INVARIANTS
  QueueInv
  SizingInv
  SizeApproxBetween
