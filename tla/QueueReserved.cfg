SPECIFICATION Spec
CONSTANTS
  Size = 4
  MaxBlockSize = 2
  Modes = {"CannotAlloc"}
  SizeCallers = {}
  MaxBlocks = 5
  MaxItems = 8
INVARIANTS
  AssertionsHold
  RefusesOnlyWhenFull
PROPERTY QueueSpec
