SPECIFICATION Spec
CONSTANTS
  Size = 3
  MaxBlockSize = 4
  Modes = {"CannotAlloc"}
  SizeCallers = {}
  MaxBlocks = 1
  MaxItems = 7
INVARIANTS
  SlotExclusive
  ValuesInOrder
  RefusesOnlyWhenFull
  FindsNothingOnlyWhenEmpty
PROPERTY QueueSpec
