SPECIFICATION ErasureSpec
CONSTANTS
  Grace = 2
  LastDay = 6
  MaxFaults = 2
INVARIANTS ErasedLeavesNothing
PROPERTIES ErasedWhenDue FilesStay ErasedInTheEnd
CHECK_DEADLOCK FALSE
