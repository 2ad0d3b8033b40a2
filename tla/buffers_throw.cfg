SPECIFICATION Spec
CONSTANTS
  MaxSize = 3
  Plans <- OneThrows
  Samples = 2
INVARIANTS
  MemoryOutlivesItsUse
CHECK_DEADLOCK FALSE
