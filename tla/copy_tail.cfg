SPECIFICATION Spec
CONSTANTS
  KiB = 8
  MiB = 32
  MaxKiB = 13
  Threshold = 64
  Block = 4
  Threads = 5
  Pipe = 2
  Warp = 2
  Samples = 2
INVARIANTS
  CopiesTheElements
CHECK_DEADLOCK FALSE
