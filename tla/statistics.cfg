SPECIFICATION Spec
CONSTANTS
  Testcases <- SmallTestcases
  Works = {0, 3, 7}
  Times = {3, 4, 6, 11}
  Samples = {2, 3}
  Micro = 10
  Wrap = 64
INVARIANTS
  KeepsWhatWasMeasured
  SummaryIsOfTheMatrix
CHECK_DEADLOCK FALSE
