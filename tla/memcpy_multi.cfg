SPECIFICATION Spec
CONSTANTS
  r0 = r0
  r1 = r1
  r2 = r2
  Ranks = {r0, r1, r2}
  NumCopies = 3
  RankOf <- OneAndTwo
  Samples = 2
  Value = "SUM_BW"
  Helper = "multi"
  QueueDepth = 6
  MayTimeOut = FALSE
  AsyncReset = FALSE
INVARIANTS
  TypeOK
  NoCopyBeforeRelease
  EnqueueOverheadExcluded
PROPERTIES
  ImplementsGate
  ResetOnlyWhenNobodySpins
  EveryRankFinishes
