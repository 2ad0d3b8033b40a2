SPECIFICATION Spec
CONSTANTS
  r0 = r0
  r1 = r1
  r2 = r2
  Ranks = {r0, r1}
  NumCopies = 3
  RankOf <- TwoAndOne
  Samples = 2
  Value = "TOTAL_BW"
  Helper = "multi"
  QueueDepth = 2
  MayTimeOut = TRUE
  AsyncReset = TRUE
INVARIANTS
  NoTrafficDuringVerification
  StartTogether
  TotalCoversEveryCopy
PROPERTIES
  EveryRankFinishes
