SPECIFICATION Spec
CONSTANTS
  Cases <- TwoCases
  LoopCounts <- OneThree
  MinCount = 1
  MaxCount = 8
  Grow = 2
  Shrink = 2
  Setups <- FourSetups
  Crashes = 1
INVARIANTS
  SuccessMeansAllDone
  NoProfilerSurvives
PROPERTY
  EverySweepEnds
