SPECIFICATION Spec
CONSTANTS
  WorldSize = 4
  Targets <- SampledTargets
  Calls = 2
INVARIANTS
  TypeOK
  RanksAgree
  TargetIsMet
  CoverageGrows
PROPERTIES
  EveryCallReturns
