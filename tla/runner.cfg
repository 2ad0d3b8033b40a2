SPECIFICATION Spec
CONSTANTS
  WorldSize = 3
  HostOf <- RoundRobin
  GpuCounts <- ManyOrOne
  BaseTests <- Base
  MultiTests <- Multi
  Requests <- Commands
  JsonModes = {TRUE, FALSE}
INVARIANTS
  ConsecutiveGpus
  ResultsGoToTheirTest
  EveryTestReported
  CollectivesAgree
PROPERTIES
  EveryRankEnds
