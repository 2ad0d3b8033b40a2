SPECIFICATION Spec
CONSTANTS
  WorldSize = 3
  HostOf <- RoundRobin
  GpuCounts <- ManyOrOne
  BaseTests <- Base
  MultiTests <- Multi
  Requests <- ByIndex
  JsonModes = {FALSE}
INVARIANT
  RunsWhatIsAsked
