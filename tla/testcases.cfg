SPECIFICATION Spec
CONSTANTS
  DeviceCount = 3
  Machines <- SmallMachines
  Plans <- SmallPlans
  Words = 8
  SmCount = 2
  ChainsPerSm = 2
  Loops = 2
  Accesses = 17
INVARIANTS
  MatrixKeepsItsPromise
  CopiesReachTheirMemory
  OnlyThrowsLeak
  ChaseFollowsTheChain
