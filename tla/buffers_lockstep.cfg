SPECIFICATION Spec
CONSTANTS
  MaxSize = 4
  Plans <- AllShapes
  Samples = 2
INVARIANTS
  CollectivesMatch
  MemoryOutlivesItsUse
  MapsWhatIsReady
  NothingLeaks
  MatrixKeepsItsPromise
PROPERTIES
  EveryRankFinishes
