SPECIFICATION Spec
CONSTANTS
  Null = Null
  t1 = t1
  t2 = t2
  t3 = t3
  t4 = t4
  leaf1 = leaf1
  leaf2 = leaf2
  Plan <- PlanOf
  TileId <- TileIdOf
  LeafOf <- LeafOfTile
  ReadSamples = 3
  Reps = 2
  Ncpus = {1, 2, 4}
  P99Min = 3
  MaxFaults = 2
INVARIANTS
  SamplesAreOfTheWalk
  RequestsAddUp
  FinalizeIsApart
PROPERTIES
  PassEnds
CHECK_DEADLOCK FALSE
