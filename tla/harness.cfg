SPECIFICATION SuiteSpec
CONSTANTS
  Null = Null
  Families <- AllFamilies
  Plans <- TwoPlans
  Concurrency <- Levels
  Iters = 2
  WarmUps = 1
  MAX_SPOT_TILES = 2
  MaxFaults = 1
INVARIANTS
  ScoresAreTrue
  GateIsSound
  NothingLeft
  TurnsAlternate
CHECK_DEADLOCK FALSE
