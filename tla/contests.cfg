SPECIFICATION Spec
CONSTANTS
  Null = Null
  Reps = 2
  Budget = 1
  Readings <- ReadingsAll
  MaxFaults <- Deviations
  Doubts <- DoubtsCast
  Knobs = TRUE
  BUDGETS_BYTES <- Budgets
  WriterCells <- WriterProfile
  TILE_EDGE = 4
  ScanCells <- ScanProfile
  ENGINES <- EngineOrder
  WarmUps = 1
  EngineCells <- EngineProfile
INVARIANTS
  RowsAccountForRepetitions
  AttestedIsMeasured
  HighMeansQuiet
  HealthyIsWhole
PROPERTIES
  GateEnds
CHECK_DEADLOCK FALSE
