SPECIFICATION Spec
CONSTANTS
  Cells <- Planned
  Outputs <- Written
  ReadSamples = 20000
  RootOnlyMaxEntries = 16384
  MinEquivalenceSample = 64
  Scenarios <- Walk
  Metric = {"a", "b"}
  Fact = {f1, f2}
  Null = Null
INVARIANTS
  RowsAreWhole
  DisagreementIsRefused
  FailuresShow
PROPERTIES
  AttestationIsOfTheCell
CHECK_DEADLOCK FALSE
