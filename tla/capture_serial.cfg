SPECIFICATION SerialSpec
CONSTANTS
  Torn = Torn
  NoDoc = NoDoc
  Exact = {"storage", "engines"}
  FsDependent = {}
  Family = {"storage", "engines"}
  Families <- Both
  Captures = {c1, c2}
  Doc <- Runs
INVARIANTS
  RepoIsCitable
  EveryFamilyBeforeTheRepo
  PublishedStays
CHECK_DEADLOCK FALSE
