SPECIFICATION SpecImport
CONSTANTS
  Torn = Torn
  Exact = {"bytes"}
  FsDependent = {"alloc"}
  Family = {"storage", "engines"}
  Doc <- Runs
INVARIANTS
  HistoryIsOfTheArchive
  InvariantsAgree
  ImportedRunStays
