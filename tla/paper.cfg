SPECIFICATION SpecPaper
CONSTANTS
  Null = Null
  Main = 2
  MaxCommit = 3
  Hosts <- HostsAll
  Reports <- ReportsAll
  Walk <- WalkOf
  Edits <- EditsAll
  Starts <- StartsAll
  MaxChanges <- ChangesOf
  MaxSweeps = 1
INVARIANTS
  FiledIsNative
  PreviewDecides
  FiledStands
  EditIsNamed
CHECK_DEADLOCK FALSE
