SPECIFICATION SpecPaper
CONSTANTS
  Null = Null
  Main = 2
  MaxCommit = 3
  Hosts <- HostsAll
  Reports <- ReportsAll
  Walk <- WalkOf
  Edits <- EditsAll
  Starts <- StartsTidy
  MaxChanges <- ChangesTwo
  MaxSweeps = 1
INVARIANT StampedIsMeasured
CHECK_DEADLOCK FALSE
