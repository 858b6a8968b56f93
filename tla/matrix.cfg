SPECIFICATION Spec
CONSTANTS
  m = m
  n = n
  k = k
  q = q
  r = r
  old = old
  fix = fix
  head = head
  fork = fork
  cell = cell
  engines = engines
  vips = vips
  Unreadable = Unreadable
  NoExe = NoExe
  Matrix = {m, n, k, q}
  Report = {r}
  Ref <- MCRef
  Sibling = head
  VersionOf <- MCVersionOf
  Named <- MCNamed
  RefsOf <- MCRefs
  FamilyOf <- MCFamily
  Family = {engines, vips}
  Before = Before
  Cell = {cell}
  Past <- MCPast
  Sessions <- MCSessions
CHECK_DEADLOCK FALSE
INVARIANTS
  NamedForItsCore
  OutcomesAreTrue
  OneFamily
  NoWorktreeLeft
