SPECIFICATION Spec
CONSTANTS
  Archiver = {p1}
  d1 = d1
  d2 = d2
  d3 = d3
  bad = bad
  r1 = r1
  r2 = r2
  Doc = {d1, d2, d3, bad}
  RunId = {r1, r2}
  Admissible <- Admitted
  RunIdOf <- Identity
  NoDoc = NoDoc
  Torn = Torn
INVARIANTS
  FilesAreWhole
  IndexSound
  AckedIsListed
PROPERTIES
  FiledIsNeverReplaced
  ImplementsStore
