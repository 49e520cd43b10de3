SPECIFICATION Spec
CONSTANTS
  a = a
  b = b
  n = n
  m = m
  Handler = {h1, h2}
  Doc = {a, b}
  Field = {n, m}
  Token = {t1}
  Commits <- MCCommits
  Batches <- MCBatches
  Contents <- MCContents
  None = None
  MaxCount = 2
  MaxClock = 1
INVARIANTS TokenOnce
PROPERTIES CreateTimeStable CommitIsSequential
SYMMETRY HandlerSymmetry
