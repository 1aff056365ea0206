CONSTANTS
  p1 = p1
  p2 = p2
  Procs = {p1, p2}
  Roles <- UserAndServer
  Leaves = {a, b}
  MaxCommits = 2
  MaxFiles = 3
  KillMidWrite = FALSE
  None = None
SPECIFICATION MCSpec
SYMMETRY Symmetric
INVARIANTS StoreTypeOK FsckClean PacksIntact NoLostCommitAlone
