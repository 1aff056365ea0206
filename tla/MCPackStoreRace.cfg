CONSTANTS
  p1 = p1
  p2 = p2
  Procs = {p1, p2}
  Roles <- TwoCommits
  Leaves = {a, b}
  MaxCommits = 3
  MaxFiles = 6
  KillMidWrite = FALSE
  None = None
SPECIFICATION MCSpec
INVARIANTS NoLostCommit
