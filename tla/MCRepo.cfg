CONSTANTS
  Keys = {k1}
  Leaves = {a}
  FlatBranches = {main}
  NestedBranches = {}
  Main = main
  TagNames = {v}
  MaxCommits = 3
  None = None
  MaxCommands = 5
SPECIFICATION MCSpec
VIEW RepoView
INVARIANTS TypeOK StoreClosed IndexBacked
PROPERTIES TipsStayReadable
CHECK_DEADLOCK FALSE
