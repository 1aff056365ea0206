CONSTANTS
  Keys = {k1}
  Leaves = {a, b}
  FlatBranches = {main}
  NestedBranches = {}
  Main = main
  TagNames = {}
  MaxCommits = 5
  None = None
  MaxCommands = 6
SPECIFICATION MCSpec
VIEW RepoView
SYMMETRY LeafSymmetry
PROPERTY MergeUndoesNothing
CHECK_DEADLOCK FALSE
