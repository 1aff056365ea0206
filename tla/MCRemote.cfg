CONSTANTS
  Clients = {c1, c2}
  Server = Server
  Leaves = {a, b}
  MaxCommits = 3
  Modes = {"full", "shallow", "partial"}
  Depth = 1
SPECIFICATION Spec
SYMMETRY Symmetric
INVARIANTS RemoteTypeOK ServerComplete BranchComplete FetchComplete
