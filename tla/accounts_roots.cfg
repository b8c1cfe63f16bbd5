SPECIFICATION AccountsSpec
CONSTANTS
  Users = {1, 2, 3}
  StartRole <- MCRootStart
  Requests = {q1, q2, q3}
  Bodies <- MCRootBodies
  RequestKinds = {"patch"}
  Creatable = {}
  Identities = {}
  Sessions = {}
  GroupsOn = FALSE
  NoOne = NoOne
INVARIANTS AlwaysARoot
SYMMETRY Symmetry
CHECK_DEADLOCK FALSE
