SPECIFICATION RowsSpec
CONSTANTS
  Sources <- OneSources
  Files <- OneFiles
  SourceOf <- OneSourceOf
  Specs = {}
  Docs <- OneFiles
  FileOf <- OneFileOf
  Contents <- OneContents
  Rendering <- OneRendering
  Texts <- MCTexts
  Truncated = {"long"}
  NoText = "nothing"
  Empty = "empty"
  Gone = "gone"
  Stale = "stale"
  None = "none"
  Settings = {"en", "de"}
  Models = {"m1"}
  MaxGeneration = 2
  MaxRuns = 3
  MaxEdits = 2
  MaxCrashes = 0
  SweepFails = FALSE
  Looks = {FALSE}
  Users = {1, 2}
  StartRole <- MCStart
  Requests = {q1, q2}
  Bodies <- MCBodies
  RequestKinds = {"patch", "delete", "login", "link", "unlink", "mint", "password", "signin", "member"}
  Creatable = {"member", "admin", "root"}
  Identities = {i1}
  Sessions = {s1}
  GroupsOn = TRUE
  NoOne = NoOne
  Drivers = {run, probe}
  Callbacks = {"browser"}
  MaxConnections = 2
  MaxRefreshes = 2
SYMMETRY RowsSymmetry
CHECK_DEADLOCK FALSE
INVARIANTS
  RowsTypeOK
  WhatsNewIsTrue
  SettingsReachDocuments
  RootsRemain
  LinkOutlivesNothing
  AccountsWhole
  NoDeadlock
  RefreshIsSafe
  WritersAgree
