SPECIFICATION MCSpec
CONSTANTS
  Sources <- MCSources
  Files <- MCFiles
  SourceOf <- MCSourceOf
  Specs <- MCSpecs
  Docs <- MCDocs
  FileOf <- MCFileOf
  Contents <- MCContents
  Rendering <- MCRendering
  Texts <- MCTexts
  Truncated = {"long"}
  NoText = "nothing"
  Empty = "empty"
  Gone = "gone"
  Stale = "stale"
  None = "none"
  Settings = {"en", "de"}
  Models = {"m1", "m2"}
  MaxGeneration = 2
  MaxRuns = 2
  MaxEdits = 1
  MaxCrashes = 1
  SweepFails = TRUE
  Looks = {}
INVARIANTS
  TypeOK
  OneModelServes
PROPERTIES
  ImplementsServedIndex
  UnreadKeepsItsDocuments
  PublishesWhatItRead
CHECK_DEADLOCK FALSE
