SPECIFICATION MCSpec
CONSTANTS
  None = none
  Editors = {e1, e2}
  Saver = e2
  Late = FALSE
  RunsFail = TRUE
  MaxChanges = 1
  MaxEdits = 1
INVARIANTS
  TypeOK
  TokenDescribesIndex
PROPERTY
  IndexCatchesUp
