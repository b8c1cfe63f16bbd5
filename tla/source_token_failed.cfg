SPECIFICATION FairSpec
CONSTANTS
  None = none
  Editors = {}
  Late = FALSE
  RunsFail = TRUE
  MaxChanges = 2
  MaxEdits = 3
PROPERTY UnchangedFindsNothing
