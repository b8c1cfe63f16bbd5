SPECIFICATION Spec
CONSTANTS
  Projects = {p1, p2}
  None = none
  Triggers = {"manual", "scheduled"}
  Deletable = {}
  WithUploads = {}
  Editable = {p1}
  Forcible = {}
  MaxCrashes = 0
INVARIANTS
  EditIsIndexed
CHECK_DEADLOCK FALSE
