SPECIFICATION FairSpec
CONSTANTS
  Projects = {p1, p2}
  None = none
  Triggers = {"manual", "scheduled"}
  Deletable = {p1}
  WithUploads = {p1}
  Editable = {p2}
  Forcible = {p2}
  MaxCrashes = 1
INVARIANTS
  TypeOK
  RunAndRowAgree
  NoLostWakeup
  CommittedUploadIsIndexed
  JobsAreKept
PROPERTIES
  PeopleFirst
  QueueGoesOn
