SPECIFICATION Spec
CONSTANTS
  Projects = {"p"}
  MaxId = 3
  MaxRevision = 2
  BatchSize = 2
  MaxRewrites = 2
  MaxFailures = 0
  MaxStarts = 1
CHECK_DEADLOCK FALSE
INVARIANT FindingsAreInTheText
