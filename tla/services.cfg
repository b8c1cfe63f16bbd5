SPECIFICATION Services
CONSTANTS
  Calls = {c1, c2, c3}
  Keys = {k1, k2}
  Nobody = nobody
  Inputs = {"f1", "f2"}
  MaxThreads = 3
  Projects = {"p"}
  MaxId = 2
  MaxRevision = 2
  BatchSize = 2
  MaxRewrites = 2
  MaxFailures = 1
  MaxStarts = 1
  Measured = {"p", "q"}
  Clicks = {"c"}
  MaxMoves = 2
  MaxLosses = 1
  Floored = {"p", "q"}
  MaxMeasurements = 2
  MaxManagers = 2
  Moving = {"p"}
  Places = 1
  MaxKept = 1
  Probes = 2
  MaxSwaps = 1
CHECK_DEADLOCK FALSE
INVARIANTS
  ServicesTypeOK
  MutexSafe
  ThreadIsInStep
  ScansAreSound
  RunsAreSound
  FloorIsSound
PROPERTIES
  ImplementsFifoLock
  ServicesGoOn
