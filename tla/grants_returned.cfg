SPECIFICATION Spec
CONSTANTS
  Users = {u1}
  Clients = {c1}
  Requests = {q1, q2}
  MaxCodes = 2
  MaxPairs = 3
  MaxEpoch = 1
  None = None

PROPERTY ReturnedGrantIsDown
SYMMETRY Symmetry
CHECK_DEADLOCK FALSE
