SPECIFICATION Spec
CONSTANTS
  User = {ann}
  Worker = {w1, w2}
  Idle = Idle
  MaxSessions = 1
  MaxFailures = 1
  MaxTrackers = 2
  MaxIssued = 3
  MaxPasswords = 2
SYMMETRY Workers
INVARIANTS SignInsHold RevocationsHold
