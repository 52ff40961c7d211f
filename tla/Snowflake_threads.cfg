SPECIFICATION Spec
CONSTANTS
  Thread = {t1, t2}
  SeqSize = 3
  Setback = 1
  MaxClock = 2
  MaxIds = 3
INVARIANT Unique
CHECK_DEADLOCK FALSE
