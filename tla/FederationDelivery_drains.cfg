SPECIFICATION FairSpec
CONSTANTS
  m1 = m1
  m2 = m2
  s1 = s1
  s2 = s2
  s3 = s3
  None = None
  Message = {m1}
  Slot = {s1, s2}
  MAX_ATTEMPTS = 2
  MaxEvents = 2
  MaxFaults = 1
PROPERTY OutboxDrains
CHECK_DEADLOCK FALSE
