SPECIFICATION MCSpec
CONSTANTS
  Thread = {t1}
  SeqSize = 3
  Setback = 0
  MaxClock = 6
  MaxIds = 9
  Member = {ann, bob}
  Author = ann
  Reader = bob
  Request = {q1, q2}
  NoRequest = NoRequest
  Cooldown = 2
  MaxTime = 4
  MaxSent = 3
  Msg = {m1}
  Task = {k1, k2}
  NoTask = NoTask
  Gone = Gone
  Texts = {1, 2}
  MaxTold = 2
SYMMETRY Interchangeable
CHECK_DEADLOCK FALSE
INVARIANTS ChannelHolds  IdsIncrease
