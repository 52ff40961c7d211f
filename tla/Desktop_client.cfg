SPECIFICATION MCSpec
CONSTANTS
  Check = {c1, c2}
  NoCheck = NoCheck
  Track = {t1, t2}
  Quality = {high, low}
  Default = high
  None = None
  JITTER_FRAMES = 3
  MaxFrame = 7
  maxReconnectAttempts = 3
  MaxFaults = 3
  MaxCalls = 3
CHECK_DEADLOCK FALSE
INVARIANTS HostHolds  QueueHolds SocketHolds
PROPERTIES ServicesRespawned SocketSettles
