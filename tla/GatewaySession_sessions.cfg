SPECIFICATION MCSpec
CONSTANTS
  k1 = k1
  k2 = k2
  k3 = k3
  k4 = k4
  x = x
  y = y
  NoConn = NoConn
  RestVoice = RestVoice
  Conn = {k1, k2, k3, k4}
  User = {x, y}
  UserOf <- TwoUsers
  GlobalLimit = 3
  PerUserLimit = 2
INVARIANTS HandoverSafe TablesExact GhostsAreOrphans VoiceEndsWithSession
PROPERTY TaskCompletes
