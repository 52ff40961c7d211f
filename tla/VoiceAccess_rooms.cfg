SPECIFICATION FairSpec
CONSTANTS
  User = {u1}
  Channel = {a, b}
  Gateway = {g1}
  Worker = {w1}
  Sweeper = sweeper
  None = None
  Idle = Idle
  Rest = Rest
  MaxJoins = 2
  MaxFaults = 1
INVARIANTS TypeOK RoomAccounted
PROPERTIES RevokedLeaves QueueDrains
