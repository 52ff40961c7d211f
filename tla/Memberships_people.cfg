SPECIFICATION MCSpec
CONSTANTS
  view = view
  send = send
  manage = manage
  admin = admin
  own = own
  ann = ann
  bob = bob
  low = low
  high = high
  everyone = everyone
  Owner = own
  Others = {ann, bob}
  Role = {low, high}
  Everyone = everyone
  Perm <- AllPerms
  ViewChannel = view
  ManageRoles = manage
  Administrator = admin
  Arrays <- SomeArrays
  Top = 3
  Setup <- SomeSetups
  Slot = {w1, w2}
  Empty = Empty
  MaxWrites = 2
  Member = {ann, bob}
  Founder = ann
  Request = {w1, w2}
  NoRequest = NoRequest
  MaxUses = 1
  Person = {ann, bob}
  Ask = {w1, w2}
  NoAsk = NoAsk
  Peer = {p1, p2, p3, p4, p5, p6}
  Direct = {c1}
  Call = {w1, w2}
  NoCall = NoCall
  Nobody = Nobody
  MaxGroup = 3
  Creators = {p1}
  Lists = {{p2}, {p1, p2}, {p2, p3}}
  Gamer = {u1, u2, u3}
  Host = u1
  Gate = {w1, w2}
  NoGate = NoGate
  MaxPlayers = 2
  MaxSlot = 2
  Entrant = {e1, e2}
  Sub = {w1, w2}
  NoSub = NoSub
  Points = {1, 2, 3}
  Ceiling = 4
  Limits = {1, 2, 3}
SYMMETRY Interchangeable
CHECK_DEADLOCK FALSE
INVARIANTS RolesHold  PairsHold GroupsHold  BoardHolds
PROPERTY RightsRespected
