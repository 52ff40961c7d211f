SPECIFICATION MCSpec
CONSTANTS
  m1 = m1
  e1 = e1
  r1 = r1
  g1 = g1
  Fan = {u1, u2}
  Item = {m1, e1, r1, g1}
  Sort <- SortDef
  On <- OnDef
  Call = {q1, q2}
  NoRequest = NoRequest
  MaxClock = 3
  Server = {s1, s2}
  First = s1
  Chan = {d1, d2}
  Text = {p1}
  Open = {o1, o2}
  NoOpen = NoOpen
  Nowhere = Nowhere
SYMMETRY Sym
CHECK_DEADLOCK FALSE
INVARIANTS MirrorHolds 
