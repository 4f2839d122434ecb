SPECIFICATION LibrarySpec
CONSTANTS
  p1 = p1
  p2 = p2
  c1 = c1
  c2 = c2
  a = a
  b = b
  w1 = w1
  w2 = w2
  n2 = n2
  n1 = n1
  u1 = u1
  u2 = u2
  u3 = u3
  m1 = m1
  m2 = m2
  m3 = m3
  Producers = {p1, p2}
  Consumers = {c1, c2}
  Values = {a, b}
  Size = 2
  Nobody = Nobody
  Waiters = {w1, w2}
  Notifiers = {n1, n2}
  Free = Free
  MaxGone = 2
  Users = {u1, u2, u3}
  MaxTries = 1
  Members = {m1, m2, m3}
  MaxRounds = 3
INVARIANTS
  LibraryTypeOK
  SlotsExclusive
  CountersAccount
  NoSpuriousWake
  FairExclusion
  PassedByOneWriter
  PassedInGroups
PROPERTIES
  ImplementsQueue
  FullIsRelieved
  NotifyAllWakes
  SharedServes
CHECK_DEADLOCK FALSE
