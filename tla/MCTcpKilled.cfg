CONSTANTS
  g1 = g1  g2 = g2  s1 = s1  s2 = s2
  anne = anne  bob = bob  eve = eve  noName = noName  c1 = c1  c2 = c2  c3 = c3
  Client = {c1, c2}
  Group = {g1, g2}
  Student = {s1, s2}
  Name = {anne, bob, eve, noName}
  NoName = noName
  Garbage = garbage
  Script <- Quiet
  Rosters <- GoodRosters
  Leftover <- Zeros
  Killable = {c1}
  Idle = FALSE
SPECIFICATION Spec
INVARIANTS RunsUntilStop
CHECK_DEADLOCK FALSE
