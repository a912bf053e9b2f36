CONSTANTS
  g1 = g1  g2 = g2  s1 = s1  s2 = s2
  anne = anne  bob = bob  noName = noName  c1 = c1  c2 = c2  c3 = c3
  Client = {c1, c2, c3}
  Group = {g1, g2}
  Student = {s1, s2}
  Name = {anne, bob, noName}
  NoName = noName
  Script <- Asking
  Rosters <- AllRosters
  Host = {"a", "b", "c"}
  Port = {1, 2}
  AddressOf <- Addresses
  Stray <- Elsewhere
  Leftover <- Anything
  Lossy = {c3}
  Killable = {c3}
SPECIFICATION FairSpec
INVARIANTS TypeOK TableIsInput RepliesAreAnswers OneAtATime
PROPERTIES EnrolledOnce GetReturns
CHECK_DEADLOCK FALSE
