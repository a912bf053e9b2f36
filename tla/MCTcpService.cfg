CONSTANTS
  g1 = g1  g2 = g2  s1 = s1  s2 = s2
  anne = anne  bob = bob  eve = eve  noName = noName  c1 = c1  c2 = c2  c3 = c3
  Client = {c1, c2, c3}
  Group = {g1, g2}
  Student = {s1, s2}
  Name = {anne, bob, eve, noName}
  NoName = noName
  Garbage = garbage
  Script <- Busy
  Rosters <- AllRosters
  Leftover <- Anything
  Killable = {c1}
  Idle = TRUE
SPECIFICATION FairSpec
INVARIANTS TypeOK AnswersWhileServing PollsWhatIsOpen ClosedOnRequest
PROPERTIES CallsReturn
