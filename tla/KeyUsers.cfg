SPECIFICATION SpecUsers
CONSTANTS
  neo = neo
  old = old
  i1 = i1
  i2 = i2
  c1 = c1
  c2 = c2
  c3 = c3
  Keys = {neo, old}
  OldKeys = {old}
  Ids = {i1, i2}
  ChallengeOf <- TwoChallenges
  TestChallenge = c3
  Sample = c3
  Challenges = {c1, c2, c3}
  SeqMod = 1
  Slices = 2
  Bail = 3
  BailMod = 6
  TickMod = 2
  StartTicks = {0}
  ChalWait = 1
  MaxWaits = {0, 1}
  MaxGap = 1
INVARIANTS PostedIsAnswer PendingIsUnderWay
PROPERTIES RunEnds PendingEnds
