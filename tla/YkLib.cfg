SPECIFICATION SpecOrderly
CONSTANTS
  neo = neo
  old = old
  c1 = c1
  c2 = c2
  Keys = {neo}
  OldKeys = {}
  Challenges = {c1, c2}
  SeqMod = 3
  Slices = 2
  Bail = 4
  BailMod = 6
  TickMod = 8
  StartTicks = {0}
  MaxWaits = {0, 2}
  MaxGap = 2
INVARIANTS TypeOK WaitBounded
PROPERTIES ReplyIsAnswer WriteConfirmed WriteErrorIsTrue CallsReturn
