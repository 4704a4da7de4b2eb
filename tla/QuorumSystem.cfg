SPECIFICATION SpecSystem
CONSTANTS
  ann = ann
  bob = bob
  sAnn = sAnn
  sBob = sBob
  Names = {ann, bob}
  Secrets = {sAnn, sBob}
  GoodSecrets = {sAnn, sBob}
  EncryptionIds = {e1}
  RequestIds = {r1, r2}
  ChallengeIds = {c1, c2}
  Workers = {w1, w2}
  Garbage = Garbage
  InitialUsers <- TwoUsers
  MaxUsers = 2
  MaxNames = 2
INVARIANT NoAnswerLost
PROPERTY RequestIsServed
CHECK_DEADLOCK FALSE
