SPECIFICATION Spec
CONSTANTS
  ann = ann
  bob = bob
  eve = eve
  sAnn = sAnn
  sBob = sBob
  sShort = sShort
  Names = {ann, bob}
  Secrets = {sAnn, sShort}
  GoodSecrets = {sAnn}
  EncryptionIds = {e1}
  RequestIds = {r1}
  ChallengeIds = {c1, c2}
  Workers = {w1, w2}
  Garbage = Garbage
  InitialUsers <- NoUsers
  MaxUsers = 2
  MaxNames = 2
SYMMETRY Symmetry
CHECK_DEADLOCK FALSE
INVARIANTS
  HonestKeyCorrect
  NamedUsersEnrolled
