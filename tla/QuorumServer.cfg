SPECIFICATION Spec
CONSTANTS
  ann = ann
  bob = bob
  eve = eve
  sAnn = sAnn
  sBob = sBob
  sShort = sShort
  Names = {ann, bob, eve}
  Secrets = {sAnn, sBob}
  GoodSecrets = {sAnn, sBob}
  EncryptionIds = {e1, e2}
  RequestIds = {r1, r2}
  ChallengeIds = {c1, c2, c3}
  Workers = {w1, w2}
  Garbage = Garbage
  InitialUsers <- TwoUsers
  MaxUsers = 2
  MaxNames = 2
SYMMETRY Symmetry
CHECK_DEADLOCK FALSE

INVARIANTS
  TypeOK
  ReleasedWithConsent
  HonestKeyCorrect
  RequestCoversQuorum
  SetupComplete
  AnsweredNotPending
PROPERTIES
  ToldIsFinal
  SettledIsFinal
  GrantsOnlyByQuorum
