SPECIFICATION Spec
CONSTANTS
  letter = letter
  picture = picture
  Files = {letter, picture}
  BinaryFiles = {picture}
  EncryptionIds = {e1, e2, e3}
  WrongKeys = {wrong}
  Noise = Noise
  Nothing = Nothing
SYMMETRY EncryptionSymmetry
INVARIANT CanBeDecrypted
