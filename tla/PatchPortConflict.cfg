SPECIFICATION Spec
CONSTANTS
  f = f
  g = g
  Files = {f, g}
  NewFile = NewFile
  MaxLine = 8
  MaxLength = 4
  Recents <- SomeRecents
  Patches <- SomePatches
INVARIANT RewrittenRefused
CHECK_DEADLOCK FALSE
