SPECIFICATION SpecFair
CONSTANTS
  ann = ann
  bob = bob
  f = f
  i1 = i1
  i2 = i2
  Clones = {ann, bob}
  Files = {f}
  Issues = {i1}
  Nobody = Nobody
  New = New
  NoCL = NoCL
  Uses <- Closers
  Counted <- NoSync
  MaxCommands = 3
  MaxFails = 1
  MaxRevs = 2
PROPERTY SubmittedCLsClose
