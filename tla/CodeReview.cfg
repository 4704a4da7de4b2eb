SPECIFICATION Spec
CONSTANTS
  ann = ann
  bob = bob
  f = f
  i1 = i1
  i2 = i2
  Clones = {ann, bob}
  Files = {f}
  Issues = {i1, i2}
  Nobody = Nobody
  New = New
  NoCL = NoCL
  Uses <- All
  Counted <- Commands
  MaxCommands = 4
  MaxFails = 1
  MaxRevs = 2
SYMMETRY Symmetry
INVARIANTS TypeOK AuthorKept OwnWasMailed RolledBack
PROPERTIES LeavesForReason KeepsPromises
