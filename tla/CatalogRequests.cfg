\* Two requests at a time on one name, of which two contexts are created.
SPECIFICATION Spec
CONSTANTS
  r1 = r1
  r2 = r2
  Requests = {r1, r2}
  MaxFields = 2
  MaxVersion = 3
  MaxContexts = 2
SYMMETRY RequestSymmetry
INVARIANTS TypeOK EntryIsLatestRow DeletedStaysDeleted
PROPERTIES OldVersionsFrozen
