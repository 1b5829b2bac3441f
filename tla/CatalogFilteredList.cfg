\* One request at a time, then a listing of one lifecycle state.
SPECIFICATION Spec
CONSTANTS
  r1 = r1
  r2 = r2
  Requests = {r1}
  MaxFields = 1
  MaxVersion = 2
  MaxContexts = 1
INVARIANT ListShowsLatest
