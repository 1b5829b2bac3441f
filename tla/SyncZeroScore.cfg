\* A member is added with score 0.0.
SPECIFICATION Spec
CONSTANTS
  EntityIds = {1, 2}
  Scores = {0, 1}
  InitialMembers <- MCInitialMembers
  PageSize = 1
  Knobs <- BitmapKnobs
  AllowReAdd = FALSE
  MaxEvents = 1
  Durable = TRUE
  MaxFaults = 0
INVARIANT SyncEqualsRebuild
