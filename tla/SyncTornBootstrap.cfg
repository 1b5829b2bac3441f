\* The id-list snapshot is read page by page while members come and go.
SPECIFICATION Spec
CONSTANTS
  EntityIds = {1, 2}
  Scores = {1}
  InitialMembers <- MCInitialMembers
  PageSize = 1
  Knobs <- IdListKnobs
  AllowReAdd = FALSE
  MaxEvents = 3
  Durable = TRUE
  MaxFaults = 0
INVARIANT SyncEqualsRebuild
