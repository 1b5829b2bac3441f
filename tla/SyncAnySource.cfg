\* A source that may add a member twice and has zero scores, read by id-list
\* pages; no state repository.
SPECIFICATION FairSpec
CONSTANTS
  EntityIds = {1, 2}
  Scores = {0, 1}
  InitialMembers <- MCInitialMembers
  PageSize = 1
  Knobs <- IdListKnobs
  AllowReAdd = TRUE
  MaxEvents = 3
  Durable = FALSE
  MaxFaults = 1
INVARIANTS MembersMatchSource
