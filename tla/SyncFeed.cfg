\* Every delivery mode of the feed, a source that adds only non-members and
\* has no zero scores.
SPECIFICATION FairSpec
CONSTANTS
  EntityIds = {1}
  Scores = {1, 2}
  InitialMembers <- MCInitialMembers
  PageSize = 1
  Knobs <- BitmapKnobs
  AllowReAdd = FALSE
  MaxEvents = 4
  Durable = TRUE
  MaxFaults = 1
INVARIANTS TypeOK StoreMatchesSource AckedChangesArePublished DeltaHasNoGap
PROPERTIES StoreNeverGoesBack ReplicaSpec EventuallyCurrent
