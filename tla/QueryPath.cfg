\* One query while the source changes, failures are injected and the service
\* answers badly.
SPECIFICATION FairSpec
CONSTANTS
  EntityIds = {1, 2, 3, 4}
  Scores = {1, 2}
  InitialMembers <- MCInitialMembers
  PageSize = 1
  Knobs <- MCKnobs
  AllowReAdd = TRUE
  MaxEvents = 2
  MaxRetries = 2
  BackoffBase = 2
  BackoffCap = 3
  RetryAfter = 5
  ChecksAge = TRUE
  Accesses <- MCAccesses
  BitmapThreshold = 2
  MaxPages = 3
  CaseFilters <- MCCaseFilters
  MaxResultRows = 2
  MaxResponseBytes = 10
  RowBytes <- MCRowBytes
  Limits <- MCLimits
INVARIANTS TypeOK RetryBudget UntornResolveIsExact NothingInvented
INVARIANTS OnlyShiftsTearPages EvidenceForResolved
PROPERTIES QueriesEnd
