\* Starts on files of every earlier version, requests, stops and crashes.
SPECIFICATION FairSpec
CONSTANTS
  OldRows <- MCOldRows
  MaxCrashes = 1
  Providers = {1, 2}
  MapRows <- MCMapRows
  Threads = {t1, t2}
  PageLimit = 1
  MaxChanges = 2
INVARIANTS SchemaIsComplete OneIdPerContext FailsOnlyWhenTorn
INVARIANTS AnswersAreAudited EngineServesRegisteredMaps ListingMissesNothing
PROPERTIES IdsAreStable StartupConverges
