\* Three servers: the scheduler's loop alone with two contexts, and with a second
\* caller of tick(), where recording a failure may raise or not.
SPECIFICATION FairSpec
CONSTANTS
  c1 = c1
  c2 = c2
  loop = loop
  caller = caller
  Contexts = {c1, c2}
  Interval <- MCInterval
  Tickers = {loop, caller}
  Loop = loop
  MaxTime = 4
  Deployments <- MCDeployments
INVARIANTS TypeOK FailureIsVisible OneRefreshPerContext ClosedOnlyWhenQuiet
PROPERTIES RefreshSpacing KeepsRefreshing
CHECK_DEADLOCK FALSE
