CONSTANTS
  MaxMember = 3
  PoolCap = 3
  BuildLimit = 1
  Quorum = 1
  ResultsCount = TRUE
  ExcludeUnavailable = TRUE
  MaxRequests = 2
  Setups <- MCSetups
  p1 = p1
  p2 = p2
  NoProfile = NoProfile
  Profile <- Profiles
  MaxMembers = 2
  Grace = 1
  BackoffMin = 1
  BackoffMax = 2
  PersistEvery = 4
  MaxTime = 5
  Runs <- MCRuns
SPECIFICATION WatchedSpec
CHECK_DEADLOCK FALSE
INVARIANTS SelectionIsRight EarlyTakesWorking
PROPERTIES StartsGetPast RebuildsAreEarned
