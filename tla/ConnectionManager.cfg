SPECIFICATION FairSpec
CONSTANTS
  p1 = p1
  p2 = p2
  Profile = {p1, p2}
  None = None
  MaxRequests = 2
  Setups <- MCSetups
INVARIANTS EngineIsTruthful FilterCoversTheSwitch RunsWithIdentity
PROPERTIES AnsweredOnce
