SPECIFICATION FairSpec
CONSTANTS
  Caller = {c1, c2}
  MaxCalls = 2
  MaxSocks = 2
CHECK_DEADLOCK FALSE
INVARIANTS CallsAreKeptApart
PROPERTIES CallsReturn
