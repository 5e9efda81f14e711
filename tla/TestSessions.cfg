SPECIFICATION SessionsSpec
CONSTANTS
  p = p
  q = q
  Profile = {p, q}
  NoProfile = none
  MaxRequests = 2
  MaxBatches = 3
  Setups <- MCSetups
  SpeedProfile = {p}
  MaxSpeedTests = 2
  MaxTraffic = 2
INVARIANTS OwnResult CreditsAreKept
PROPERTIES RequestsEnd
