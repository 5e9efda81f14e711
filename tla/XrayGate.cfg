SPECIFICATION FairSpec
CONSTANTS
  c1 = c1
  c2 = c2
  Conn <- MCConn
  Sweeps = TRUE
  MaxStarts = 2
  None = None
  Foreign = Foreign
  Untracked = Untracked
INVARIANTS HandoutIsCurrent RelaysRideTheirInstance NothingOutlives
PROPERTIES NothingHangs
