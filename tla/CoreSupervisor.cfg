SPECIFICATION FairSpec
CONSTANTS
  Profile = {p1}
  None = None
  GiveUpAfter = 2
  Setups <- MCSetups
INVARIANTS ConnectedIsReal
PROPERTIES NothingUnwanted CoreComesBack
