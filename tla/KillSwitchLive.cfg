SPECIFICATION FairSpec
CONSTANTS
  g1 = g1
  g2 = g2
  g3 = g3
  k1 = k1
  k2 = k2
  Guard <- MCTwoGuards
  Config <- MCConfig
  MayExit = FALSE
  None = None
PROPERTIES NobodyIsStuck
