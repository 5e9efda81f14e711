SPECIFICATION Spec
CONSTANTS
  g1 = g1
  g2 = g2
  g3 = g3
  k1 = k1
  k2 = k2
  Guard <- MCGuard
  Config <- MCConfig
  MayExit = TRUE
  None = None
SYMMETRY MCSymmetry
INVARIANTS ArmedMeansGuarded StartsFailClosed NoOrphanGuard StaleConfigIsRetried
PROPERTIES NoGapAtHandover
