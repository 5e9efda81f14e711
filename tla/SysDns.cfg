SPECIFICATION Spec
CONSTANTS
  c1 = c1
  c2 = c2
  c3 = c3
  s1 = s1
  s2 = s2
  Core <- MCCore
  Service <- MCService
  Overlap = FALSE
  None = None
SYMMETRY MCSymmetry
INVARIANTS ChangesAreRecorded FollowsTheDefault
PROPERTIES NoFollowAfterRelease
