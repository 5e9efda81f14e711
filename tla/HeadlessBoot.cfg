SPECIFICATION Spec
CONSTANTS
  Profiles = {1, 2}
  StrikesToSuppress = 2
  UnstableBootsToStayUp = 2
  MaxBoots = 4
  MaxCoreDeaths = 2
CHECK_DEADLOCK FALSE
INVARIANTS RecordIsTrue LoopsEnd
