SPECIFICATION Spec
CONSTANTS
  MaxStarts <- MCMaxStarts
INVARIANTS WhatShowsIsLive
PROPERTIES KillIsSilent StopStopsEverything
