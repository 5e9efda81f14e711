SPECIFICATION ApiSpec
CONSTANTS
  MaxRequests = 2
  MaxOthers = 1
  KeptJobs = 2
  MaxJobRequests = 3
  KeptBackups = 1
  OpenUploads = 1
  Chunks = 2
  MaxTransferRequests = 5
  MaxTransfers = 1
  status = status
  groups = groups
  Topic <- MCTopics
  MaxWrites = 2
  MaxLines = 3
  MaxBytes = 4
  Sizes = {1, 2}
  Limits = {1, 2}
  MaxLogged = 6
  MaxExits = 5
CHECK_DEADLOCK FALSE
INVARIANTS NothingLeftBehind CompleteIsIntact
PROPERTIES RequestsAreAnswered JobsEndAsAsked FeedsAreFollowed ExitsAsAsked
