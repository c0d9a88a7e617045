SPECIFICATION LiveSpec
CONSTANTS
  Posts = {1, 2, 3, 4}
  Jobs = {j1, j2}
  None = None
  Concurrency = 2
  Cap = 1
  Limit = 1
  MaxAttempts = 2
  MaxTries = 1
  MaxVersion = 2
  MaxWalks = 1
  Deletable = {}
  Faults = {"fail", "budget", "keys"}
  Words <- Copying
  Pairs <- Searches
INVARIANT CapHolds
INVARIANT CeilingHolds
 
PROPERTY EveryJobEnds
CHECK_DEADLOCK FALSE
