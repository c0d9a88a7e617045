SPECIFICATION LiveSpec
CONSTANTS
  Monitors = {m1}
  Threads = {t1, t2}
  Counted = {t1}
  Growing = {t1}
  None = None
  BatchSize = 2
  PageSizes = {1, 2}
  MaxPages = 2
  MaxEmpty = 1
  Ceiling = 3
  MaxThreads = 2
  MaxComments = 3
  MaxCrashes = 1
  FaultSets <- Meetings
INVARIANT TypeOK
 
INVARIANT WalkHasACeiling
INVARIANT StoredIsHandedOn
 
 
