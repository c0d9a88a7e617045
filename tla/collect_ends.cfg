SPECIFICATION LiveSpec
CONSTANTS
  Units = {u1, u2}
  Providers = {p1}
  None = None
  PageCap = 2
  MaxResumeAttempts = 1
  MaxClock = 1
  Rotates = FALSE
  Faults = {}
INVARIANT WalkIsNeverLost
PROPERTY EveryCollectionEnds
