SPECIFICATION LiveSpec
CONSTANTS
  m1 = m1
  j1 = j1
  j2 = j2
  Monitors = {m1}
  Posts = {1, 2, 3}
  Comments = {3}
  Cut = {1, 2}
  Jobs = {j1, j2}
  None = None
  MaxPages = 1
  MaxTries = 2
  MaxCrashes = 2
  Owner <- Asked
  Holds <- Found
  Since <- Windows
  Started <- Starts
  FaultSets <- Meetings
INVARIANT TypeOK
INVARIANT NothingVanishes
INVARIANT ThreadsWereSentOn
 
PROPERTY EveryBatchSettles
