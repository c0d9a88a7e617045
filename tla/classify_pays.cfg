SPECIFICATION Spec
CONSTANTS
  Posts = {1, 2, 3}
  Jobs = {j1, j2}
  None = None
  Concurrency = 2
  Cap = None
  Limit = None
  MaxAttempts = 2
  MaxTries = 2
  MaxVersion = 1
  MaxWalks = 2
  Deletable = {2}
  Faults = {"fail", "crash"}
  Words <- Copying
  Pairs <- Unfound
SYMMETRY Symmetry
INVARIANT TypeOK
 
INVARIANT AttemptsEnd
INVARIANT OneCardPerWords
CHECK_DEADLOCK FALSE
