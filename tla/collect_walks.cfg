SPECIFICATION Spec
CONSTANTS
  Units = {u1, u2}
  Providers = {p1}
  None = None
  PageCap = 2
  MaxResumeAttempts = 1
  MaxClock = 2
  Rotates = TRUE
  Faults = {"budget"}
SYMMETRY Symmetry
INVARIANT TypeOK
INVARIANT CoveredIsHandedOn
INVARIANT NothingBoughtTwice
