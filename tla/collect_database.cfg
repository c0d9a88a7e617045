SPECIFICATION Spec
CONSTANTS
  Units = {u1}
  Providers = {p1}
  None = None
  PageCap = 2
  MaxResumeAttempts = 1
  MaxClock = 2
  Rotates = FALSE
  Faults = {"database"}
INVARIANT CoveredIsHandedOn
