SPECIFICATION Spec
CONSTANTS
  Units = {u1}
  Providers = {p1, p2}
  None = None
  PageCap = 2
  MaxResumeAttempts = 1
  MaxClock = 1
  Rotates = FALSE
  Faults = {"keys", "edit", "crash", "slow", "database"}
INVARIANT WindowIsOpen
INVARIANT AtMostOneCollection
INVARIANT CursorStaysWithItsProvider
