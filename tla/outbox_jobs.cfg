SPECIFICATION Spec
CONSTANTS
  Matches = {1}
  Workers = {w1, w2}
  None = None
  DigestSize = 1
  MaxAttempts = 2
  MaxFailures = 2
  Available = {"email", "webhook"}
  MaxRevision = 2
  MaxCrashes = 1
  Faults = {"crash", "answer", "late", "rescore"}
  Asked <- Channel
SYMMETRY Symmetry
INVARIANT TypeOK
INVARIANT OldSettingsAreSilent
PROPERTY ToldOnce
