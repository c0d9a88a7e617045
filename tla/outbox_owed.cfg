SPECIFICATION LiveSpec
CONSTANTS
  Matches = {1, 2}
  Workers = {w1}
  None = None
  DigestSize = 2
  MaxAttempts = 2
  MaxFailures = 2
  Available = {"email", "webhook"}
  MaxRevision = 2
  MaxCrashes = 1
  Faults = {"crash", "hide"}
  Asked <- Hooks
 
INVARIANT FailingWebhookIsOff
PROPERTY OwedIsSettled
