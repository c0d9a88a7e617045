SPECIFICATION Spec
CONSTANTS
  classify = classify
  rescore = rescore
  triage = triage
  Loops = {classify, rescore, triage}
  Rescores = {rescore}
  Prices = {1, 2}
  Cap = 6
  Recheck = 2
  None = None
  Width <- Widths
  Posts <- Batches
  Together <- Meetings
  MaxCrashes <- Deaths
INVARIANT TypeOK
INVARIANT OvershootIsBounded
INVARIANT StopsNearTheCap
