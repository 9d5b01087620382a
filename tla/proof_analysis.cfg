CONSTANTS
  w1 = w1  w2 = w2  w3 = w3  f1 = f1  f2 = f2
  Workers = {w1, w2}
  Files = {f1}
  NoFile = NoFile
  Uploads <- SomeUploads
  MaxAge = 120
  FutureTolerance = 2
  Threshold = 2
  Attempts = 2
  Settings = {"off", "on"}
  Failures = TRUE
SPECIFICATION FairSpec
INVARIANTS TypeOK ApprovalsGrounded FlaggedApprovalExplained
PROPERTIES SilentCircuitStaysOpen AnalysisEnds
