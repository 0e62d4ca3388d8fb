SPECIFICATION Spec
CONSTANTS
  Packets <- MCPackets
  Artifacts <- MCArtifacts
  Documents <- MCDocuments
  Sampled <- MCSampled
  Cap = 1
  Evaluators <- MCEvaluators
  MaxAttempt = 1
  MaxRevision = 2
  MaxEvals = 3
  MaxResults = 2
  MaxFaults = 1
INVARIANTS
  RequestBehindLog
  
PROPERTY VerdictOnlyStricter
CHECK_DEADLOCK FALSE
