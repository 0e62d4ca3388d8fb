\* Three edges with a fault.  The system stops when all edges are done.
SPECIFICATION FairEdgeSpec
CONSTANTS
  NoProcess = NoProcess
  s1 = s1  s2 = s2  s3 = s3  e1 = e1  e2 = e2  e3 = e3
  Supervisors = {s1, s2, s3}  Generations = {e1, e2, e3}
  MaxLosses = 1
CHECK_DEADLOCK FALSE
INVARIANT ConsumedWasPassed
INVARIANT NoStrandedEdge
PROPERTY EveryEdgeDrained
