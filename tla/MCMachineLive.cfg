\* Liveness of the step loop.
SPECIFICATION FairSpec
CONSTANTS
  p1 = p1  p2 = p2  p3 = p3  l2v = l2v  r1 = r1  r2 = r2  NoRun = NoRun
  Packets = {p1}  ReviewPackets = {p1}  Foreign = {l2v}
  Runs = {r1}
  Inputs <- VerifyInputs
  EnforceDuty = FALSE
  MaxEvents = 7  MaxBacklog = 1  MaxCrashes = 1
PROPERTY EventuallyCommitted
PROPERTY ReportEventuallyCounts
