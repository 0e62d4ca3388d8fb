\* A throttled dispatch's audit event.
SPECIFICATION Spec
CONSTANTS
  p1 = p1  p2 = p2  p3 = p3  l2v = l2v  r1 = r1  r2 = r2  NoRun = NoRun
  Packets = {p1}  ReviewPackets = {p1}  Foreign = {l2v}
  Runs = {r1}
  Inputs <- ThrottleInputs
  EnforceDuty = TRUE
  MaxEvents = 4  MaxBacklog = 2  MaxCrashes = 0
INVARIANT ThrottledStaysDispatchable
