\* Racing runs, replans past the cap, timeouts past the cap, with crashes.
SPECIFICATION Spec
CONSTANTS
  p1 = p1  p2 = p2  p3 = p3  l2v = l2v  r1 = r1  r2 = r2  NoRun = NoRun
  Packets = {p1, p2, p3}  ReviewPackets = {p2}  Foreign = {l2v}
  Runs = {r1, r2}
  Inputs <- AllInputs
  EnforceDuty = TRUE
  MaxEvents = 13  MaxBacklog = 2  MaxCrashes = 2
ACTION_CONSTRAINT OneScenario
INVARIANT AppliedExactlyOnce
INVARIANT OneGeneration
INVARIANT TimeoutRetryCap
