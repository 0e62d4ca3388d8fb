\* One request, two drainers, a reaper, two verifiers, one death.  The system
\* stops when the request is settled.
SPECIFICATION FairSpec
CONSTANTS
  k1 = k1  d1 = d1  d2 = d2  p1 = p1  j1 = j1  j2 = j2  NoKey = NoKey
  Keys = {k1}  Drainers = {d1, d2}  Reapers = {p1}  Jobs = {j1, j2}
  claim_max_reclaims = 1  MaxCrashes = 1
CHECK_DEADLOCK FALSE
INVARIANT ExactlyOnceGate
INVARIANT OneVerifier
INVARIANT ReclaimBudget
PROPERTY EveryRequestSettles
