\* Two runs and two faults.  The system stops when both runs have ended.
SPECIFICATION FairSpec
CONSTANTS
  r1 = r1  r2 = r2  NoRun = NoRun
  Runs = {r1, r2}
  MaxFaults = 2
ACTION_CONSTRAINT OneStop
ACTION_CONSTRAINT LedgerIsRead
CHECK_DEADLOCK FALSE
INVARIANT OneOutcome
INVARIANT RosterNotBehind
PROPERTY EveryDispatchEnds
PROPERTY LostIsReported
