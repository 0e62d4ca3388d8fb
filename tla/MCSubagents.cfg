SPECIFICATION RosterFairSpec
CONSTANTS
  Agents <- MCAgents
  MaxFaults = 3
INVARIANT CloseOnce
PROPERTIES
  
  EveryEndClosed
CHECK_DEADLOCK FALSE
