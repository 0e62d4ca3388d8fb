SPECIFICATION FairSpec
CONSTANTS
  Packets <- MCPackets
  Classes <- MCClasses
  Action <- MCAction
  MaxRetries <- MCMaxRetries
  RunBudget = 6
  EnforceDuty = TRUE
  Drivers = {"d1", "d2"}
  MaxReplanned = 1
  MaxManual = 1
  MaxFaults = 1
INVARIANTS
  RetryOncePerAttempt
  OneAnswer
PROPERTIES
  LivesBounded
  EveryFailureAnswered
  
CHECK_DEADLOCK FALSE
ACTION_CONSTRAINTS StepUninterrupted OneHand
