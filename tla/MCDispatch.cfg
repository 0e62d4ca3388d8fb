SPECIFICATION FairSpec
CONSTANTS
  d1 = d1
  d2 = d2
  p1 = p1
  p2 = p2
  Dispatchers = {d1, d2}
  Packets = {p1, p2}
  NoPacket = NoPacket
  Agents <- MCAgents
  Wave <- MCWave
  Cost <- MCCost
  Plans <- MCPlans
  Ceilings = {5}
  Reports = {2}
  MaxTasks = 1
  MaxSpent = 6
  MaxFaults = 1
INVARIANTS
  ReservationMatchesRun
  NoOverdraft
PROPERTIES
  RungMonotone
  TokensGrantedOnce
  ReservationsReturn
ACTION_CONSTRAINTS OneReporter OneDuty
CHECK_DEADLOCK FALSE
