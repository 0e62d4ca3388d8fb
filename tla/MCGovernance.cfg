SPECIFICATION FairSpec
CONSTANTS
  h1 = h1
  h2 = h2
  Hooks = {h1, h2}
  Outages = {{}, {"meter_v2_fresh"}, {"consumer_heartbeat"}}
  MaxEdits = 1
  LeaseTurns = 2
  ReconThreshold = 3
  ReconCap = 4
  Shares = {20, 23, 26, 27}
  EnterHigh = 25
  LeaveHigh = 22
  Samples = 2
INVARIANT RoutesJustified
PROPERTIES
  BandNeedsTwoReports
  RootNotParalysed
ACTION_CONSTRAINTS PassesFirst PolicyFirst FewerPolicies WorldThen OddCallsFirst ShadowAlone
CHECK_DEADLOCK FALSE
