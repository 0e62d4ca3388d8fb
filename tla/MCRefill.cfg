\* Two packets and a Desktop child for one slot; one fault.
SPECIFICATION FairSpec
CONSTANTS
  Packets <- MCPackets
  PoolOf <- MCPoolOf
  Parents <- MCParents
  ParentOf <- MCParentOf
  NoParent = "none"
  Buckets <- MCBuckets
  Verified = {1}
  Actuators = {"act"}
  Epilogue = "epi"
  MaxFaults = 1
  Target <- MCTarget
  LowWater <- MCTarget
  TargetTotal = 1
  ParentTarget = 1
CHECK_DEADLOCK FALSE
INVARIANTS  OneChildPerPacket 
PROPERTIES StoppedStaysStopped 
