CONSTANTS
  Station = {"b1", "b2", "b3"}
  Early = {"b1", "b2"}
  Host = {"h1", "h2"}
  Iface <- RingIface
  Frame = {"f", "k"}
  Origin <- RingOrigin
  MaxSent = 2
  MaxQueue = 1
  MaxTrouble = 1
SPECIFICATION FairSpec
INVARIANTS
  CopiesAreConserved
  OpenRingDeliversOnce
PROPERTIES
  StormNeverEnds
  OpenRingFallsSilent
CHECK_DEADLOCK FALSE
