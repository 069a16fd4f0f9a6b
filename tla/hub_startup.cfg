CONSTANTS
  Station = {"b1"}
  Early = {}
  Host = {"h1", "h2", "h3"}
  Iface <- StarIface
  Frame = {"f"}
  Origin <- StarOrigin
  MaxSent = 1
  MaxQueue = 2
  MaxTrouble = 0
SPECIFICATION Spec
INVARIANTS
  NeverSentBack
CHECK_DEADLOCK FALSE
