CONSTANTS
  Mac = {1, 2}
  Host = {1, 2}
  Iface = {1, 2}
  NULL = NULL
  HASH_8BITS = 2
  Hash <- OneBucket
  MAC_PORT_TIMEOUT = 0
  MaxDelay = 1
  MaxUnread = 2
  MaxMoves = 1
  MaxFailed = 1
SPECIFICATION ApartSpec
INVARIANTS
  StillHostsAreKnown
  FramesReachStillHosts
PROPERTIES
  TableSettles
