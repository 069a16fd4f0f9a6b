CONSTANTS
  Mac = {1, 2, 3}
  Iface = {p1, p2}
  NULL = NULL
  HASH_8BITS = 2
  Hash <- TwoBuckets
  MAC_PORT_TIMEOUT = 1
  MaxDelay = 1
SPECIFICATION Spec
INVARIANTS
  BucketsAreSound
  MutexIsHeldInside
  NothingOutlivesTheLimit
PROPERTIES
  ImplementsTable
