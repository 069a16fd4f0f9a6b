CONSTANTS
  ULLONG = 8
  None = None
  MaxDigits = 9
  MaxSize = 4
  PATH_MAX = 6
  MaxLength = 5
  TICKS = 2
  TARGET_COUNT = 2
  SITE_TIMEOUT = 8
  CONNECT_TIMEOUT = 3
  TIMEOUT = 10
  MAX_TIME = 20
  NoUrl = NoUrl
  MaxSites = 3
SPECIFICATION Spec
INVARIANTS
  RangeIsInFile
  RangeIsAsAsked
  PathStaysInside
  CodingIsTransparent
  FirstSitesAreSaved
  TestTimeIsBounded
  SavedSitesAreMeasured
CHECK_DEADLOCK FALSE
