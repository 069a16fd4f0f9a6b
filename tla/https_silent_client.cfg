CONSTANTS
  ULLONG = 16
  None = None
  Request <- JustGet
  MaxRequests = 1
  REQUEST_LIMIT = 4
  IO_BUFFER_SIZE = 1
  MaxFile = 1
SPECIFICATION FairSpec
PROPERTIES
  SilentClientIsLeft
