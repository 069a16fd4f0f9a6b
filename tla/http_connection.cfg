CONSTANTS
  ULLONG = 16
  None = None
  Request <- EveryRequest
  MaxRequests = 2
  REQUEST_LIMIT = 4
  IO_BUFFER_SIZE = 2
  MaxFile = 2
SPECIFICATION FairSpec
INVARIANTS
  AnswersInOrder
  StreamStaysFramed
  CloseIsHonoured
  NothingLeaks
PROPERTIES
  RequestsAreAnswered
  LostClientIsLeft
