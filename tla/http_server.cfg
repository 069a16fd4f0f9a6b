CONSTANTS
  Client = {1, 2, 3, 4}
  Wants <- OneHttp
  MaxDescriptors = 4
  LISTEN_BACKLOG = 1
SPECIFICATION FairSpec
INVARIANTS
  NothingLeaks
  ServerStaysUp
  ContextIsThere
PROPERTIES
  QueuedClientIsTaken
CHECK_DEADLOCK FALSE
