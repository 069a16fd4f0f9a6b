CONSTANTS
  Switch = {1, 2, 3}
  Port <- LoopPort
  Segment <- LoopSegment
  MaxUnread = 1
  MaxStop = 1
  MaxLoss = 1
SPECIFICATION FairSpec
INVARIANTS
  CostIsAWalk
  RootConsistency
  RootPortIsBest
  DesignatedIsCurrent
  EveryoneIsTold
  RestIsConverged
PROPERTIES
  ImplementsElection
  Convergence
