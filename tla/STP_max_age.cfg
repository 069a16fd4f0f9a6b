CONSTANTS
  Switch = {1, 2}
  Port <- PairPort
  Segment <- PairSegment
  MaxUnread = 1
  MaxStop = 1
  MaxLoss = 0
SPECIFICATION LiveSpec
PROPERTIES
  ReceivedDataTimesOut
