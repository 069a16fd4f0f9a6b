CONSTANTS
  Scenarios <- OneScenario
  MonitorsOf <- ItsMonitors
  MaxStarts = 1
  MaxFaults = 1
  MaxInterrupts = 0
SPECIFICATION FairSpec
PROPERTIES
  MonitorsAreStopped
CHECK_DEADLOCK FALSE
