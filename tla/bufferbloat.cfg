CONSTANTS
  Scenarios <- TwoScenarios
  MonitorsOf <- TheirMonitors
  MaxStarts = 3
  MaxFaults = 2
  MaxInterrupts = 1
SPECIFICATION FairSpec
INVARIANTS
  ResultsAreKept
  AnalysedIsWhole
  NothingIsLeft
PROPERTIES
  ScriptsEnd
CHECK_DEADLOCK FALSE
