CONSTANTS
  Checks = {k}
  Keep = 1
  MaxStarts = 2
  MaxCycles = 3
  MaxEvents = 1
  MaxClock = 3
  Outcomes = {"PASS", "FAIL", "BLOCKED"}
  NONE = NONE
SPECIFICATION FairWatchSpec
INVARIANTS
  OneRunAtATime
  SuiteEndsWithWatcher
  RegressionIsRecorded
PROPERTIES
  SignalStops
