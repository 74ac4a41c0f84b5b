SPECIFICATION FairSpec
CONSTANTS
  Slots = 4
  MaxFaults = 2
INVARIANTS
  OneRunner
  RunnerIsPolled
  FreshResume
PROPERTIES
  ResumeReachesRunner
CHECK_DEADLOCK FALSE
