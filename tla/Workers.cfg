SPECIFICATION FairSpec
CONSTANTS
  Tasks = {a, b}
  LoopTasks = {a, b}
  MaxConcurrent = 1
  MaxIterations = 2
  Deadlines = {}
  MaxFaults = 1
INVARIANTS
  SlotsAccounted
  ReportedOnce
PROPERTIES
  WorkerSettles
