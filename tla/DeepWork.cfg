SPECIFICATION FairSpec
CONSTANTS
  Tasks = {a, b}
  LoopTasks = {}
  MaxConcurrent = 1
  MaxIterations = 2
  Deadlines = {"long", "unset"}
  MaxFaults = 3
PROPERTIES
  DeepWorkEnds
