SPECIFICATION MemorySpec
CONSTANTS
  Procs = {p, q}
  Texts <- MCTexts
  PyForm <- MCPyForm
  SqlForm <- MCSqlForm
  Near <- MCNear
  Similar <- MCSimilar
  MinCluster = 2
  Answers = {"m", "a", "b"}
  Files <- MCFiles
  MaxRows = 4
  MaxCalls = 4
INVARIANTS
  MergedKept
  TwinsRaced
  ContradictionMutual
SYMMETRY Symmetry
CHECK_DEADLOCK FALSE
