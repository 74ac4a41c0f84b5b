SPECIFICATION Spec
CONSTANTS
  Chats = {c1, c2}
  Names = {n1, n2}
  MaxGroups = 2
  MaxSessions = 4
  MaxMessages = 5
  MaxAttempts = 2
  MaxFaults = 2
SYMMETRY Symmetry
INVARIANTS
  CreatedIsUsable
  StaleIsOnlyBehind
  AnswerIsAllowed
CHECK_DEADLOCK FALSE
