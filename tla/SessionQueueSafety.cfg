SPECIFICATION Spec
CONSTANTS
  MaxRows = 2
  Kinds = {"chat", "context", "clear", "task"}
  Delays = {1}
  MaxTries = 1
  Backoff <- MCShortBackoff
  ClaimStuck = 0
  Ceiling = 1
  BashTimeouts = {2}
  PromptLimit = 2
  Skew = 0
  MaxFaults = 1
  AgeCap = 3
  DueFloor = 0
INVARIANTS
  CompletedWasHandled
  TrackedCoversRunner
PROPERTIES
  ResetOnlyWithoutRunner
  GivenUpIsFinal
  KilledForOwnSilence
  ImplementsLedger
