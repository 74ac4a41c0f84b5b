SPECIFICATION FairSpec
CONSTANTS
  MaxRows = 2
  Kinds = {"chat", "context"}
  Delays = {}
  MaxTries = 1
  Backoff <- MCShortBackoff
  ClaimStuck = 0
  Ceiling = 1
  BashTimeouts = {}
  PromptLimit = 1
  Skew = 0
  MaxFaults = 1
  AgeCap = 2
  DueFloor = 0
PROPERTIES
  EngagingRowsSettle
