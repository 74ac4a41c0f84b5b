SPECIFICATION FairSpec
CONSTANTS
  s1 = s1
  s2 = s2
  Sessions <- MCSessions
  NoSession = NoSession
  MaxMessages = 2
  Dests = {"reachable", "denied", "nowhere"}
  MaxAttempts = 2
  MaxFaults = 1
INVARIANTS NoNeedlessDuplicate DeliveredTookEffect SentInOrder
PROPERTIES EveryRowSettles
