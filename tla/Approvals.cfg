SPECIFICATION FairSpec
CONSTANTS
  Requests = {r1}
  Kinds = {"question", "action", "credential"}
  MaxPresses = 3
  MaxFaults = 2
INVARIANTS
  NothingWithoutConsent
  NoSilentClose
  ExpiredWasDenied
PROPERTIES
  CredentialsSettle
CHECK_DEADLOCK FALSE
