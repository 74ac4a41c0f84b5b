SPECIFICATION FairSpec
CONSTANTS
  MaxOcc = 3
  MaxFaults = 1
INVARIANTS
  SeriesNeverLost
  OneStemPerSeries
  NextFollowsARun
PROPERTIES
  CancelThatHitHolds
  RecurrenceHandled
