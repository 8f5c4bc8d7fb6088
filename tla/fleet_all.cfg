\* One drone; two faults anywhere.
SPECIFICATION FairSpec
CONSTANTS
  d1 = d1
  d2 = d2
  Drones <- OneDrone
  Nothing = Nothing
  Timeout = 1
  Retention = 2
  MaxFaults = 2
INVARIANTS
  FTypeOK
  OnlineIsBacked
PROPERTIES
  OutageIsShown
  ReadersAreAnswered
