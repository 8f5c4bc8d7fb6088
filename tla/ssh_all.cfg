\* A user who waits for one terminal to end, beside one who does not. Connections are used once: the model ends.
SPECIFICATION FairSpec
CONSTANTS
  b1 = b1
  b2 = b2
  k1 = k1
  k2 = k2
  k3 = k3
  NoSession = NoSession
  NoBrowser = NoBrowser
  Browsers <- TwoBrowsers
  Sessions <- ThreeSessions
  Patient <- OneBrowser
  MaxWaiting = 1
CHECK_DEADLOCK FALSE
INVARIANTS TypeOK MappedIsLive PatientIsMapped
PROPERTY LeavingReleases
