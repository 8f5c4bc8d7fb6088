\* One drone, a queue of two items, one failing pipeline, one end of the process.
SPECIFICATION FairSpec
CONSTANTS
  d1 = d1
  d2 = d2
  Drones <- OneDrone
  Data <- TwoData
  Nothing = Nothing
  QueueSize = 2
  BatchSize = 2
  MinInterval = 1
  LiteEvery = 1
  MaxInterval = 2
  OfflineAfter = 2
  MaxFaults = 1
  MaxChanges = 1
INVARIANTS
  ITypeOK
  SentIsStored
  OutageOnItsWay
PROPERTY StoreFollowsDrone
