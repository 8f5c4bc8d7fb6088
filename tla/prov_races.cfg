\* Two drones at once, one failing command, one crash. The drones stop calling after MaxTries: the model may end.
SPECIFICATION FairSpec
CONSTANTS
  d1 = d1
  d2 = d2
  d3 = d3
  r1 = r1
  r2 = r2
  r3 = r3
  NoDevice = NoDevice
  NoRequest = NoRequest
  Devices <- TwoDevices
  Requests <- TwoRequests
  StartIp = 2
  EndIp = 4
  StaticIps = {4}
  MaxRow = 5
  MaxKey = 8
  MaxTries = 2
  MaxFaults = 1
  MaxCrashes = 1
  RevokeModes = {}
CHECK_DEADLOCK FALSE
INVARIANTS
  TypeOK
  OneAddressPerKey
  DeliveredAddressIsOwn
  OfferedIsUnrouted
PROPERTY EveryDroneProvisioned
