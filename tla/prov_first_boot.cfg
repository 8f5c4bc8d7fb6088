\* Violation: two drones register at once.
SPECIFICATION Spec
CONSTANTS
  d1 = d1
  d2 = d2
  d3 = d3
  r1 = r1
  r2 = r2
  r3 = r3
  NoDevice = NoDevice
  NoRequest = NoRequest
  Devices <- TwoDevices
  Requests <- TwoRequests
  StartIp = 2
  EndIp = 4
  StaticIps = {}
  MaxRow = 5
  MaxKey = 8
  MaxTries = 1
  MaxFaults = 0
  MaxCrashes = 0
  RevokeModes = {}
CHECK_DEADLOCK FALSE
INVARIANT ProvisionedIsReachable
