\* Refinement of AddressLease under races, revocations and a crash. The drones stop calling after MaxTries: the model may end.
SPECIFICATION Spec
CONSTANTS
  d1 = d1
  d2 = d2
  d3 = d3
  r1 = r1
  r2 = r2
  r3 = r3
  NoDevice = NoDevice
  NoRequest = NoRequest
  Devices <- TwoDevices
  Requests <- TwoRequests
  StartIp = 2
  EndIp = 3
  StaticIps = {}
  MaxRow = 5
  MaxKey = 8
  MaxTries = 2
  MaxFaults = 0
  MaxCrashes = 1
  RevokeModes = {"keep", "drop"}
CHECK_DEADLOCK FALSE
PROPERTY LeaseSpec
