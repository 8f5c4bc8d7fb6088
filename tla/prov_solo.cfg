\* One request at a time; one failing command and two crashes of the server or the host anywhere. The drones stop calling after MaxTries: the model may end.
SPECIFICATION Spec
CONSTANTS
  d1 = d1
  d2 = d2
  d3 = d3
  r1 = r1
  r2 = r2
  r3 = r3
  NoDevice = NoDevice
  NoRequest = NoRequest
  Devices <- TwoDevices
  Requests <- OneRequest
  StartIp = 2
  EndIp = 4
  StaticIps = {4}
  MaxRow = 6
  MaxKey = 12
  MaxTries = 3
  MaxFaults = 1
  MaxCrashes = 2
  RevokeModes = {}
CHECK_DEADLOCK FALSE
INVARIANT TunnelsMatchTable
SYMMETRY Symmetric
