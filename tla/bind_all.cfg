\* Telemetry, registrations that race, an operator who enters d1 at any address, and one crash. The model ends with its budgets.
SPECIFICATION BSpec
CONSTANTS
  d1 = d1
  d2 = d2
  r1 = r1
  r2 = r2
  b1 = b1
  b2 = b2
  NoDevice = NoDevice
  NoRequest = NoRequest
  Devices <- TwoDevices
  Requests <- OneRequest
  Binders <- OneBinder
  AdminInputs <- MoveInputs
  MaxBinds = 2
  MaxEntered = 1
  StartIp = 2
  EndIp = 4
  StaticIps = {4}
  MaxRow = 6
  MaxKey = 8
  MaxTries = 2
  MaxFaults = 0
  MaxCrashes = 1
  RevokeModes = {}
CHECK_DEADLOCK FALSE
INVARIANTS BTypeOK MapMatchesTable MapNamesItsHolder KeyNotShared
PROPERTY TelemetryKeepsIdentity
