\* Two drones, two video sessions, two lost connections: at the second the delay fits no int.
SPECIFICATION Spec
CONSTANTS
  d1 = d1
  d2 = d2
  q1 = q1
  Drones <- TwoDrones
  Stations <- OneStation
  Nothing = Nothing
  MaxSessions = 2
  MaxAttempts = 0
  MaxFaults = 2
INVARIANTS
  PTypeOK
  BridgeIsAlive
  LoggedOutIsQuiet
  AnswerIsOwn
  NoSilentStall
SYMMETRY Symmetric
