\* Three dashboards and two pilots. Sockets are used once: the model ends.
SPECIFICATION Spec
CONSTANTS
  d1 = d1
  d2 = d2
  d3 = d3
  w1 = w1
  w2 = w2
  w3 = w3
  p1 = p1
  p2 = p2
  NoDrone = NoDrone
  NoSocket = NoSocket
  Drones = {d1, d2, d3}
  Watchers = {w1, w2, w3}
  Pilots = {p1, p2}
  Admins = {w1, w3, p1}
  Opens <- ThreeDrones
  Prompt = {d3}
  Refusable = {d2}
  MaxCommands = 2
  MaxFaults = 1
SYMMETRY SameDashboards
CHECK_DEADLOCK FALSE
INVARIANTS TypeOK FocusHasViewer FocusFollowsPilots SubscriptionFollowsPilots
