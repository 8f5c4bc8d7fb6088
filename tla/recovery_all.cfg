\* Two drones and three attempts at a time; a picture freezes after three ticks.
SPECIFICATION FairSpec
CONSTANTS
  d1 = d1
  d2 = d2
  NoDrone = NoDrone
  Drones <- TwoDrones
  Attempts = {1, 2, 3}
  FrozenTicks = 3
  MaxShows = 1
INVARIANTS
  RTypeOK
  OnlyChosenRuns
  ProbeIsTimed
PROPERTY FrozenIsRecovered
