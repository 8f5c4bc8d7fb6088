\* Two users whose claims may race, two queries at a time, and one query that fails.
SPECIFICATION OwnerFairSpec
CONSTANTS
  p1 = p1
  p2 = p2
  Nobody = Nobody
  Unknown = Unknown
  Users <- TwoUsers
  Claims = {1, 2}
  Lookups = {1, 2}
  MaxFailures = 1
INVARIANTS
  OTypeOK
  OwnerAlone
PROPERTY OwnerIsServed
