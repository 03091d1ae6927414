SPECIFICATION FairSpec
CONSTANTS
  Replicas = {r1, r2}
  Orgs = {o}
  MaxRereads = 2
  MaxWrites = 2
  MaxTrouble = 1
INVARIANT
  QuietFleetAgrees
PROPERTIES
  NeverBack
  FleetConverges
CHECK_DEADLOCK FALSE
