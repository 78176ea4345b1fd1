SPECIFICATION FairSpec
CONSTANTS
  Ids = {1, 2}
  Serials = {1, 2}
  Keys = {k1}
  Csrs = {a}
  Quars = {1, 2}
  Permits = {p1}
  Nobody = Nobody
  MaxFaults = 2
  Leftovers = {"absent", "staged", "final"}
PROPERTIES RefusedForEvidence CommittedGetsFinished
