SPECIFICATION Spec
CONSTANTS
  Ids = {1, 2}
  Serials = {1, 2}
  Keys = {k1}
  Csrs = {a}
  Quars = {1}
  Permits = {p1}
  Nobody = Nobody
  MaxFaults = 2
  Leftovers = {"staged"}
INVARIANTS OneCommitPerKey
