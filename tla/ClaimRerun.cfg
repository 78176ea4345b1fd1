SPECIFICATION PersistentSpec
CONSTANTS
  Authorities = {a1}
  Nobody = Nobody
  Leftovers = {"absent"}
  MaxFresh = 6
  MaxFaults = 0
PROPERTIES RerunCompletes
CHECK_DEADLOCK FALSE
