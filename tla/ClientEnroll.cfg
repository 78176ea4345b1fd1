SPECIFICATION Spec
CONSTANTS
  Authorities = {a1, a2}
  Nobody = Nobody
  Leftovers = {"absent", "empty", "torn", "staged", "final"}
  MaxFresh = 7
  MaxFaults = 1
INVARIANTS TypeOK OneRequest Vouched RecordIsTrue
PROPERTIES DeletesOwn
SYMMETRY Symmetry
