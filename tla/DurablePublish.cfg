SPECIFICATION Spec
CONSTANTS
  Ids = {w1, w2}
  Nobody = Nobody
  Leftovers = {"absent", "empty", "torn", "staged", "final"}
INVARIANTS NothingLeftStaged
PROPERTIES ImplementsPublication
