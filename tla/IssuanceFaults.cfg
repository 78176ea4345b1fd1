SPECIFICATION Spec
CONSTANTS
  Ids = {1, 2}
  Serials = {1, 2}
  Keys = {k1, k2}
  Csrs = {a, b}
  Quars = {1}
  Permits = {p1, p2}
  Nobody = Nobody
  MaxFaults = 1
  Leftovers = {"absent", "empty", "torn", "staged", "final"}
SYMMETRY Symmetry
INVARIANTS TypeOK AnswersStand SignedIsReserved NoSecondSigning PublishedInOrder LoggedOnce
PROPERTIES ImplementsRegister PublishedForEver ReadyWhenSettled
