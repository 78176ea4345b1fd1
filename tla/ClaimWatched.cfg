SPECIFICATION Spec
CONSTANTS
  Requests = {r1}
  Permits = {p1}
  Nobody = Nobody
  MaxChanges = 1
  MaxFaults = 2
INVARIANTS ReadyIsWatched

CHECK_DEADLOCK FALSE
