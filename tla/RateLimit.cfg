SPECIFICATION Spec
CONSTANTS
  Sources = {s1, s2}
  Absent = Absent
  GlobalCap = 3
  GlobalInterval = 1
  SourceCap = 2
  SourceInterval = 3
  TableMax = 1
  PruneAge = 7
  Horizon = 14
INVARIANTS LazyIsExact
PROPERTIES PrunedWereFull
CHECK_DEADLOCK FALSE
