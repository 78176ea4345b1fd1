SPECIFICATION Spec
CONSTANTS
  Params = {p1, p2}
  Sigs = {s1, s2}
  Nobody = Nobody
  Leftovers = {"absent", "empty", "torn", "staged", "final"}
INVARIANTS TypeOK JournalTellsTruth OneRootPublished LoggedOnce LoadedIsInitialized RefusedForEvidence
PROPERTY ImplementsCeremony
