SPECIFICATION Spec
CONSTANTS
  Renewals = {1, 2, 3}
  Authorities = {a1, a2}
  Nobody = Nobody
  LeafLife = 2
  ClockSkew = 0
  MaxCacheAge = 1
  Retained = 1
  MaxFaults = 1
  Horizon = 3
INVARIANTS TypeOK OneCertificate
PROPERTIES ValidityIsKept
