SPECIFICATION FairSpec
CONSTANTS
  Requests = {r1}
  Permits = {p1}
  Nobody = Nobody
  MaxChanges = 1
  MaxFaults = 2
INVARIANTS NoChangeForgotten
PROPERTIES AdmittedOnValid ChangeWithdraws ReadinessReturns StopJoins
CHECK_DEADLOCK FALSE
