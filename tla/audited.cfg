SPECIFICATION AuditedSpec
CONSTANTS
  Req = {r1, r2}
  Syncer = {}
  Nil = Nil
  Cap = 1
  MaxFaults = 1
  MayCancel = TRUE
  MayNotOpen = TRUE
  None = None
  Ops = {"GET", "POST", "PATCH", "DELETE"}
  MaxWant = 1
  MaxCrashes = 1
  MaxInFlight = 2
INVARIANT TrailInClientOrder
PROPERTY EveryRequestIsAudited
CHECK_DEADLOCK FALSE
