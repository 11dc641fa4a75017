SPECIFICATION Spec
CONSTANTS
  Req = {r1, r2, r3}
  None = None
  Ops = {"GET", "POST", "PATCH", "DELETE"}
  MaxWant = 2
  MaxFaults = 1
  MaxCrashes = 1
  MaxInFlight = 3
SYMMETRY ReqSymmetry
INVARIANT TypeOK
INVARIANT VersionsHaveOneWriter
INVARIANT StalePatchNeverCommits
INVARIANT RefusedLeavesNoTrace
INVARIANT SettledSecretIsVersioned
PROPERTY ImplementsCasCounter
CHECK_DEADLOCK FALSE
