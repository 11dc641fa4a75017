SPECIFICATION Spec
CONSTANTS
  Req = {r1, r2, r3, r4}
  None = None
  Ops = {"GET", "POST", "PATCH"}
  MaxWant = 2
  MaxFaults = 0
  MaxCrashes = 0
  MaxInFlight = 2
SYMMETRY ReqSymmetry
CHECK_DEADLOCK FALSE
INVARIANT PatchReplacesWhatWasRead
