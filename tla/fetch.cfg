SPECIFICATION Spec
CONSTANTS
  s1 = s1
  s2 = s2
  n1 = n1
  n2 = n2
  Secret = {s1, s2}
  Specs <- ThreeEntries
  Transports = {"http", "zap"}
  Lifetime = 4
  Skew = 2
  GetTimeout = 1
  None = None
  MaxTime = 4
  MaxRuns = 2
  MaxVersion = 2
INVARIANT TypeOK
INVARIANT AbortsWithoutTrace
INVARIANT SuccessIsComplete
INVARIANT EnvIsLast
INVARIANT TokenOutlivesItsUse
PROPERTY EveryStartEnds
CHECK_DEADLOCK FALSE
