SPECIFICATION Spec
CONSTANTS
  t1 = t1
  t2 = t2
  s1 = s1
  v1 = v1
  v2 = v2
  Thread = {t1, t2}
  Secret = {s1}
  Value = {x}
  Var = {v1, v2}
  Paths <- PathMaps
  Invalid = Invalid
  Empty = Empty
  Explicit = {v2}
  Operator = Operator
  None = None
  Nil = Nil
  MaxCalls = 2
INVARIANT TypeOK
INVARIANT AckedWriteStays
INVARIANT FetchEnvKeepsItsWord
PROPERTY EveryCallReturns
