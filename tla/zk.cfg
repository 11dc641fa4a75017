SPECIFICATION Spec
CONSTANTS
  Node = {n1, n2, n3}
  Threshold = 2
  Change = {b1, s1}
  Read = {l1}
  Bootstraps = {b1}
  Sealed = {s1, l1}
  Sets = {s1}
  Gets = {}
  Lists = {l1}
  Key = {k1, k2}
  NoKey = NoKey
  MaxFaults = 2
SYMMETRY Symmetry
INVARIANT TypeOK
INVARIANT AckedIsOnAQuorum
INVARIANT ReadFailsForCause
CHECK_DEADLOCK FALSE
