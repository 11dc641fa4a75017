SPECIFICATION Spec
CONSTANTS
  Node = {n1, n2, n3}
  Threshold = 2
  Change = {s1}
  Read = {g1}
  Bootstraps = {}
  Sealed = {s1, g1}
  Sets = {s1}
  Gets = {g1}
  Lists = {}
  Key = {k1}
  NoKey = NoKey
  MaxFaults = 1
INVARIANT GetFindsWhatWasSet
CHECK_DEADLOCK FALSE
