SPECIFICATION Spec
CONSTANTS
  Req = {r1, r2, r3, r4}
  Syncer = {s1}
  Nil = Nil
  Cap = 2
  MaxFaults = 1
  MayCancel = TRUE
  MayNotOpen = TRUE
INVARIANT TypeOK
INVARIANT EveryEntryIsAccounted
INVARIANT SyncWaitsForAllBefore
PROPERTY EverythingIsFlushed
CHECK_DEADLOCK FALSE
