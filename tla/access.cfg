SPECIFICATION AccessSpec
CONSTANTS
  Thread = {t1, t2}
  Kid = {k1, k2}
  Usable = {k1, k2}
  Nil = Nil
  TTL = 1
  GetTimeout = 1
  MaxTime = 3
  Requests <- RequestSet
  Issuers = {"iam"}
  Audiences = {"kms"}
SYMMETRY Symmetry
INVARIANT AccessTypeOK
INVARIANT NoWastedFetch
PROPERTY RevocationTakesEffect
PROPERTY RefusedForCause
