SPECIFICATION Spec
CONSTANTS
  Req = {q1, q2}
  Host = host
  Watcher = watcher
  Listeners = {"embed", "host"}
  CtxEnds = TRUE
  DrainTimesOut = TRUE
  MaxCalls = 2
INVARIANT BootTypeOK
INVARIANT UsersGoFirst
INVARIANT FailedBootHoldsNothing
INVARIANT ZapFailsClosed
INVARIANT StopIsIdempotent
INVARIANT FalseNotFoundHasCause
PROPERTY StopsWithItsContext
CHECK_DEADLOCK FALSE
