SPECIFICATION FrameworkSpec
CONSTANTS
  Requests = {r1, r2}
  Workers = {w1, w2}
  PowerThread = pnp
  DeferThread = dpc
  NoThread = NoThread
  NoRequest = NoRequest
  Type = "Parallel"
  MaxParallel = 1
  PowerManaged = FALSE
  PolicyOwner = FALSE
  HasIoStop = TRUE
  HasCanceledOnQueue = FALSE
  MayDefer = TRUE
  EarlyCancel = FALSE
  Calls = {"Mark", "Purge", "Drain", "Stop", "Dispose"}
  MaxCalls = 1
  MaxPower = 0
CHECK_DEADLOCK FALSE

INVARIANTS DeletedMeansEmpty
PROPERTIES PurgeCompletes IdleCompletes DisposeReturns
