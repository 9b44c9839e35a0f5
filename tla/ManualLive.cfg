SPECIFICATION ManualSpec
CONSTANTS
  Requests = {r1, r2}
  Workers = {w1, w2}
  PowerThread = pnp
  DeferThread = dpc
  NoThread = NoThread
  NoRequest = NoRequest
  Type = "Manual"
  MaxParallel = 1
  PowerManaged = TRUE
  PolicyOwner = TRUE
  HasIoStop = TRUE
  HasCanceledOnQueue = FALSE
  MayDefer = FALSE
  EarlyCancel = FALSE
  Calls = {"Cancel", "Retrieve", "ReadyNotify", "Power"}
  MaxCalls = 1
  MaxPower = 1
CHECK_DEADLOCK FALSE

PROPERTIES ReadyNotLost
