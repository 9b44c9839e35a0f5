SPECIFICATION FrameworkSpec
CONSTANTS
  Requests = {r1, r2}
  Workers = {w1, w2}
  PowerThread = pnp
  DeferThread = dpc
  NoThread = NoThread
  NoRequest = NoRequest
  Type = "Sequential"
  MaxParallel = 1
  PowerManaged = TRUE
  PolicyOwner = TRUE
  HasIoStop = TRUE
  HasCanceledOnQueue = FALSE
  MayDefer = FALSE
  EarlyCancel = FALSE
  Calls = {"Cancel", "Mark", "Power"}
  MaxCalls = 0
  MaxPower = 1
CHECK_DEADLOCK FALSE

PROPERTIES TransitionStarts CancelDelivered PowerDownEnds EveryRequestCompletes
