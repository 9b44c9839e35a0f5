SPECIFICATION Spec
CONSTANTS
  Requests = {r1, r2}
  Workers = {w1, w2}
  PowerThread = pnp
  DeferThread = dpc
  NoThread = NoThread
  NoRequest = NoRequest
  Type = "Sequential"
  MaxParallel = 1
  PowerManaged = TRUE
  PolicyOwner = TRUE
  HasIoStop = TRUE
  HasCanceledOnQueue = FALSE
  MayDefer = FALSE
  EarlyCancel = FALSE
  Calls = {"Retrieve", "Power"}
  MaxCalls = 0
  MaxPower = 1
SYMMETRY Symmetric
CHECK_DEADLOCK FALSE
INVARIANTS OffMeansAcknowledged
