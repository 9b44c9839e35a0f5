SPECIFICATION Spec
CONSTANTS
  Requests = {r1, r2, r3, r4}
  Workers = {w1, w2}
  PowerThread = pnp
  DeferThread = dpc
  NoThread = NoThread
  NoRequest = NoRequest
  Type = "Sequential"
  MaxParallel = 1
  PowerManaged = FALSE
  PolicyOwner = FALSE
  HasIoStop = FALSE
  HasCanceledOnQueue = FALSE
  MayDefer = FALSE
  EarlyCancel = TRUE
  Calls = {"Cancel"}
  MaxCalls = 0
  MaxPower = 0
SYMMETRY Symmetric
CHECK_DEADLOCK FALSE
INVARIANTS PresentedBound
