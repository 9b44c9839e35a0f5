SPECIFICATION Spec
CONSTANTS
  Requests = {r1, r2}
  Workers = {w1, w2}
  PowerThread = pnp
  DeferThread = dpc
  NoThread = NoThread
  NoRequest = NoRequest
  Type = "Manual"
  MaxParallel = 1
  PowerManaged = TRUE
  PolicyOwner = TRUE
  HasIoStop = TRUE
  HasCanceledOnQueue = TRUE
  MayDefer = FALSE
  EarlyCancel = TRUE
  Calls = {"Cancel", "Mark", "Retrieve", "Requeue", "Forward", "ReadyNotify", "StopAndPurge", "Start"}
  MaxCalls = 2
  MaxPower = 0
SYMMETRY Symmetric
CHECK_DEADLOCK FALSE
INVARIANTS PowerReferenceTracksIo CountExact OneCancelPath
