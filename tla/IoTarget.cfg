SPECIFICATION FairSpec
CONSTANTS
  r1 = r1
  r2 = r2
  Requests = {r1, r2}
  NoRequest = NoRequest
  Plans <- TargetPlans
CHECK_DEADLOCK FALSE
INVARIANTS CompletedOnce AssertionsHold IoCountExact WaitedMeansQuiet DisposedMeansUnused
PROPERTIES OperationsReturn CancelCompletes
