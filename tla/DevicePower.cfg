SPECIFICATION Spec
CONSTANTS
  Plans <- SafetyPlans
  S0IdleSettings = {TRUE, FALSE}
CONSTRAINT NoStaleTimeout
CHECK_DEADLOCK FALSE
INVARIANTS TypeOK NoAnswerDropped CallbacksPaired CountIsHolders ReferenceKeepsDeviceUp QueriedDeviceIsUp SleepsPoweredDown
PROPERTIES IdleRefinement CallbackContract
