SPECIFICATION Spec
CONSTANTS
  Plans <- OverflowPlans
  S0IdleSettings = {}
CHECK_DEADLOCK FALSE
INVARIANTS NoEventLost
