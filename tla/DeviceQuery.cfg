SPECIFICATION FairSpec
CONSTANTS
  Plans <- QueryPlans
  S0IdleSettings = {}
CHECK_DEADLOCK FALSE
PROPERTIES ManagersAnswered
