SPECIFICATION FairSpec
CONSTANTS
  Plans <- LivePlans
  S0IdleSettings = {}
CHECK_DEADLOCK FALSE
PROPERTIES ManagersAnswered WaiterReleased ReferencePowersUp IdleDevicePowersDown
