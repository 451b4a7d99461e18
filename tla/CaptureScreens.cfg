SPECIFICATION FairSpec
CONSTANTS
  Configs <- MCConfigs
  Conditions = {"low_power_mode"}
  Scenarios <- MCScenarios
INVARIANTS
  
  DeadButtonExplained
PROPERTIES
  NothingSavedWhileStopped
  ShownSettles
