SPECIFICATION LiveSpec
CONSTANTS
  None = None
  EndNodes = {1, 2}
  MaxBacking = 2
  Slots = 2
  MaxFaults = 1
  MaxUpsets = 1
  Configs <- TwoConfigs
  MaxNodes = 3
  MaxEvents = 1
  LaunchRetries = 2
  MaxFailures = 2
  MaxMishaps = 1
INVARIANTS TypesOK  ReadyNodeUsable
PROPERTIES RegistrationFits ExactlyRegistered  NothingLeft
CHECK_DEADLOCK FALSE
