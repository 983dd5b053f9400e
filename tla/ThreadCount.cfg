SPECIFICATION Spec
CONSTANTS
    Sessions = {1, 2}
    MaxSignals = 2
    Configs <- AllConfigs
INVARIANTS
    CountAccurate
    MainExitsLast
PROPERTIES
    ProcessExits
CHECK_DEADLOCK FALSE
