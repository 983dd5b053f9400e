SPECIFICATION Spec
CONSTANTS
    NumChild = 3
    NumRecs = 2
    Tests <- AllTests
    MaxFaults = 1
INVARIANTS
    CapturesBefore
    SomeoneCompletes
    NobodyFails
PROPERTIES
    AllEnds
CHECK_DEADLOCK FALSE
