SPECIFICATION Spec
CONSTANTS
    NumConns = 3
    NumSds = 2
    NumCalls = 2
    Bursts = {1, 3}
    Cap = 1
    MaxFaults = 1
INVARIANTS
    TablesAgree
    Interest
    RepliesMatch
PROPERTIES
    TestEnds
CHECK_DEADLOCK FALSE
