SPECIFICATION Spec
CONSTANTS
    NUM_REPORT_STRUCTS = 4
    MaxPackets = 9
INVARIANTS
    InOrder
    NoSlotRace
    ReportComplete
    IndInv
PROPERTIES
    WaitEnds
    ImplementsQueue
CHECK_DEADLOCK FALSE
