SPECIFICATION Spec
CONSTANTS
    Interval = 2
    IDs = {0, 1, 2, 3}
    Lens = {1, 2}
    MaxTime = 5
    MaxPackets = 3
CHECK_DEADLOCK FALSE
INVARIANTS LossIdentity IntervalsExact FinalExact
