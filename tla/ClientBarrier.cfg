SPECIFICATION BarrierSpec
CONSTANTS
    Group = {c1, c2, c3, c4}
INVARIANTS
    Synchronized
    BarrierInv
PROPERTIES
    NoneLeftBehind
CHECK_DEADLOCK FALSE
