SPECIFICATION Spec
CONSTANTS
    Agents = {a1, a2}
    Nobody = Nobody
    RingSize = 1
    MaxPackets = 2
PROPERTIES
    AllFinish
CHECK_DEADLOCK FALSE
