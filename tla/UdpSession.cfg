SPECIFICATION Spec
CONSTANTS
    Clients = {c1}
    MaxData = 3
    MaxTries = 2
    MaxLate = 2
INVARIANTS
    TypeOK
    RelayedIsFinal
    OneSession
    Even
PROPERTIES
    FinEnds
CHECK_DEADLOCK FALSE
