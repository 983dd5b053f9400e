SPECIFICATION Spec
CONSTANTS
    a1 = a1
    a2 = a2
    Null = Null
    Agents = {a1, a2}
    Script <- UDPClients
INVARIANTS
    ListIntact
    WalkIsLive
    DataHeaderKept
    NoReportLost
PROPERTIES
    MainExits
CHECK_DEADLOCK FALSE
