SPECIFICATION FairSpec
CONSTANTS
    Conns = {p1}
    Cookies = {0, 1}
    Address = Address
    None = None
    MaxConnects = 2
    MaxFaults = 2
CHECK_DEADLOCK FALSE
INVARIANTS
    ObjectsFit
    GoodEndsAgree
PROPERTIES
    NetworkDrains
