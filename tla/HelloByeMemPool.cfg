SPECIFICATION MemSpec
CONSTANTS
    Idents = {i1, i2}
    Cookies = {0, 1}
    None = None
    Objects = {o1}
    MaxFaults = 2
    MaxRestarts = 1
    MaxTroubles = 3
CHECK_DEADLOCK FALSE
INVARIANTS
    MemTypeOK
    ClientEndHasServerEnd
    ServerEndIsProved
    ObjectsExclusive
    NoObjectLost
