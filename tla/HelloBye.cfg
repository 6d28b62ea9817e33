SPECIFICATION FairSpec
CONSTANTS
    Idents = {i1, i2}
    Cookies = {0, 1}
    None = None
    MaxFaults = 1
    MaxRestarts = 1
    MaxTroubles = 1
CHECK_DEADLOCK FALSE
INVARIANTS
    CookiesAgree
PROPERTIES
    NoRefusal
    EveryConnectionEnds
