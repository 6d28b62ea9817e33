SPECIFICATION Spec
CONSTANTS
    Idents = {i1, i2}
    Parts = 2
    MaxFaults = 2
CHECK_DEADLOCK FALSE
INVARIANTS
    TypeOK
    EstablishedTogether
    ForgottenAfterEcho
PROPERTIES
    EchoArrives
    ServerForgets
