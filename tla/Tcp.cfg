SPECIFICATION Spec
CONSTANTS
    MSS = 2
    SynLen = 2
    MaxData = 4
    Sizes = {1, 2}
    Windows = {0, 4}
    Options = {0}
    MaxFaults = 2
CHECK_DEADLOCK FALSE
INVARIANTS
    TypeOK
    EchoIsPrefix
    TakenWasSent
    BytesHeldOnce
    CalmNoReset
PROPERTIES
    EchoComes
