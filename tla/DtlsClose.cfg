SPECIFICATION Spec
CONSTANTS
    Idents = {i1, i2}
    Parts = 2
    MaxFaults = 0
CHECK_DEADLOCK FALSE
INVARIANTS
    ClientReads
