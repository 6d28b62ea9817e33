SPECIFICATION Spec
CONSTANTS
    p1 = p1
    p2 = p2
    p3 = p3
    p4 = p4
    p5 = p5
    a1 = a1
    a2 = a2
    Packets <- MCPackets
    Arrays <- MCArrays
    LuaArray = LuaArray
    Garbage = Garbage
    MaxInput = 2
SYMMETRY Symmetry
INVARIANTS
    TypeOK
    CollectedExactly
    CountsMatchMarks
    ArrayMemory
