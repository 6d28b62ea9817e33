SPECIFICATION Spec
CONSTANTS
    m1 = m1
    m2 = m2
    c1 = c1
    c2 = c2
    d1 = d1
    d2 = d2
    d3 = d3
    d4 = d4
    Garbage = Garbage
    Unidentified = Unidentified
    NoState = NoState
    NoConn = NoConn
    NoTimeout = NoTimeout
    Stay = Stay
    Pool = Pool
    Nobody = Nobody
    StateIDs = {"A", "B", "END"}
    Start = "A"
    End = "END"
    SMs = {m1, m2}
    Conns = {c1}
    Listening = {m2}
    Data = {d1, d2, d3}
    InvalidID = 2
    Effects <- SharingEffects
    OpenEffects <- MoveOrWaitEffects
    TimeoutEffects <- NoEffects
    Batches <- OneOrTwo
    Removable = {}
    FreshIDs = TRUE
    Asserts = FALSE
    IDsWrap = FALSE
    MaxTime = 1
SYMMETRY Symmetry
CHECK_DEADLOCK FALSE
INVARIANTS
    EndStateGone
    FreePktHonoured
    ExtraPktsSent
PROPERTIES
    OwnershipRefined
