SPECIFICATION Spec
CONSTANTS
    m1 = m1
    m2 = m2
    c1 = c1
    c2 = c2
    d1 = d1
    d2 = d2
    d3 = d3
    d4 = d4
    Garbage = Garbage
    Unidentified = Unidentified
    NoState = NoState
    NoConn = NoConn
    NoTimeout = NoTimeout
    Stay = Stay
    Pool = Pool
    Nobody = Nobody
    StateIDs = {"A", "B", "END"}
    Start = "A"
    End = "END"
    SMs = {m1}
    Conns = {c1, c2}
    Listening = {m1}
    Data = {d1, d2, d3}
    InvalidID = 4
    Effects <- WaitEffects
    OpenEffects <- NoEffects
    TimeoutEffects <- NoEffects
    Batches <- Singles
    Removable = {}
    FreshIDs = TRUE
    Asserts = FALSE
    IDsWrap = FALSE
    MaxTime = 2
CHECK_DEADLOCK FALSE
PROPERTIES
    DueTimeoutsRunFirst
