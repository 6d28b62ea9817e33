SPECIFICATION Spec
CONSTANTS
    m1 = m1
    m2 = m2
    c1 = c1
    c2 = c2
    d1 = d1
    d2 = d2
    d3 = d3
    d4 = d4
    Garbage = Garbage
    Unidentified = Unidentified
    NoState = NoState
    NoConn = NoConn
    NoTimeout = NoTimeout
    Stay = Stay
    Pool = Pool
    Nobody = Nobody
    StateIDs = {"A", "B", "END"}
    Start = "A"
    End = "END"
    SMs = {m1, m2}
    Conns = {c1, c2}
    Listening = {}
    Data = {d1, d2, d3}
    InvalidID = 1
    Effects <- PlainEffects
    OpenEffects <- PlainOpenEffects
    TimeoutEffects <- NoEffects
    Batches <- Singles
    Removable = {c1, c2}
    FreshIDs = TRUE
    Asserts = TRUE
    IDsWrap = FALSE
    MaxTime = 0
SYMMETRY Symmetry
INVARIANTS
    TypeOK
    SingleOwner
    NoDangling
    NoLeak
    OneStatePerConnection
