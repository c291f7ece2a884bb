SPECIFICATION FairSpec
CONSTANTS
    c1 = c1  c2 = c2  c3 = c3  c4 = c4
    None = None
    Conn = {c1, c2, c3, c4}
    MaxConn = 0
    Faults = {}
INVARIANTS
    TypeOK
    SleepsOnlyWhenServing
    ClientListIsCurrent
    NoClientSpins
PROPERTIES
    GateRefined
    AnyClientAnswered
