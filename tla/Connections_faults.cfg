SPECIFICATION Spec
CONSTANTS
    c1 = c1  c2 = c2  c3 = c3  c4 = c4
    None = None
    Conn = {c1, c2, c3}
    MaxConn = 1
    Faults = {"read", "accept", "spawn"}
SYMMETRY ConnSymmetry
INVARIANTS
    CountCoversServed
    SleepsOnlyWhenCountFull
PROPERTIES
    GateRefined
CHECK_DEADLOCK FALSE
