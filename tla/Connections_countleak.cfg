SPECIFICATION Spec
CONSTANTS
    c1 = c1  c2 = c2  c3 = c3  c4 = c4
    None = None
    Conn = {c1, c2}
    MaxConn = 0
    Faults = {"read"}
SYMMETRY ConnSymmetry
INVARIANTS
    SleepsOnlyWhenServing
