SPECIFICATION DaemonFairSpec
CONSTANTS
    c1 = c1  c2 = c2  c3 = c3
    None = None
    Conn = {c1, c2, c3}
    MaxConn = 1
    MaxTests = 1
    Faults = {}
INVARIANTS
    DaemonTypeOK
    WaitedTestHasConnection
PROPERTIES
    ServesUnlessClogged
CHECK_DEADLOCK FALSE
