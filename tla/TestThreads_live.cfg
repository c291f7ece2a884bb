SPECIFICATION FairSpec
CONSTANTS
    r1 = r1  r2 = r2  r3 = r3
    n1 = n1  n2 = n2  n3 = n3
    None = None
    Req = {r1, r2}
    Nodes = {n1, n2}
    MaxTests = 1
    Requests <- OneRequest
    Faults = {}
PROPERTIES
    QueueDrains
    TimeoutEndsRegistered
    GateRefined
