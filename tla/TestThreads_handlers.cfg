SPECIFICATION Spec
CONSTANTS
    r1 = r1  r2 = r2  r3 = r3
    n1 = n1  n2 = n2  n3 = n3
    None = None
    Req = {r1, r2}
    Nodes = {n1, n2}
    MaxTests = 2
    Requests <- EveryKind
    Faults = {"create"}
SYMMETRY ReqSymmetry
INVARIANTS
    TypeOK
    EntryOfLiveThread
    RunningIsKillable
    CancelledArgsIntact
    EndedHasVerdict
PROPERTIES
    AnswerMatchesStatus
CHECK_DEADLOCK FALSE
