SPECIFICATION Spec
CONSTANTS
    l1 = l1  l2 = l2  l3 = l3  bad = bad
    c1 = c1  c2 = c2  c3 = c3
    n1 = n1  n2 = n2  n3 = n3  n4 = n4
    None = None
    Lib = {l1, bad}
    NoGroup = {bad}
    Call = {c1, c2}
    Nodes = {n1, n2, n3}
    Ops = {"load", "unload"}
    Overlap = {"bad"}
SYMMETRY LibSymmetry
INVARIANTS
    ListedIsLoaded
