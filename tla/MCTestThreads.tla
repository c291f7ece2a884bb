--------------------------- MODULE MCTestThreads ---------------------------
(* Instances of TestThreads for TLC. *)
EXTENDS TestThreads, TLC

CONSTANTS r1, r2, r3, n1, n2, n3

Shape(kind, wait, loops, stop_on_fail, timed) ==
    [kind |-> kind, wait |-> wait, loops |-> loops,
     stop_on_fail |-> stop_on_fail, timed |-> timed]

\* One request per way through the handlers.
WaitingCase    == Shape("case", TRUE, 1, FALSE, FALSE)
CheckedCase    == Shape("case", TRUE, 1, TRUE, TRUE)
DetachedSuite  == Shape("suite", FALSE, 1, FALSE, FALSE)
WaitingGroup   == Shape("group", TRUE, 1, TRUE, FALSE)
DetachedGroup  == Shape("group", FALSE, 1, TRUE, FALSE)
LoopedBinary   == Shape("executable", FALSE, 2, TRUE, FALSE)

EveryKind  == {CheckedCase, DetachedSuite, DetachedGroup, LoopedBinary}
OneRequest == {WaitingCase}
OneGroup   == {WaitingGroup}
WaitOrNot  == {WaitingCase, DetachedSuite}

ReqSymmetry == Permutations(Req) \cup Permutations(Nodes)
=============================================================================
