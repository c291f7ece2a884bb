--------------------------- MODULE MCLibRegistry ---------------------------
(* Instances of LibRegistry for TLC. *)
EXTENDS LibRegistry, TLC

CONSTANTS l1, l2, l3, bad, c1, c2, c3, n1, n2, n3, n4

LibSymmetry == Permutations(Lib \ NoGroup) \cup Permutations(Call) \cup Permutations(Nodes)
=============================================================================
