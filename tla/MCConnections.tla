--------------------------- MODULE MCConnections ---------------------------
(* Instances of Connections for TLC. *)
EXTENDS Connections, TLC

CONSTANTS c1, c2, c3, c4

ConnSymmetry == Permutations(Conn)

\* Whatever the others do, the client c1 is answered once it has connected, unless it
\* gives up; no client differs from another.
AnyClientAnswered == ClientAnswered(c1)
=============================================================================
