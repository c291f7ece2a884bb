------------------------------ MODULE MCDaemon ------------------------------
(* An instance of Daemon for TLC. *)
EXTENDS Daemon

CONSTANTS c1, c2, c3
=============================================================================
