--------------------------- MODULE AdmissionGate ---------------------------
(***************************************************************************)
(* What both counters of the daemon promise: of the clients that arrive at *)
(* most Limit hold a place at a time, the others queue, and a client that  *)
(* leaves makes room.  exec_test_thread implements it for tests            *)
(* (module TestThreads), tb_socket_handling for connections                *)
(* (module Connections).                                                   *)
(***************************************************************************)
EXTENDS Naturals, FiniteSets

CONSTANTS
    Client,  \* who wants a place
    Limit    \* how many places there are

VARIABLES
    queued,  \* the clients that wait for a place
    holders  \* the clients that have one

gateVars == <<queued, holders>>

GateInit == queued = {} /\ holders = {}

Arrive(c) ==
    /\ c \notin queued \cup holders
    /\ queued' = queued \cup {c}
    /\ UNCHANGED holders

Enter(c) ==
    /\ c \in queued
    /\ Cardinality(holders) < Limit
    /\ queued'  = queued \ {c}
    /\ holders' = holders \cup {c}

Leave(c) ==
    /\ c \in holders
    /\ holders' = holders \ {c}
    /\ UNCHANGED queued

GateNext == \E c \in Client : Arrive(c) \/ Enter(c) \/ Leave(c)

GateSpec == GateInit /\ [][GateNext]_gateVars
=============================================================================
