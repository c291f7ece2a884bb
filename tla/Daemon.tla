------------------------------- MODULE Daemon -------------------------------
(***************************************************************************)
(* The two queues of the daemon together.  A connection holds one of the   *)
(* places of tb_socket_handling (module Connections) while its command is  *)
(* executed, and a command that runs a test waits for one of the slots of  *)
(* exec_test_thread, and for the test's end if the client wants it: one    *)
(* resource is held while another is waited for.                           *)
(*                                                                         *)
(* Here the test slots are an AdmissionGate: TestThreads implements it.  A *)
(* test has the name of the connection that asked for it.  Each client     *)
(* connects once: the action Return of Connections is left out.            *)
(***************************************************************************)
EXTENDS Connections

CONSTANT MaxTests  \* TEST_THREAD_COUNT

ASSUME DaemonAssumption == MaxTests \in Nat \ {0}

VARIABLES
    command,         \* what each client asks for; "utility" once its test has ended
    queued, running, \* tests that wait for a slot, and that have one
    cancelled        \* running tests that are to be cancelled

testVars == <<command, queued, running, cancelled>>
daemonVars == <<vars, testVars>>

\* A test that is waited for, one that is not, and any other command.
CommandKinds == {"wait", "detach", "utility"}

Tests == INSTANCE AdmissionGate WITH
             Client <- Conn, Limit <- MaxTests, queued <- queued, holders <- running

RunsTest(c) == command[c] \in {"wait", "detach"}

DaemonInit ==
    /\ Init /\ Tests!GateInit
    /\ command = [c \in Conn |-> "utility"]
    /\ cancelled = {}

ConnectWith(c, kind) ==
    /\ Connect(c)
    /\ command' = [command EXCEPT ![c] = kind]
    /\ UNCHANGED <<queued, running, cancelled>>

----------------------------------------------------------------------------
(* What cmd_parse does, in the place of the action Parse of Connections.   *)

\* exec_test_thread is called.
Submit(c) ==
    /\ ThreadAt(c, "parse") /\ RunsTest(c)
    /\ Tests!Arrive(c)
    /\ UNCHANGED <<vars, command, cancelled>>

BeginAnswers(c) ==
    /\ Tests!Enter(c)
    /\ Parse(c)
    /\ UNCHANGED <<command, cancelled>>

\* The test starts.  A client that does not wait for it is answered.  That its thread
\* cannot be created is a subject of TestThreads: here it can.
Begin(c) ==
    /\ Tests!Enter(c)
    /\ IF command[c] = "detach" THEN Parse(c) ELSE UNCHANGED vars
    /\ UNCHANGED <<command, cancelled>>

EndKeepsCancelled(c) ==
    /\ Tests!Leave(c)
    /\ IF command[c] = "wait" THEN Parse(c) ELSE UNCHANGED vars
    /\ command' = [command EXCEPT ![c] = "utility"]
    /\ UNCHANGED cancelled

\* The test ends, by itself or cancelled, and with it the wait of its client.
End(c) ==
    /\ Tests!Leave(c)
    /\ IF command[c] = "wait" THEN Parse(c) ELSE UNCHANGED vars
    /\ cancelled' = cancelled \ {c}
    /\ command' = [command EXCEPT ![c] = "utility"]

\* A utility.  One of them is --kill, that has a running test cancelled.
Utility(c) ==
    /\ command[c] = "utility"
    /\ Parse(c)
    /\ \/ \E t \in running : cancelled' = cancelled \cup {t}
       \/ UNCHANGED cancelled
    /\ UNCHANGED <<command, queued, running>>

Execute(c) == Submit(c) \/ Begin(c) \/ Utility(c)

\* Everything else is as in Connections.
Serve(c) == Start(c) \/ Read(c) \/ ReadFails(c) \/ Answer(c) \/ Release(c) \/ Drain(c) \/ Close(c)

DaemonNext ==
    /\ up /\ up' = up
    /\ \/ \E c \in Conn :
            \/ \E kind \in CommandKinds : ConnectWith(c, kind)
            \/ Execute(c)
            \/ End(c)
            \/ (Send(c) \/ Interrupt(c) \/ Serve(c)) /\ UNCHANGED testVars
       \/ Acceptor /\ UNCHANGED testVars

(***************************************************************************)
(* Fairness: the daemon's threads are scheduled, those that wait for a     *)
(* slot by weak fairness only, since newcomers overtake them.  Clients     *)
(* write what they connected for.  A test that is waited for ends when its *)
(* time is up, a cancelled one soon: TimeoutEndsRegistered of TestThreads  *)
(* says so of a test that the status database lists and that reaches       *)
(* cancellation points, and no other test is assumed here.  A detached     *)
(* test has no time limit and may run for ever.                            *)
(***************************************************************************)
DaemonSpec == DaemonInit /\ [][DaemonNext]_daemonVars

DaemonFairness ==
    /\ ThreadFairness
    /\ ClientsWrite
    /\ \A c \in Conn :
          /\ WF_daemonVars(Steady(Execute(c)))
          /\ WF_daemonVars(Steady(End(c) /\ (command[c] = "wait" \/ c \in cancelled)))

DaemonFairSpec == DaemonSpec /\ DaemonFairness

----------------------------------------------------------------------------
(* Properties.                                                             *)

\* The values the variables range over.
DaemonTypeOK ==
    /\ TypeOK
    /\ command \in [Conn -> CommandKinds]
    /\ queued \subseteq {c \in Conn : RunsTest(c)}
    /\ running \subseteq {c \in Conn : RunsTest(c)} \ queued
    /\ cancelled \subseteq running
    /\ Cardinality(running) <= MaxTests

\* A test that is waited for prints to its client: as long as it waits or runs,
\* its connection is open and counted, also when the client has gone.
WaitedTestHasConnection ==
    \A c \in queued \cup running :
        command[c] = "wait" => c \in Counted /\ c \in open /\ c \in clients

\* The queues never wait for each other: every client is answered, or has given up,
\* unless detached tests hold all slots for ever.
Clogged == Cardinality({c \in running : command[c] = "detach"}) = MaxTests
ServesUnlessClogged ==
    (\A c \in Conn : []<>(client[c] \notin Asking)) \/ <>[]Clogged

=============================================================================
