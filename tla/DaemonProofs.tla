---------------------------- MODULE DaemonProofs ----------------------------
(***************************************************************************)
(* Theorems about Daemon for any number of clients, any limits and with    *)
(* the faults of reads and accepts.  What ConnectionsProofs proves of      *)
(* Connections holds of the daemon too, because its steps are steps of     *)
(* Connections.                                                            *)
(***************************************************************************)
EXTENDS Daemon, ConnectionsProofs

\* A connection whose command is executed is open and registered; it was made by
\* a client.  A test that has not started, or that is waited for, keeps the thread
\* of its connection where it called exec_test_thread.
TestsHoldThreads ==
    /\ \A c \in InBacklog \cup open : client[c] # "none"
    /\ \A c \in Conn :
          /\ thread[c] = "parse" => c \in open
          /\ thread[c] \notin {"none", "start", "close"} => c \in clients
    /\ \A c \in queued \cup running : client[c] # "none"
    /\ \A c \in queued : thread[c] = "parse"
    /\ \A c \in running : command[c] = "wait" => thread[c] = "parse"

TestTypes ==
    /\ command \in [Conn -> CommandKinds]
    /\ queued \subseteq {c \in Conn : RunsTest(c)}
    /\ running \subseteq {c \in Conn : RunsTest(c)} \ queued
    /\ cancelled \subseteq running
    /\ Cardinality(running) <= MaxTests

TestInv == TestTypes /\ TestsHoldThreads

----------------------------------------------------------------------------
\* Daemon is written with the actions of Connections, so that each of its steps is one
\* of theirs or changes the tests only, and the invariants carry over.
LEMMA DaemonStepsAreConnections == DaemonSpec => Spec
  <1>1. DaemonInit => Init BY DEF DaemonInit
  <1>2. ASSUME [DaemonNext]_daemonVars
        PROVE  [Next]_vars
    <2>1. CASE UNCHANGED daemonVars BY <2>1 DEF daemonVars
    <2>2. CASE DaemonNext
      <3>1. up /\ up' = up BY <2>2 DEF DaemonNext
      <3>2. ASSUME NEW c \in Conn, NEW kind \in CommandKinds, ConnectWith(c, kind)
            PROVE  Next
        BY <3>1, <3>2 DEF ConnectWith, Next
      <3>3. ASSUME NEW c \in Conn, Parse(c)
            PROVE  Next
        BY <3>1, <3>3 DEF Next, Thread
      <3>4. ASSUME NEW c \in Conn, Execute(c)
            PROVE  Next \/ UNCHANGED vars
        BY <3>3, <3>4 DEF Execute, Submit, Begin, Utility
      <3>5. ASSUME NEW c \in Conn, End(c)
            PROVE  Next \/ UNCHANGED vars
        BY <3>3, <3>5 DEF End
      <3>6. ASSUME NEW c \in Conn, Send(c) \/ Interrupt(c) \/ Serve(c)
            PROVE  Next
        BY <3>1, <3>6 DEF Serve, Next, Thread
      <3>7. CASE Acceptor BY <3>1, <3>7 DEF Next
      <3> QED BY <2>2, <3>2, <3>4, <3>5, <3>6, <3>7 DEF DaemonNext
    <2> QED BY <1>2, <2>1, <2>2
  <1> QED BY <1>1, <1>2, PTL DEF DaemonSpec, Spec

\* So every connection of the daemon is in one place, and counted while it is served.
COROLLARY DaemonPlaces == DaemonSpec => []PlaceInv
  BY DaemonStepsAreConnections, PlaceInvariant, PTL

\* Under the hypotheses ConnectionsProofs needs: a connection's thread
\* leaves the client list before its socket is closed.
COROLLARY DaemonListCurrent ==
  ASSUME "accept" \notin Faults
  PROVE  DaemonSpec => []ClientListIsCurrent
  BY DaemonStepsAreConnections, ClientListCurrent, PTL

\* The daemon stops accepting only while it serves more than MaxConn connections,
\* those that wait for a slot included.
COROLLARY DaemonSleepsServing ==
  ASSUME Faults \cap {"read", "accept"} = {}
  PROVE  DaemonSpec => []SleepsOnlyWhenServing
  BY DaemonStepsAreConnections, SleepMeansServing, PTL

\* A client whose test waits for a slot, runs, or is killed, reads its answer
\* before the end of file.
COROLLARY DaemonAnswers ==
  ASSUME Faults \subseteq {"accept"}
  PROVE  DaemonSpec => []NoClientSpins
  BY DaemonStepsAreConnections, ClientsDoNotSpin, PTL

----------------------------------------------------------------------------
(* The steps.                                                              *)

\* The steps of Connections that are not part of a command.
LEMMA ServingKeepsTests ==
  ASSUME PlaceInv, TestInv, up' = up, UNCHANGED testVars,
         Acceptor \/ \E c \in Conn : Send(c) \/ Interrupt(c) \/ Serve(c)
  PROVE  TestInv'
  <1> USE DEF TestInv
  <1>1. TestTypes' BY DEF TestTypes, testVars, RunsTest
  <1>2. TypeOK /\ OnePlace BY DEF PlaceInv
  <1>3. CASE Accept
    <2>1. /\ Head(backlog) \in InBacklog /\ InBacklog' \subseteq InBacklog
          /\ open' = open \cup {Head(backlog)}
      BY <1>2, <1>3, BacklogTail DEF Accept
    <2> QED BY <1>1, <1>3, <2>1 DEF Accept, TestsHoldThreads, testVars
  <1>4. ASSUME Admit \/ SpuriousWakeup \/ \E c \in Conn : AcceptFails(c)
        PROVE  TestInv'
    BY <1>1, <1>4 DEF Admit, SpuriousWakeup, AcceptFails, TestsHoldThreads, testVars, InBacklog
  <1>5. CASE Spawn
    <2>1. newsockfd \in Conn /\ thread[newsockfd] = "none" BY <1>2, <1>5 DEF OnePlace, Spawn
    <2> QED BY <1>1, <1>2, <1>5, <2>1 DEF Spawn, ThreadGoes, TypeOK, TestsHoldThreads, testVars, InBacklog
  <1>6. ASSUME NEW c \in Conn, Send(c) \/ Interrupt(c)
        PROVE  TestInv'
    <2>1. /\ client' = [client EXCEPT ![c] = "waiting"] \/ client' = [client EXCEPT ![c] = "gone"]
          /\ UNCHANGED <<backlog, thread, open, clients>>
      BY <1>6 DEF Send, Interrupt, acceptorVars
    <2>2. \A d \in Conn : client[d] # "none" => client'[d] # "none"
      BY <1>2, <2>1 DEF TypeOK
    <2>3. InBacklog \subseteq Conn /\ open \subseteq Conn /\ InBacklog' = InBacklog
      BY <1>2, <2>1 DEF TypeOK, InBacklog
    <2>4. TestsHoldThreads' BY <2>1, <2>2, <2>3 DEF TestTypes, TestsHoldThreads, testVars
    <2> QED BY <1>1, <2>4
  <1>7. ASSUME NEW c \in Conn, Serve(c)
        PROVE  TestInv'
    <2> USE <1>1, <1>2 DEF ThreadAt, ThreadGoes, acceptorVars, TypeOK, testVars, InBacklog
    <2>1. CASE Start(c)
      BY <2>1 DEF Start, TestsHoldThreads
    <2>2. CASE Read(c)
      BY <2>2 DEF Read, TestTypes, TestsHoldThreads
    <2>3. CASE ReadFails(c)
      BY <2>3 DEF ReadFails, TestTypes, TestsHoldThreads
    <2>4. CASE Answer(c) BY <2>4 DEF Answer, TestsHoldThreads
    <2>5. CASE Release(c) BY <2>5 DEF Release, Signal, TestsHoldThreads
    <2>6. CASE Drain(c) BY <2>6 DEF Drain, TestsHoldThreads
    <2>7. CASE Close(c)
      <3>1. PICK s \in Hangup(client[c]) : client' = [client EXCEPT ![c] = s]
        BY <2>7 DEF Close
      <3>2. client[c] # "none" => s # "none" BY <3>1 DEF Hangup
      <3> QED BY <2>7, <3>1, <3>2 DEF Close, TestsHoldThreads
    <2> QED BY <1>7, <2>1, <2>2, <2>3, <2>4, <2>5, <2>6, <2>7 DEF Serve
  <1> QED BY <1>3, <1>4, <1>5, <1>6, <1>7 DEF Acceptor

LEMMA ConnectKeepsTests ==
  ASSUME PlaceInv, TestInv, NEW c \in Conn, NEW kind \in CommandKinds, ConnectWith(c, kind)
  PROVE  TestInv'
  <1> USE DEF TestInv
  <1>1. TypeOK /\ Connect(c) /\ UNCHANGED <<queued, running, cancelled>>
        /\ command' = [command EXCEPT ![c] = kind]
    BY DEF PlaceInv, ConnectWith
  <1>2. c \notin queued \cup running BY <1>1 DEF Connect, TestsHoldThreads
  <1>3. TestTypes' BY <1>1, <1>2 DEF TestTypes, RunsTest
  <1>4. InBacklog' = InBacklog \cup {c} BY <1>1, BacklogAppend DEF Connect
  <1>5. TestsHoldThreads'
    BY <1>1, <1>2, <1>4 DEF Connect, TypeOK, TestTypes, TestsHoldThreads
  <1> QED BY <1>3, <1>5

\* The end of cmd_parse for one connection touches no thread but its own.
LEMMA ParseKeepsThreads ==
  ASSUME TypeOK, TestTypes, TestsHoldThreads, NEW c \in Conn, Parse(c),
         c \notin queued', command'[c] # "wait" \/ c \notin running',
         queued' \subseteq queued, running' \subseteq running \cup {c},
         \A d \in Conn \ {c} : command'[d] = command[d]
  PROVE  TestsHoldThreads'
  <1>1. /\ thread' = [thread EXCEPT ![c] = "answer"] /\ thread[c] = "parse"
        /\ thread \in [Conn -> ThreadPC]
        /\ UNCHANGED <<backlog, open, clients, client>>
    BY DEF Parse, ThreadAt, ThreadGoes, acceptorVars, TypeOK
  <1>2. InBacklog' = InBacklog /\ client[c] # "none"
    BY <1>1 DEF InBacklog, TestsHoldThreads
  <1>3. queued \subseteq Conn /\ running \subseteq Conn BY DEF TestTypes
  <1> QED BY <1>1, <1>2, <1>3 DEF TestsHoldThreads

LEMMA RunningCard ==
  ASSUME TestTypes
  PROVE  /\ IsFiniteSet(running) /\ Cardinality(running) \in Nat /\ MaxTests \in Nat
         /\ \A S : Tests!Cardinality(S) = Cardinality(S)
  <1>1. running \subseteq Conn BY DEF TestTypes
  <1>2. \A S : Tests!Cardinality(S) = Cardinality(S) BY DEF Tests!Cardinality, Cardinality
  <1> QED BY <1>1, <1>2, ConnectionsAssumption, DaemonAssumption, FS_Subset, FS_CardinalityType

LEMMA SubmitKeepsTests ==
  ASSUME PlaceInv, TestInv, NEW c \in Conn, Submit(c)
  PROVE  TestInv'
  <1> USE DEF TestInv
  <1>1. /\ thread[c] = "parse" /\ RunsTest(c) /\ c \notin queued \cup running
        /\ queued' = queued \cup {c} /\ UNCHANGED running
        /\ UNCHANGED <<backlog, thread, open, clients, client, command, cancelled>>
    BY DEF Submit, ThreadAt, Tests!Arrive, vars, acceptorVars
  <1>2. TestTypes' BY <1>1 DEF TestTypes, RunsTest
  <1>3. TestsHoldThreads' BY <1>1 DEF TestsHoldThreads, InBacklog
  <1> QED BY <1>2, <1>3

LEMMA BeginKeepsTests ==
  ASSUME PlaceInv, TestInv, NEW c \in Conn, Begin(c)
  PROVE  TestInv'
  <1> USE DEF TestInv
  <1>1. /\ c \in queued /\ queued' = queued \ {c} /\ running' = running \cup {c}
        /\ Cardinality(running) < MaxTests
        /\ UNCHANGED <<command, cancelled>>
    BY RunningCard DEF Begin, Tests!Enter
  <1>2. c \notin running /\ RunsTest(c) /\ TypeOK BY <1>1 DEF PlaceInv, TestTypes
  <1>3. Cardinality(running') <= MaxTests
    <2>1. Cardinality(running \cup {c}) = Cardinality(running) + 1
      BY <1>2, RunningCard, FS_AddElement
    <2> QED BY <1>1, <2>1, RunningCard
  <1>4. TestTypes' BY <1>1, <1>2, <1>3 DEF TestTypes, RunsTest
  <1>5. CASE command[c] = "detach"
    <2>1. Parse(c) BY <1>5 DEF Begin
    <2>2. TestsHoldThreads' BY <1>1, <1>2, <1>5, <2>1, ParseKeepsThreads
    <2> QED BY <1>4, <2>2
  <1>6. CASE command[c] # "detach"
    <2>1. UNCHANGED <<backlog, thread, open, clients, client>>
      BY <1>6 DEF Begin, vars, acceptorVars
    <2>2. TestsHoldThreads' BY <1>1, <2>1 DEF TestsHoldThreads, InBacklog
    <2> QED BY <1>4, <2>2
  <1> QED BY <1>5, <1>6

LEMMA EndKeepsTests ==
  ASSUME PlaceInv, TestInv, NEW c \in Conn, End(c)
  PROVE  TestInv'
  <1> USE DEF TestInv
  <1>1. /\ TypeOK /\ c \in running /\ running' = running \ {c} /\ queued' = queued
        /\ cancelled' = cancelled \ {c}
        /\ command' = [command EXCEPT ![c] = "utility"]
    BY DEF PlaceInv, End, Tests!Leave
  <1>2. c \notin queued /\ command \in [Conn -> CommandKinds] BY <1>1 DEF TestTypes
  <1>3. Cardinality(running') <= MaxTests
    <2>1. Cardinality(running \ {c}) = Cardinality(running) - 1
      BY <1>1, RunningCard, FS_RemoveElement
    <2> QED BY <1>1, <2>1, RunningCard DEF TestTypes
  <1>4. TestTypes' BY <1>1, <1>2, <1>3 DEF TestTypes, RunsTest, CommandKinds
  <1>5. CASE command[c] = "wait"
    <2>1. Parse(c) BY <1>5 DEF End
    <2>2. TestsHoldThreads' BY <1>1, <1>2, <2>1, ParseKeepsThreads DEF PlaceInv
    <2> QED BY <1>4, <2>2
  <1>6. CASE command[c] # "wait"
    <2>1. UNCHANGED <<backlog, thread, open, clients, client>>
      BY <1>6 DEF End, vars, acceptorVars
    <2>2. TestsHoldThreads' BY <1>1, <1>2, <2>1 DEF TestsHoldThreads, InBacklog
    <2> QED BY <1>4, <2>2
  <1> QED BY <1>5, <1>6

LEMMA UtilityKeepsTests ==
  ASSUME PlaceInv, TestInv, NEW c \in Conn, Utility(c)
  PROVE  TestInv'
  <1> USE DEF TestInv
  <1>1. /\ command[c] = "utility" /\ Parse(c) /\ UNCHANGED <<command, queued, running>>
        /\ cancelled' \subseteq running
    BY DEF Utility, TestTypes
  <1>2. TestTypes' BY <1>1 DEF TestTypes, RunsTest
  <1>3. c \notin queued BY <1>1 DEF TestTypes, RunsTest
  <1>4. TestsHoldThreads' BY <1>1, <1>3, ParseKeepsThreads DEF PlaceInv
  <1> QED BY <1>2, <1>4

----------------------------------------------------------------------------
THEOREM TestInvariant == DaemonSpec => []TestInv
  <1>1. DaemonInit => TestInv
    <2> SUFFICES ASSUME DaemonInit PROVE TestInv OBVIOUS
    <2>1. queued = {} /\ running = {} BY DEF DaemonInit, Tests!GateInit
    <2>2. Cardinality(running) <= MaxTests BY <2>1, DaemonAssumption, FS_EmptySet
    <2>3. TestTypes BY <2>1, <2>2 DEF DaemonInit, TestTypes, CommandKinds
    <2>4. TestsHoldThreads BY <2>1 DEF DaemonInit, Init, TestsHoldThreads, InBacklog
    <2> QED BY <2>3, <2>4 DEF TestInv
  <1>2. ASSUME PlaceInv, TestInv, [DaemonNext]_daemonVars
        PROVE  TestInv'
    <2>1. CASE UNCHANGED daemonVars
      BY <1>2, <2>1 DEF daemonVars, testVars, vars, acceptorVars, TestInv, TestTypes, TestsHoldThreads,
                        RunsTest, InBacklog
    <2>2. CASE DaemonNext
      <3>1. ASSUME NEW c \in Conn, Execute(c)
            PROVE  TestInv'
        BY <1>2, <3>1, SubmitKeepsTests, BeginKeepsTests, UtilityKeepsTests DEF Execute
      <3>2. ASSUME up' = up, UNCHANGED testVars, Acceptor \/ \E c \in Conn : Send(c) \/ Interrupt(c) \/ Serve(c)
            PROVE  TestInv'
        BY <1>2, <3>2, ServingKeepsTests
      <3> QED BY <1>2, <2>2, <3>1, <3>2, ConnectKeepsTests, EndKeepsTests DEF DaemonNext
    <2> QED BY <1>2, <2>1, <2>2
  <1> QED BY <1>1, <1>2, DaemonPlaces, PTL DEF DaemonSpec

\* The variables of the daemon keep their types, and no more than MaxTests tests run.
THEOREM DaemonTypeCorrect == DaemonSpec => []DaemonTypeOK
  <1>1. PlaceInv /\ TestInv => DaemonTypeOK BY DEF PlaceInv, TestInv, TestTypes, DaemonTypeOK
  <1> QED BY <1>1, DaemonPlaces, TestInvariant, PTL

\* A test that prints to a waiting client has its connection open, registered and
\* counted from its submission to its end, however tests, kills, interrupted clients and
\* the accepting thread interleave.
THEOREM WaitedTestsKeepConnections == DaemonSpec => []WaitedTestHasConnection
  <1>1. TestInv => WaitedTestHasConnection
    <2> SUFFICES ASSUME TestInv, NEW c \in queued \cup running, command[c] = "wait"
                 PROVE  c \in Counted /\ c \in open /\ c \in clients
      BY DEF WaitedTestHasConnection
    <2>1. c \in Conn /\ thread[c] = "parse" BY DEF TestInv, TestTypes, TestsHoldThreads
    <2> QED BY <2>1 DEF TestInv, TestsHoldThreads, Counted, CountedPC
  <1> QED BY <1>1, TestInvariant, PTL

=============================================================================
