---------------------------- MODULE Connections ----------------------------
(***************************************************************************)
(* The daemon's connections: dibd/testboxd_sockets.c, with the client      *)
(* dibc/dibc.c at the other end.                                           *)
(*                                                                         *)
(* The main thread accepts connections one at a time (tb_socket_handling). *)
(* It counts each accepted connection before it starts a detached thread   *)
(* for it and sleeps on a condition variable while more than MaxConn are   *)
(* counted.  The thread (tb_socket_th) reads one command, has cmd_parse    *)
(* execute it, sends the answer, gives the count back and closes.          *)
(*                                                                         *)
(* One element of Conn stands for one client and the connection it makes.  *)
(* What a command does is left open here: it may take any time.            *)
(*                                                                         *)
(* The daemon has one client list for these threads and for the worker     *)
(* threads of its tests.  Here are the entries of the connections' threads;*)
(* the workers' entries are in TestThreads.                                *)
(***************************************************************************)
EXTENDS Integers, FiniteSets, Sequences

CONSTANTS
    Conn,     \* clients
    MaxConn,  \* the 100 of tb_socket_handling: more than that and accepting stops
    Faults,   \* what may go wrong around the code, see FaultKinds
    None      \* no connection

\* "read": read fails, as when SIGUSR1 interrupts it (the handlers are installed
\* without SA_RESTART); "accept": accept fails and its -1 is used as a socket;
\* "spawn": no memory or no thread for a new connection.
FaultKinds == {"read", "accept", "spawn"}

ASSUME ConnectionsAssumption ==
    /\ IsFiniteSet(Conn)
    /\ None \notin Conn
    /\ MaxConn \in Nat
    /\ Faults \subseteq FaultKinds

VARIABLES
    up,                \* the daemon process is alive
    connection_count,  \* connections counted
    apc,               \* where the accepting thread stands
    newsockfd,         \* accepting thread: the connection it accepted last
    backlog,           \* connections the kernel holds for accept
    thread,            \* where each connection's thread stands
    open,              \* connections whose socket the daemon has open
    clients,           \* connections whose thread is in the client list
    client             \* what each client does

acceptorVars == <<apc, newsockfd, backlog>>
vars == <<up, connection_count, acceptorVars, thread, open, clients, client>>

AcceptorPC == {"accept", "admit", "asleep", "woken", "spawn"}
ThreadPC   == {"none", "start", "read", "parse", "answer", "release", "drain", "close"}

\* A client has connected, waits for the answer to the command it wrote, has it, has
\* ended without it, or reads an end of file again and again: its loop ends with the
\* last message or an error only.
ClientStates == {"none", "connected", "waiting", "answered", "gone", "spins"}

\* When the daemon closes a connection whose client waits, the client reads an end
\* of file, or an error if its command was still unread.  One that has not written
\* yet gets an error.
Hangup(state) ==
    CASE state = "waiting"   -> {"spins", "gone"}
      [] state = "connected" -> {"gone"}
      [] OTHER               -> {state}

ThreadAt(c, pc)   == thread[c] = pc
ThreadGoes(c, pc) == thread' = [thread EXCEPT ![c] = pc]

InBacklog == {backlog[i] : i \in 1..Len(backlog)}

\* The connections the counter stands for.
CountedPC == {"start", "read", "parse", "answer", "release"}
Counted == {c \in Conn : thread[c] \in CountedPC \/ (apc = "spawn" /\ newsockfd = c)}

\* The connections made and not counted yet.
Arrived == {c \in Conn : c \in InBacklog \/ (apc \in {"admit", "asleep", "woken"} /\ newsockfd = c)}

----------------------------------------------------------------------------
Init ==
    /\ up = TRUE
    /\ connection_count = 0
    /\ apc = "accept"
    /\ newsockfd = None
    /\ backlog = <<>>
    /\ thread = [c \in Conn |-> "none"]
    /\ open = {}
    /\ clients = {}
    /\ client = [c \in Conn |-> "none"]

----------------------------------------------------------------------------
(* The client: main of dibc.c.                                             *)

Connect(c) ==
    /\ client[c] = "none"
    /\ ThreadAt(c, "none") /\ c \notin Arrived \cup Counted
    /\ client' = [client EXCEPT ![c] = "connected"]
    /\ backlog' = Append(backlog, c)
    /\ UNCHANGED <<connection_count, apc, newsockfd, thread, open, clients>>

\* Write the command, in one piece.
Send(c) ==
    /\ client[c] = "connected"
    /\ client' = [client EXCEPT ![c] = "waiting"]
    /\ UNCHANGED <<connection_count, acceptorVars, thread, open, clients>>

\* The user interrupts the client.
Interrupt(c) ==
    /\ client[c] \in {"connected", "waiting", "spins"}
    /\ client' = [client EXCEPT ![c] = "gone"]
    /\ UNCHANGED <<connection_count, acceptorVars, thread, open, clients>>

\* A client that has ended is started again once its connection is gone.
Return(c) ==
    /\ client[c] \in {"answered", "gone"}
    /\ ThreadAt(c, "none") /\ c \notin Arrived \cup Counted
    /\ client' = [client EXCEPT ![c] = "none"]
    /\ UNCHANGED <<connection_count, acceptorVars, thread, open, clients>>

----------------------------------------------------------------------------
(* The accepting thread: tb_socket_handling.                               *)

Accept ==
    /\ apc = "accept" /\ backlog # <<>>
    /\ newsockfd' = Head(backlog)
    /\ backlog' = Tail(backlog)
    /\ open' = open \cup {Head(backlog)}
    /\ apc' = "admit"
    /\ UNCHANGED <<connection_count, thread, clients, client>>

\* The result of accept is not looked at: a failure goes on like a connection.
AcceptFails(c) ==
    /\ "accept" \in Faults
    /\ apc = "accept"
    /\ client[c] = "none" /\ ThreadAt(c, "none") /\ c \notin Arrived \cup Counted
    /\ newsockfd' = c
    /\ apc' = "admit"
    /\ UNCHANGED <<connection_count, backlog, thread, open, clients, client>>

PlaceFreeOffByOne == connection_count <= MaxConn + 1
PlaceFreeTooEarly == connection_count < MaxConn
PlaceFree         == connection_count <= MaxConn

\* With the mutex held: count the connection, or sleep.
Admit ==
    /\ apc \in {"admit", "woken"}
    /\ \/ PlaceFree /\ connection_count' = connection_count + 1 /\ apc' = "spawn"
       \/ ~PlaceFree /\ UNCHANGED connection_count /\ apc' = "asleep"
    /\ UNCHANGED <<newsockfd, backlog, thread, open, clients, client>>

SpuriousWakeup ==
    /\ apc = "asleep"
    /\ apc' = "woken"
    /\ UNCHANGED <<connection_count, newsockfd, backlog, thread, open, clients, client>>

\* Start a detached thread for the connection.
Spawn ==
    /\ apc = "spawn"
    /\ ThreadGoes(newsockfd, "start")
    /\ apc' = "accept"
    /\ newsockfd' = None
    /\ UNCHANGED <<connection_count, backlog, open, clients, client>>

\* No memory or no thread: the loop is left, main returns, and the process ends
\* with all its connections.  What the daemon held is left as it was.
SpawnFails ==
    /\ "spawn" \in Faults
    /\ apc = "spawn"
    /\ up' = FALSE
    /\ client' \in [Conn -> ClientStates]
    /\ \A c \in Conn : client'[c] \in Hangup(client[c])
    /\ UNCHANGED <<connection_count, acceptorVars, thread, open, clients>>

Acceptor == Accept \/ (\E c \in Conn : AcceptFails(c)) \/ Admit \/ SpuriousWakeup \/ Spawn

----------------------------------------------------------------------------
(* The thread of a connection: tb_socket_th.                               *)

Start(c) ==
    /\ ThreadAt(c, "start")
    /\ clients' = clients \cup {c}
    /\ ThreadGoes(c, "read")
    /\ UNCHANGED <<connection_count, acceptorVars, open, client>>

\* The read blocks until the client has written.  A command is read whether or not
\* its sender still waits; nothing is read from one that has gone without writing,
\* and that goes on like a command.
Read(c) ==
    /\ ThreadAt(c, "read") /\ c \in open /\ client[c] # "connected"
    /\ ThreadGoes(c, "parse")
    /\ UNCHANGED <<connection_count, acceptorVars, open, clients, client>>

\* A failed read goes to drain, past the part that gives the count back.  The
\* read of a socket -1 always fails.
ReadFails(c) ==
    /\ ThreadAt(c, "read")
    /\ "read" \in Faults \/ c \notin open
    /\ ThreadGoes(c, "drain")
    /\ UNCHANGED <<connection_count, acceptorVars, open, clients, client>>

ParseSkipsEmptyAnswer(c) ==
    /\ ThreadAt(c, "parse")
    /\ ThreadGoes(c, "answer") \/ ThreadGoes(c, "release")
    /\ UNCHANGED <<connection_count, acceptorVars, open, clients, client>>

\* cmd_parse has executed the command; an empty answer is replaced, not skipped.
Parse(c) ==
    /\ ThreadAt(c, "parse")
    /\ ThreadGoes(c, "answer")
    /\ UNCHANGED <<connection_count, acceptorVars, open, clients, client>>

\* The last message goes to the client; a failure to send is logged.
Answer(c) ==
    /\ ThreadAt(c, "answer")
    /\ client' = [client EXCEPT ![c] = IF @ = "waiting" THEN "answered" ELSE @]
    /\ ThreadGoes(c, "release")
    /\ UNCHANGED <<connection_count, acceptorVars, open, clients>>

NoSignal == UNCHANGED apc
Signal   == IF apc = "asleep" THEN apc' = "woken" ELSE UNCHANGED apc

\* The count is given back before the socket is closed.
Release(c) ==
    /\ ThreadAt(c, "release")
    /\ connection_count' = connection_count - 1
    /\ Signal
    /\ ThreadGoes(c, "drain")
    /\ UNCHANGED <<newsockfd, backlog, open, clients, client>>

DrainReleases(c) ==
    /\ ThreadAt(c, "drain")
    /\ connection_count' = connection_count - 1
    /\ clients' = clients \ {c}
    /\ ThreadGoes(c, "close")
    /\ UNCHANGED <<acceptorVars, open, client>>

DrainClosesFirst(c) ==
    /\ ThreadAt(c, "drain")
    /\ open' = open \ {c}
    /\ \E s \in Hangup(client[c]) : client' = [client EXCEPT ![c] = s]
    /\ ThreadGoes(c, "close")
    /\ UNCHANGED <<connection_count, acceptorVars, clients>>

\* Leave the client list.
Drain(c) ==
    /\ ThreadAt(c, "drain")
    /\ clients' = clients \ {c}
    /\ ThreadGoes(c, "close")
    /\ UNCHANGED <<connection_count, acceptorVars, open, client>>

\* Close the socket, whose number the next accept may get, and end.
Close(c) ==
    /\ ThreadAt(c, "close")
    /\ open' = open \ {c}
    /\ \E s \in Hangup(client[c]) : client' = [client EXCEPT ![c] = s]
    /\ ThreadGoes(c, "none")
    /\ UNCHANGED <<connection_count, acceptorVars, clients>>

Thread(c) ==
    \/ Start(c)
    \/ Read(c)
    \/ ReadFails(c)
    \/ Parse(c)
    \/ Answer(c)
    \/ Release(c)
    \/ Drain(c)
    \/ Close(c)

----------------------------------------------------------------------------
Next ==
    /\ up
    /\ \/ /\ up' = up
          /\ \/ \E c \in Conn : Connect(c) \/ Send(c) \/ Interrupt(c) \/ Return(c) \/ Thread(c)
             \/ Acceptor
       \/ SpawnFails

Spec == Init /\ [][Next]_vars

(***************************************************************************)
(* Fairness: the daemon's threads are scheduled.  Nothing is assumed of    *)
(* faults.  That commands end, and that a client that has connected writes *)
(* its command or goes, is assumed where it is needed: the daemon has no   *)
(* time limit for either, and a connection holds its place meanwhile.      *)
(***************************************************************************)
Steady(A) == up /\ A /\ UNCHANGED up

ThreadFairness ==
    /\ WF_vars(Steady(Accept))
    /\ WF_vars(Steady(Admit))
    /\ WF_vars(Steady(Spawn))
    /\ \A c \in Conn :
          /\ WF_vars(Steady(Start(c)))
          /\ WF_vars(Steady(Read(c) \/ ReadFails(c)))
          /\ WF_vars(Steady(Answer(c)))
          /\ WF_vars(Steady(Release(c)))
          /\ WF_vars(Steady(Drain(c)))
          /\ WF_vars(Steady(Close(c)))

CommandsEnd == \A c \in Conn : WF_vars(Steady(Parse(c)))

\* dibc has nothing to wait for between the two.
ClientsWrite == \A c \in Conn : WF_vars(Steady(Send(c)))

FairSpec == Spec /\ ThreadFairness /\ CommandsEnd /\ ClientsWrite

----------------------------------------------------------------------------
(* Properties.                                                             *)

\* The values the variables range over; the counter exceeds MaxConn by at most
\* the one connection that is tested for.
TypeOK ==
    /\ up \in BOOLEAN
    /\ connection_count \in 0..(MaxConn + 1)
    /\ apc \in AcceptorPC
    /\ newsockfd \in Conn \cup {None}
    /\ backlog \in Seq(Conn)
    /\ thread \in [Conn -> ThreadPC]
    /\ open \subseteq Conn
    /\ clients \subseteq Conn
    /\ client \in [Conn -> ClientStates]

\* No connection is served uncounted, also when reads and accepts fail.
CountCoversServed == Cardinality(Counted) <= connection_count

\* The accepting thread is never left asleep with a place free.
SleepsOnlyWhenCountFull == apc = "asleep" => connection_count > MaxConn

\* The accepting thread sleeps only because that many connections are served
\* ("More than 100 connections at the same time. Waiting in queue!").
SleepsOnlyWhenServing == apc = "asleep" => Cardinality(Counted) > MaxConn

\* An entry that a connection's thread has in the client list is gone before its
\* socket is closed and its number can be used again, so that what such a thread
\* prints never goes to another client.
ClientListIsCurrent ==
    \A c \in clients : c \in open /\ thread[c] \in CountedPC \cup {"drain"}

\* A connection is closed only after its client was answered or has gone, so
\* that no client reads an end of file.
NoClientSpins == \A c \in Conn : client[c] # "spins"

\* What AdmissionGate promises of connections.
Gate == INSTANCE AdmissionGate WITH
            Client <- Conn, Limit <- MaxConn + 1, queued <- Arrived, holders <- Counted
GateRefined == Gate!GateSpec

\* A client that connects is answered, unless it gives up: the accepting thread
\* wakes up, gets through the backlog in order and each command is executed.
Asking == {"connected", "waiting"}
ClientAnswered(c) == client[c] \in Asking ~> client[c] \notin Asking

=============================================================================
