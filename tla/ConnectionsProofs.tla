------------------------- MODULE ConnectionsProofs -------------------------
(***************************************************************************)
(* Theorems about Connections for any number of clients and any limit, and *)
(* with every fault but for those that a theorem excludes.                 *)
(***************************************************************************)
EXTENDS Connections, TLAPS, FiniteSetTheorems

\* A connection is in one place: in the backlog at most once, in the hands of
\* the accepting thread, or with a thread of its own.
OnePlace ==
    /\ apc # "accept" =>
          newsockfd \in Conn /\ thread[newsockfd] = "none" /\ newsockfd \notin InBacklog
    /\ \A c \in InBacklog : thread[c] = "none"
    /\ \A i, j \in 1..Len(backlog) : backlog[i] = backlog[j] => i = j

PlaceInv == TypeOK /\ OnePlace /\ CountCoversServed /\ SleepsOnlyWhenCountFull

----------------------------------------------------------------------------
(* The backlog.                                                            *)

\* Connecting adds the connection to the end of the backlog.
LEMMA BacklogAppend ==
  ASSUME TypeOK, NEW c \in Conn, backlog' = Append(backlog, c)
  PROVE  /\ InBacklog' = InBacklog \cup {c} /\ backlog' \in Seq(Conn)
         /\ OnePlace /\ c \notin InBacklog =>
              \A i, j \in 1..Len(backlog') : backlog'[i] = backlog'[j] => i = j
  <1>1. backlog \in Seq(Conn) BY DEF TypeOK
  <1>2. /\ backlog' \in Seq(Conn) /\ Len(backlog') = Len(backlog) + 1 /\ Len(backlog) \in Nat
        /\ \A i \in 1..Len(backlog) : backlog'[i] = backlog[i]
        /\ backlog'[Len(backlog) + 1] = c
    BY <1>1
  <1>3. InBacklog' = InBacklog \cup {c} BY <1>2 DEF InBacklog
  <1>4. ASSUME OnePlace, c \notin InBacklog, NEW i \in 1..Len(backlog'), NEW j \in 1..Len(backlog'),
               backlog'[i] = backlog'[j]
        PROVE  i = j
    BY <1>2, <1>4 DEF OnePlace, InBacklog
  <1> QED BY <1>2, <1>3, <1>4

\* Accepting takes the first connection out of the backlog.
LEMMA BacklogTail ==
  ASSUME TypeOK, OnePlace, backlog # <<>>, backlog' = Tail(backlog)
  PROVE  /\ Head(backlog) \in Conn /\ backlog' \in Seq(Conn)
         /\ Head(backlog) \in InBacklog
         /\ InBacklog' = InBacklog \ {Head(backlog)}
         /\ \A i, j \in 1..Len(backlog') : backlog'[i] = backlog'[j] => i = j
  <1>1. backlog \in Seq(Conn) BY DEF TypeOK
  <1>2. /\ backlog' \in Seq(Conn) /\ Len(backlog) \in Nat /\ Len(backlog) >= 1
        /\ Len(backlog') = Len(backlog) - 1 /\ Head(backlog) = backlog[1]
        /\ \A i \in 1..Len(backlog') : backlog'[i] = backlog[i + 1]
    BY <1>1
  <1>3. Head(backlog) \in Conn /\ Head(backlog) \in InBacklog BY <1>1, <1>2 DEF InBacklog
  <1>4. \A i \in 1..Len(backlog) : (backlog[i] = Head(backlog)) <=> (i = 1)
    BY <1>2 DEF OnePlace
  <1>5. InBacklog' \subseteq InBacklog \ {Head(backlog)}
    BY <1>2, <1>4 DEF InBacklog
  <1>6. ASSUME NEW c \in InBacklog, c # Head(backlog)
        PROVE  c \in InBacklog'
    <2>1. PICK i \in 1..Len(backlog) : c = backlog[i] BY <1>6 DEF InBacklog
    <2>2. i - 1 \in 1..Len(backlog') /\ backlog'[i - 1] = c BY <1>2, <1>6, <2>1
    <2> QED BY <2>2 DEF InBacklog
  <1>7. \A i, j \in 1..Len(backlog') : backlog'[i] = backlog'[j] => i = j
    BY <1>2 DEF OnePlace
  <1> QED BY <1>2, <1>3, <1>5, <1>6, <1>7

LEMMA CountedFinite == /\ IsFiniteSet(Counted) /\ Cardinality(Counted) \in Nat
                       /\ IsFiniteSet(Counted') /\ Cardinality(Counted') \in Nat
  <1>1. Counted \subseteq Conn /\ Counted' \subseteq Conn BY DEF Counted
  <1> QED BY <1>1, ConnectionsAssumption, FS_Subset, FS_CardinalityType

----------------------------------------------------------------------------
(* The steps.                                                              *)

\* How a step moves connections and the counter: it moves none, or one arrives;
\* one is counted below the limit; one whose read fails stays counted; one
\* leaves the counter.
PlacesMove ==
    \/ /\ Counted' = Counted /\ connection_count' = connection_count
       /\ \/ Arrived' = Arrived
          \/ \E c \in Conn : c \notin Arrived \cup Counted /\ Arrived' = Arrived \cup {c}
    \/ \E c \in Arrived : /\ Arrived' = Arrived \ {c} /\ Counted' = Counted \cup {c}
                          /\ connection_count <= MaxConn
                          /\ connection_count' = connection_count + 1
    \/ \E c \in Counted : /\ Counted' = Counted \ {c} /\ Arrived' = Arrived
                          /\ \/ /\ connection_count' = connection_count
                                /\ "read" \in Faults \/ c \notin open
                             \/ connection_count' = connection_count - 1

\* A step of a client.
LEMMA ClientStep ==
  ASSUME PlaceInv, NEW c \in Conn, Connect(c) \/ Send(c) \/ Interrupt(c) \/ Return(c), up' = up
  PROVE  TypeOK' /\ OnePlace' /\ PlacesMove /\ SleepsOnlyWhenCountFull'
  <1> TypeOK /\ OnePlace /\ SleepsOnlyWhenCountFull BY DEF PlaceInv
  <1>1. CASE Connect(c)
    <2>1. /\ backlog' = Append(backlog, c) /\ thread[c] = "none" /\ c \notin Arrived \cup Counted
          /\ client' = [client EXCEPT ![c] = "connected"]
          /\ UNCHANGED <<connection_count, apc, newsockfd, thread, open, clients>>
      BY <1>1 DEF Connect, ThreadAt
    <2>2. c \notin InBacklog /\ InBacklog \subseteq Conn BY <2>1 DEF Arrived, InBacklog, TypeOK
    <2>3. /\ InBacklog' = InBacklog \cup {c} /\ backlog' \in Seq(Conn)
          /\ \A i, j \in 1..Len(backlog') : backlog'[i] = backlog'[j] => i = j
      BY <2>1, <2>2, BacklogAppend
    <2>4. apc # "accept" => newsockfd # c
      BY <2>1 DEF Arrived, Counted, TypeOK, AcceptorPC
    <2>5. TypeOK' BY <2>1, <2>3 DEF TypeOK, ClientStates
    <2>6. OnePlace' BY <2>1, <2>3, <2>4 DEF OnePlace
    <2>7. Counted' = Counted /\ Arrived' = Arrived \cup {c} BY <2>1, <2>3 DEF Counted, Arrived
    <2> QED BY <2>1, <2>5, <2>6, <2>7 DEF PlacesMove, SleepsOnlyWhenCountFull
  <1>2. CASE Send(c) \/ Interrupt(c) \/ Return(c)
    <2>1. /\ UNCHANGED <<connection_count, acceptorVars, thread, open, clients>>
          /\ client' \in [Conn -> ClientStates]
      BY <1>2 DEF Send, Interrupt, Return, TypeOK, ClientStates
    <2> QED BY <2>1 DEF acceptorVars, TypeOK, OnePlace, PlacesMove, Counted, Arrived,
                        InBacklog, SleepsOnlyWhenCountFull
  <1> QED BY <1>1, <1>2

\* A step of the accepting thread.
LEMMA AcceptorStep ==
  ASSUME PlaceInv, Acceptor, up' = up
  PROVE  TypeOK' /\ OnePlace' /\ PlacesMove /\ SleepsOnlyWhenCountFull'
  <1> TypeOK /\ OnePlace /\ SleepsOnlyWhenCountFull BY DEF PlaceInv
  <1> InBacklog \subseteq Conn BY DEF InBacklog, TypeOK
  <1>1. CASE Accept
    <2>1. /\ apc = "accept" /\ apc' = "admit" /\ backlog # <<>>
          /\ newsockfd' = Head(backlog) /\ backlog' = Tail(backlog)
          /\ open' = open \cup {Head(backlog)}
          /\ UNCHANGED <<connection_count, thread, clients, client>>
      BY <1>1 DEF Accept
    <2>2. /\ Head(backlog) \in Conn /\ backlog' \in Seq(Conn) /\ Head(backlog) \in InBacklog
          /\ InBacklog' = InBacklog \ {Head(backlog)}
          /\ \A i, j \in 1..Len(backlog') : backlog'[i] = backlog'[j] => i = j
      BY <2>1, BacklogTail
    <2>3. TypeOK' BY <2>1, <2>2 DEF TypeOK, AcceptorPC
    <2>4. OnePlace' BY <2>1, <2>2 DEF OnePlace
    <2>5. Counted' = Counted /\ Arrived' = Arrived BY <2>1, <2>2 DEF Counted, Arrived
    <2> QED BY <2>1, <2>3, <2>4, <2>5 DEF PlacesMove, SleepsOnlyWhenCountFull
  <1>2. ASSUME NEW c \in Conn, AcceptFails(c)
        PROVE  TypeOK' /\ OnePlace' /\ PlacesMove /\ SleepsOnlyWhenCountFull'
    <2>1. /\ apc = "accept" /\ apc' = "admit" /\ newsockfd' = c /\ thread[c] = "none"
          /\ c \notin Arrived \cup Counted
          /\ UNCHANGED <<connection_count, backlog, thread, open, clients, client>>
      BY <1>2 DEF AcceptFails, ThreadAt
    <2>2. InBacklog' = InBacklog /\ c \notin InBacklog BY <2>1 DEF InBacklog, Arrived
    <2>3. TypeOK' BY <2>1 DEF TypeOK, AcceptorPC
    <2>4. OnePlace' BY <2>1, <2>2 DEF OnePlace
    <2>5. Counted' = Counted /\ Arrived' = Arrived \cup {c} BY <2>1, <2>2 DEF Counted, Arrived
    <2> QED BY <2>1, <2>3, <2>4, <2>5 DEF PlacesMove, SleepsOnlyWhenCountFull
  <1>3. CASE Admit
    <2>1. /\ apc \in {"admit", "woken"} /\ newsockfd \in Conn /\ newsockfd \notin InBacklog
          /\ UNCHANGED <<newsockfd, backlog, thread, open, clients, client>>
          /\ connection_count \in 0..(MaxConn + 1) /\ MaxConn \in Nat
      BY <1>3, ConnectionsAssumption DEF Admit, OnePlace, TypeOK
    <2>2. InBacklog' = InBacklog BY <2>1 DEF InBacklog
    <2>3. CASE PlaceFree /\ connection_count' = connection_count + 1 /\ apc' = "spawn"
      <3>1. connection_count <= MaxConn BY <2>3 DEF PlaceFree
      <3>2. TypeOK' BY <2>1, <2>3, <3>1 DEF TypeOK, AcceptorPC
      <3>3. OnePlace' BY <2>1, <2>2, <2>3 DEF OnePlace
      <3>4. /\ newsockfd \in Arrived /\ Arrived' = Arrived \ {newsockfd}
            /\ Counted' = Counted \cup {newsockfd}
        BY <2>1, <2>2, <2>3 DEF Arrived, Counted
      <3> QED BY <2>3, <3>1, <3>2, <3>3, <3>4 DEF PlacesMove, SleepsOnlyWhenCountFull
    <2>4. CASE ~PlaceFree /\ UNCHANGED connection_count /\ apc' = "asleep"
      <3>1. connection_count' > MaxConn BY <2>1, <2>4 DEF PlaceFree
      <3>2. TypeOK' BY <2>1, <2>4 DEF TypeOK, AcceptorPC
      <3>3. OnePlace' BY <2>1, <2>2, <2>4 DEF OnePlace
      <3>4. Arrived' = Arrived /\ Counted' = Counted BY <2>1, <2>2, <2>4 DEF Arrived, Counted
      <3>5. SleepsOnlyWhenCountFull' BY <3>1 DEF SleepsOnlyWhenCountFull
      <3> QED BY <2>4, <3>2, <3>3, <3>4, <3>5 DEF PlacesMove
    <2> QED BY <1>3, <2>3, <2>4 DEF Admit
  <1>4. CASE SpuriousWakeup
    BY <1>4 DEF SpuriousWakeup, TypeOK, AcceptorPC, OnePlace, InBacklog, PlacesMove, Counted,
                Arrived, SleepsOnlyWhenCountFull
  <1>5. CASE Spawn
    <2>1. /\ apc = "spawn" /\ newsockfd \in Conn /\ newsockfd \notin InBacklog
          /\ thread' = [thread EXCEPT ![newsockfd] = "start"]
          /\ apc' = "accept" /\ newsockfd' = None
          /\ UNCHANGED <<connection_count, backlog, open, clients, client>>
      BY <1>5 DEF Spawn, OnePlace, ThreadGoes
    <2>2. InBacklog' = InBacklog BY <2>1 DEF InBacklog
    <2>3. TypeOK' BY <2>1 DEF TypeOK, AcceptorPC, ThreadPC
    <2>4. OnePlace' BY <2>1, <2>2 DEF OnePlace, TypeOK
    <2>5. Arrived' = Arrived BY <2>1, <2>2 DEF Arrived
    <2>6. Counted' = Counted BY <2>1 DEF Counted, CountedPC, TypeOK
    <2> QED BY <2>1, <2>3, <2>4, <2>5, <2>6 DEF PlacesMove, SleepsOnlyWhenCountFull
  <1> QED BY <1>1, <1>2, <1>3, <1>4, <1>5 DEF Acceptor

\* A step of the thread of a connection.
LEMMA ThreadStep ==
  ASSUME PlaceInv, NEW c \in Conn, Thread(c), up' = up
  PROVE  TypeOK' /\ OnePlace' /\ PlacesMove /\ SleepsOnlyWhenCountFull'
  <1> TypeOK /\ OnePlace /\ CountCoversServed /\ SleepsOnlyWhenCountFull BY DEF PlaceInv
  <1> USE DEF ThreadAt, ThreadGoes
  <1>1. /\ thread[c] # "none" /\ UNCHANGED <<newsockfd, backlog>>
        /\ thread' \in [Conn -> ThreadPC]
        /\ \A d \in Conn \ {c} : thread'[d] = thread[d]
    BY DEF Thread, Start, Read, ReadFails, Parse, Answer, Release, Drain, Close,
           acceptorVars, TypeOK, ThreadPC
  <1>2. InBacklog' = InBacklog BY <1>1 DEF InBacklog
  <1>3. /\ open' \subseteq Conn /\ clients' \subseteq Conn
        /\ client' \in [Conn -> ClientStates]
    BY DEF Thread, Start, Read, ReadFails, Parse, Answer, Release, Drain, Close, Hangup,
           TypeOK, ClientStates
  <1>4. c \notin InBacklog /\ (apc # "accept" => newsockfd # c) BY <1>1 DEF OnePlace
  <1>5. CASE Release(c)
    <2>1. /\ thread[c] = "release" /\ thread' = [thread EXCEPT ![c] = "drain"]
          /\ connection_count' = connection_count - 1
          /\ apc' = IF apc = "asleep" THEN "woken" ELSE apc
      BY <1>5 DEF Release, Signal
    <2>2. c \in Counted BY <2>1 DEF Counted, CountedPC
    <2>3. Counted' = Counted \ {c}
      BY <1>1, <1>4, <2>1 DEF Counted, CountedPC, TypeOK, AcceptorPC
    <2>4. Arrived' = Arrived BY <1>1, <1>2, <2>1 DEF Arrived
    <2>5. Cardinality(Counted) # 0 BY <2>2, CountedFinite, FS_EmptySet
    <2>6. connection_count' \in 0..(MaxConn + 1)
      BY <2>1, <2>5, CountedFinite, ConnectionsAssumption DEF CountCoversServed, TypeOK
    <2>7. TypeOK' BY <1>1, <1>3, <2>1, <2>6, <1>5 DEF TypeOK, AcceptorPC
    <2>8. OnePlace' BY <1>1, <1>2, <1>4, <2>1 DEF OnePlace, AcceptorPC, TypeOK
    <2>9. SleepsOnlyWhenCountFull' BY <2>1 DEF SleepsOnlyWhenCountFull
    <2> QED BY <2>1, <2>2, <2>3, <2>4, <2>7, <2>8, <2>9 DEF PlacesMove
  <1>6. CASE ~Release(c)
    <2>1. apc' = apc /\ connection_count' = connection_count
      BY <1>6 DEF Thread, Start, Read, ReadFails, Parse, Answer, Drain, Close, acceptorVars
    <2>2. TypeOK' BY <1>1, <1>3, <2>1 DEF TypeOK
    <2>3. OnePlace' BY <1>1, <1>2, <1>4, <2>1 DEF OnePlace, InBacklog, TypeOK
    <2>4. Arrived' = Arrived BY <1>1, <1>2, <2>1 DEF Arrived
    <2>5. SleepsOnlyWhenCountFull' BY <2>1 DEF SleepsOnlyWhenCountFull
    <2>6. CASE ReadFails(c)
      <3>1. /\ thread[c] = "read" /\ thread'[c] = "drain"
            /\ "read" \in Faults \/ c \notin open
        BY <2>6 DEF ReadFails, TypeOK
      <3>2. c \in Counted /\ Counted' = Counted \ {c}
        BY <1>1, <1>4, <2>1, <3>1 DEF Counted, CountedPC
      <3> QED BY <2>1, <2>2, <2>3, <2>4, <2>5, <3>1, <3>2 DEF PlacesMove
    <2>7. CASE ~ReadFails(c)
      <3>1. (thread'[c] \in CountedPC) <=> (thread[c] \in CountedPC)
        BY <1>6, <2>7 DEF Thread, Start, Read, Parse, Answer, Drain, Close, CountedPC, TypeOK
      <3>2. Counted' = Counted BY <1>1, <2>1, <3>1 DEF Counted
      <3> QED BY <2>1, <2>2, <2>3, <2>4, <2>5, <3>2 DEF PlacesMove
    <2> QED BY <2>6, <2>7
  <1> QED BY <1>5, <1>6

\* The process ends.
LEMMA SpawnFailsStep ==
  ASSUME PlaceInv, SpawnFails
  PROVE  TypeOK' /\ OnePlace' /\ PlacesMove /\ SleepsOnlyWhenCountFull'
  <1>1. /\ up' = FALSE /\ client' \in [Conn -> ClientStates]
        /\ UNCHANGED <<connection_count, apc, newsockfd, backlog, thread, open, clients>>
    BY DEF SpawnFails, acceptorVars
  <1>2. TypeOK' BY <1>1 DEF PlaceInv, TypeOK
  <1>3. OnePlace' /\ SleepsOnlyWhenCountFull'
    BY <1>1 DEF PlaceInv, OnePlace, InBacklog, SleepsOnlyWhenCountFull
  <1>4. PlacesMove BY <1>1 DEF PlacesMove, Counted, Arrived, InBacklog
  <1> QED BY <1>2, <1>3, <1>4

\* Every step, for the theorems below.
LEMMA PlaceStep ==
  ASSUME PlaceInv, Next
  PROVE  TypeOK' /\ OnePlace' /\ PlacesMove /\ SleepsOnlyWhenCountFull'
  BY ClientStep, AcceptorStep, ThreadStep, SpawnFailsStep DEF Next

\* The counter moves with the connections or stays behind them.
LEMMA CountStep ==
  ASSUME PlaceInv, Next
  PROVE  CountCoversServed'
  <1> DEFINE card == Cardinality(Counted)
  <1>1. /\ IsFiniteSet(Counted) /\ card \in Nat /\ Cardinality(Counted') \in Nat
        /\ card <= connection_count /\ connection_count \in Nat
        /\ Arrived \subseteq Conn
    BY CountedFinite DEF PlaceInv, CountCoversServed, TypeOK, Arrived
  <1>2. CASE Counted' = Counted /\ connection_count' = connection_count
    BY <1>1, <1>2 DEF CountCoversServed
  <1>3. ASSUME NEW c \in Conn, Counted' = Counted \cup {c},
               connection_count' = connection_count + 1
        PROVE  CountCoversServed'
    <2>1. Cardinality(Counted \cup {c}) = IF c \in Counted THEN card ELSE card + 1
      BY <1>1, FS_AddElement
    <2>2. Cardinality(Counted') <= card + 1 BY <1>1, <1>3, <2>1
    <2> QED BY <1>1, <1>3, <2>2 DEF CountCoversServed
  <1>4. ASSUME NEW c \in Counted, Counted' = Counted \ {c},
               connection_count' = connection_count \/ connection_count' = connection_count - 1
        PROVE  CountCoversServed'
    <2>1. Cardinality(Counted') = card - 1 BY <1>1, <1>4, FS_RemoveElement
    <2> QED BY <1>1, <1>4, <2>1 DEF CountCoversServed
  <1> QED BY <1>1, <1>2, <1>3, <1>4, PlaceStep DEF PlacesMove

----------------------------------------------------------------------------
(* The theorems.                                                           *)

LEMMA PlaceInvInit == Init => PlaceInv
  <1> SUFFICES ASSUME Init PROVE PlaceInv OBVIOUS
  <1>1. TypeOK
    <2>1. 0 \in 0..(MaxConn + 1) BY ConnectionsAssumption
    <2>2. <<>> \in Seq(Conn) OBVIOUS
    <2> QED BY <2>1, <2>2 DEF Init, TypeOK, AcceptorPC, ThreadPC, ClientStates
  <1>2. InBacklog = {} /\ Len(backlog) = 0 BY DEF Init, InBacklog
  <1>3. OnePlace BY <1>2 DEF Init, OnePlace
  <1>4. Counted = {} BY DEF Init, Counted, CountedPC
  <1>5. CountCoversServed BY <1>4, FS_EmptySet DEF Init, CountCoversServed
  <1>6. SleepsOnlyWhenCountFull BY DEF Init, SleepsOnlyWhenCountFull
  <1> QED BY <1>1, <1>3, <1>5, <1>6 DEF PlaceInv

LEMMA PlaceInvStutter == ASSUME PlaceInv, UNCHANGED vars PROVE PlaceInv'
  BY DEF PlaceInv, vars, acceptorVars, TypeOK, OnePlace, InBacklog, CountCoversServed,
         Counted, SleepsOnlyWhenCountFull

LEMMA PlaceInvariant == Spec => []PlaceInv
  <1>1. PlaceInv /\ [Next]_vars => PlaceInv'
    BY PlaceStep, CountStep, PlaceInvStutter DEF PlaceInv
  <1> QED BY <1>1, PlaceInvInit, PTL DEF Spec

\* The type invariant, with the bound on the counter.
THEOREM TypeCorrect == Spec => []TypeOK
  BY PlaceInvariant, PTL DEF PlaceInv

\* No connection is served uncounted.
THEOREM ServedAreCounted == Spec => []CountCoversServed
  BY PlaceInvariant, PTL DEF PlaceInv

\* The accepting thread never sleeps with a place free by the count.
THEOREM AcceptorWakes == Spec => []SleepsOnlyWhenCountFull
  BY PlaceInvariant, PTL DEF PlaceInv

\* Connections are admitted the way AdmissionGate promises, with every fault.
THEOREM RefinesGate == Spec => GateRefined
  <1>1. Init => Gate!GateInit
    BY DEF Init, Gate!GateInit, Arrived, InBacklog, Counted, CountedPC
  <1>2. ASSUME PlaceInv, [Next]_vars
        PROVE  [Gate!GateNext]_(Gate!gateVars)
    <2>1. CASE UNCHANGED vars
      BY <2>1 DEF vars, acceptorVars, Gate!gateVars, Arrived, InBacklog, Counted
    <2>2. CASE Next
      <3>1. /\ Counted \subseteq Conn /\ Arrived \subseteq Conn
            /\ Cardinality(Counted) \in Nat /\ Cardinality(Counted) <= connection_count
            /\ connection_count \in Nat /\ MaxConn \in Nat
        BY <1>2, CountedFinite, ConnectionsAssumption
        DEF PlaceInv, CountCoversServed, TypeOK, Counted, Arrived
      <3>2. CASE Counted' = Counted /\ Arrived' = Arrived BY <3>2 DEF Gate!gateVars
      <3>3. ASSUME NEW c \in Conn, Counted' = Counted, c \notin Arrived \cup Counted,
                   Arrived' = Arrived \cup {c}
            PROVE  Gate!Arrive(c)
        BY <3>3 DEF Gate!Arrive
      <3>4. ASSUME NEW c \in Arrived, Arrived' = Arrived \ {c}, Counted' = Counted \cup {c},
                   connection_count <= MaxConn
            PROVE  Gate!Enter(c)
        <4>1. Cardinality(Counted) < MaxConn + 1 BY <3>1, <3>4
        <4>2. Gate!Cardinality(Counted) = Cardinality(Counted)
          BY DEF Gate!Cardinality, Cardinality
        <4> QED BY <3>4, <4>1, <4>2 DEF Gate!Enter
      <3>5. ASSUME NEW c \in Counted, Counted' = Counted \ {c}, Arrived' = Arrived
            PROVE  Gate!Leave(c)
        BY <3>5 DEF Gate!Leave
      <3> QED BY <1>2, <2>2, <3>1, <3>2, <3>3, <3>4, <3>5, PlaceStep DEF PlacesMove, Gate!GateNext
    <2> QED BY <1>2, <2>1, <2>2
  <1> QED BY <1>1, <1>2, PlaceInvariant, PTL DEF Spec, GateRefined, Gate!GateSpec

----------------------------------------------------------------------------
(* Sockets, the client list and the exact count.                           *)

\* The accepting thread or a thread of its own has the connection in hand.
Held(c) == thread[c] # "none" \/ (apc # "accept" /\ newsockfd = c)

\* A connection in hand is open, except the -1 of a failed accept, which stands
\* for no client; the client list names connections in hand.
OpenInv ==
    /\ \A c \in clients : thread[c] \notin {"none", "close"}
    /\ \A c \in Conn : Held(c) /\ c \notin open => "accept" \in Faults /\ client[c] = "none"

\* A client comes and goes only while nobody has its connection in hand.
LEMMA OpenInvClient ==
  ASSUME TypeOK, OpenInv, NEW c \in Conn, Connect(c) \/ Send(c) \/ Interrupt(c) \/ Return(c)
  PROVE  OpenInv'
  <1>1. /\ UNCHANGED <<apc, newsockfd, thread, open, clients>>
        /\ \A d \in Conn \ {c} : client'[d] = client[d]
        /\ client[c] = "none" => ~Held(c)
    BY DEF Connect, Send, Interrupt, Return, acceptorVars, ThreadAt, Held, Arrived, Counted,
           AcceptorPC, TypeOK
  <1>2. client[c] # "none" /\ Held(c) => c \in open BY DEF OpenInv
  <1> QED BY <1>1, <1>2 DEF OpenInv, Held

LEMMA OpenInvAcceptor ==
  ASSUME PlaceInv, OpenInv, Acceptor
  PROVE  OpenInv'
  <1> TypeOK /\ OnePlace BY DEF PlaceInv
  <1> USE DEF ThreadGoes, ThreadAt
  <1>1. CASE Accept
    <2>1. /\ newsockfd' \in open' /\ open \subseteq open'
          /\ UNCHANGED <<thread, clients, client>>
      BY <1>1 DEF Accept
    <2> QED BY <2>1 DEF OpenInv, Held
  <1>2. CASE \E c \in Conn : AcceptFails(c)
    BY <1>2 DEF AcceptFails, OpenInv, Held
  <1>3. CASE Admit BY <1>3 DEF Admit, OpenInv, Held
  <1>4. CASE SpuriousWakeup BY <1>4 DEF SpuriousWakeup, OpenInv, Held
  <1>5. CASE Spawn
    <2>1. /\ apc = "spawn" /\ apc' = "accept" /\ newsockfd \in Conn
          /\ thread' = [thread EXCEPT ![newsockfd] = "start"]
          /\ UNCHANGED <<open, clients, client>>
      BY <1>5 DEF Spawn, OnePlace
    <2>2. \A c \in Conn : Held(c)' => Held(c) BY <2>1 DEF Held, TypeOK
    <2> QED BY <2>1, <2>2 DEF OpenInv, TypeOK
  <1> QED BY <1>1, <1>2, <1>3, <1>4, <1>5 DEF Acceptor

LEMMA OpenInvThread ==
  ASSUME PlaceInv, OpenInv, NEW c \in Conn, Thread(c)
  PROVE  OpenInv'
  <1> TypeOK /\ OnePlace BY DEF PlaceInv
  <1> USE DEF ThreadAt, ThreadGoes
  <1>1. /\ thread[c] # "none" /\ newsockfd' = newsockfd
        /\ (apc' = "accept") <=> (apc = "accept")
        /\ apc # "accept" => newsockfd # c
        /\ \A d \in Conn \ {c} : /\ thread'[d] = thread[d] /\ client'[d] = client[d]
                                 /\ d \in open => d \in open'
        /\ clients' \subseteq clients \cup {c}
        /\ client'[c] # client[c] => client[c] \in {"connected", "waiting"}
    BY DEF Thread, Start, Read, ReadFails, Parse, Answer, Release, Signal, Drain, Close, Hangup,
           acceptorVars, TypeOK, OnePlace
  <1>2. /\ c \in clients' => thread'[c] \notin {"none", "close"}
        /\ thread'[c] # "none" => (c \in open => c \in open')
    BY DEF Thread, Start, Read, ReadFails, Parse, Answer, Release, Drain, Close, TypeOK, OpenInv
  <1>3. \A d \in clients' : thread'[d] \notin {"none", "close"}
    BY <1>1, <1>2 DEF OpenInv, TypeOK
  <1>4. ASSUME NEW d \in Conn, Held(d)', d \notin open'
        PROVE  "accept" \in Faults /\ client'[d] = "none"
    <2>1. CASE d = c
      <3>1. Held(c) /\ c \notin open BY <1>1, <1>2, <1>4, <2>1 DEF Held
      <3> QED BY <1>1, <2>1, <3>1 DEF OpenInv
    <2>2. CASE d # c
      <3>1. Held(d) /\ d \notin open BY <1>1, <1>4, <2>2 DEF Held
      <3> QED BY <1>1, <2>2, <3>1 DEF OpenInv
    <2> QED BY <2>1, <2>2
  <1> QED BY <1>3, <1>4 DEF OpenInv

LEMMA OpenInvariant == Spec => []OpenInv
  <1>1. Init => OpenInv BY DEF Init, OpenInv, Held
  <1>2. ASSUME PlaceInv, OpenInv, [Next]_vars
        PROVE  OpenInv'
    <2>1. CASE UNCHANGED vars BY <1>2, <2>1 DEF vars, acceptorVars, OpenInv, Held
    <2>2. CASE SpawnFails
      BY <1>2, <2>2 DEF SpawnFails, Hangup, acceptorVars, OpenInv, Held
    <2>3. TypeOK BY <1>2 DEF PlaceInv
    <2> QED BY <1>2, <2>1, <2>2, <2>3, OpenInvClient, OpenInvAcceptor, OpenInvThread DEF Next
  <1> QED BY <1>1, <1>2, PlaceInvariant, PTL DEF Spec

\* While accept succeeds, an entry of a connection's thread in the client list is
\* gone before its socket is closed, whatever reads or spawns fail.  The entries of
\* the tests' workers are not in question here: a cancelled worker leaves its own.
THEOREM ClientListCurrent ==
  ASSUME "accept" \notin Faults
  PROVE  Spec => []ClientListIsCurrent
  <1>1. PlaceInv /\ OpenInv => ClientListIsCurrent
    BY DEF PlaceInv, TypeOK, OpenInv, Held, ClientListIsCurrent, ThreadPC, CountedPC
  <1> QED BY <1>1, PlaceInvariant, OpenInvariant, PTL

\* Every counted connection is served.
NoCountLost == connection_count <= Cardinality(Counted)

\* Only a read that fails loses a count, that of a failed accept's socket included.
LEMMA NoCountLostStep ==
  ASSUME PlaceInv, OpenInv, NoCountLost, Next, Faults \cap {"read", "accept"} = {}
  PROVE  NoCountLost'
  <1> DEFINE card == Cardinality(Counted)
  <1>1. IsFiniteSet(Counted) /\ card \in Nat /\ Cardinality(Counted') \in Nat /\ connection_count \in Nat
    BY CountedFinite DEF PlaceInv, TypeOK
  <1>2. CASE Counted' = Counted /\ connection_count' = connection_count
    BY <1>2 DEF NoCountLost
  <1>3. ASSUME NEW c \in Arrived, Counted' = Counted \cup {c}, connection_count' = connection_count + 1
        PROVE  NoCountLost'
    <2>1. c \notin Counted
      BY DEF PlaceInv, OnePlace, Arrived, Counted, CountedPC
    <2>2. Cardinality(Counted') = card + 1 BY <1>1, <1>3, <2>1, FS_AddElement
    <2> QED BY <1>1, <1>3, <2>2 DEF NoCountLost
  <1>4. ASSUME NEW c \in Counted, Counted' = Counted \ {c}, connection_count' = connection_count - 1
        PROVE  NoCountLost'
    <2>1. Cardinality(Counted') = card - 1 BY <1>1, <1>4, FS_RemoveElement
    <2> QED BY <1>1, <1>4, <2>1 DEF NoCountLost
  <1>5. \A c \in Counted : "read" \notin Faults /\ c \in open
    BY DEF OpenInv, Held, Counted, CountedPC
  <1> QED BY <1>2, <1>3, <1>4, <1>5, PlaceStep DEF PlacesMove

\* While reads and accepts succeed, the accepting thread sleeps only because
\* more than MaxConn connections are served, up to the end of the process.
THEOREM SleepMeansServing ==
  ASSUME Faults \cap {"read", "accept"} = {}
  PROVE  Spec => []SleepsOnlyWhenServing
  <1>1. Init => NoCountLost
    <2> SUFFICES ASSUME Init PROVE NoCountLost OBVIOUS
    <2> QED BY CountedFinite DEF Init, NoCountLost
  <1>2. PlaceInv /\ OpenInv /\ NoCountLost /\ [Next]_vars => NoCountLost'
    <2>1. UNCHANGED vars => (NoCountLost <=> NoCountLost')
      BY DEF vars, acceptorVars, NoCountLost, Counted
    <2> QED BY <2>1, NoCountLostStep
  <1>3. PlaceInv /\ NoCountLost => SleepsOnlyWhenServing
    <2> SUFFICES ASSUME PlaceInv, NoCountLost PROVE SleepsOnlyWhenServing OBVIOUS
    <2>1. Cardinality(Counted) \in Nat /\ connection_count \in Nat /\ MaxConn \in Nat
      BY CountedFinite, ConnectionsAssumption DEF PlaceInv, TypeOK
    <2> QED BY <2>1 DEF PlaceInv, NoCountLost, SleepsOnlyWhenCountFull, SleepsOnlyWhenServing
  <1> QED BY <1>1, <1>2, <1>3, PlaceInvariant, OpenInvariant, PTL DEF Spec

----------------------------------------------------------------------------
(* The client's end.                                                       *)

\* A command that is executed was written; a connection that is about to be closed
\* has no client that waits; no client has read an end of file.
AnsweredInv ==
    \A c \in Conn :
        /\ client[c] # "spins"
        /\ thread[c] \in {"parse", "answer"} => client[c] # "connected"
        /\ thread[c] \in {"release", "drain", "close"} => client[c] \notin {"connected", "waiting"}

\* Failed accepts do no harm to clients: their connections have none.
LEMMA AnsweredStep ==
  ASSUME PlaceInv, OpenInv, AnsweredInv, Next, Faults \subseteq {"accept"}
  PROVE  AnsweredInv'
  <1> TypeOK /\ OnePlace BY DEF PlaceInv
  <1> USE DEF ThreadAt, ThreadGoes
  <1>1. ASSUME NEW c \in Conn, Connect(c) \/ Send(c) \/ Interrupt(c) \/ Return(c)
        PROVE  AnsweredInv'
    BY <1>1 DEF Connect, Send, Interrupt, Return, TypeOK, AnsweredInv
  <1>2. ASSUME Acceptor
        PROVE  AnsweredInv'
    <2>1. client' = client /\ (thread' = thread \/ thread' = [thread EXCEPT ![newsockfd] = "start"])
      BY <1>2 DEF Acceptor, Accept, AcceptFails, Admit, SpuriousWakeup, Spawn
    <2> QED BY <2>1 DEF TypeOK, AnsweredInv
  <1>3. ASSUME NEW c \in Conn, Thread(c)
        PROVE  AnsweredInv'
    <2>1. \A d \in Conn \ {c} : thread'[d] = thread[d] /\ client'[d] = client[d]
      BY <1>3 DEF Thread, Start, Read, ReadFails, Parse, Answer, Release, Drain, Close, TypeOK
    <2>2. /\ client'[c] # "spins"
          /\ thread'[c] \in {"parse", "answer"} => client'[c] # "connected"
          /\ thread'[c] \in {"release", "drain", "close"} => client'[c] \notin {"connected", "waiting"}
      <3>1. CASE Start(c) \/ Read(c) \/ Parse(c)
        BY <3>1 DEF Start, Read, Parse, TypeOK, AnsweredInv
      <3>2. CASE ReadFails(c)
        <4>1. Held(c) /\ c \notin open /\ client' = client BY <3>2 DEF ReadFails, Held
        <4>2. client[c] = "none" BY <4>1 DEF OpenInv
        <4> QED BY <4>1, <4>2
      <3>3. CASE Answer(c) BY <3>3 DEF Answer, TypeOK, AnsweredInv
      <3>4. CASE Release(c) BY <3>4 DEF Release, TypeOK, AnsweredInv
      <3>5. CASE Drain(c) \/ Close(c) BY <3>5 DEF Drain, Close, Hangup, TypeOK, AnsweredInv
      <3> QED BY <1>3, <3>1, <3>2, <3>3, <3>4, <3>5 DEF Thread
    <2> QED BY <2>1, <2>2 DEF AnsweredInv
  <1>4. ~SpawnFails BY DEF SpawnFails
  <1> QED BY <1>1, <1>2, <1>3, <1>4 DEF Next

\* While reads succeed and threads can be created, a connection is closed only
\* after its client was answered or has gone.
THEOREM ClientsDoNotSpin ==
  ASSUME Faults \subseteq {"accept"}
  PROVE  Spec => []NoClientSpins
  <1>1. Init => AnsweredInv BY DEF Init, AnsweredInv
  <1>2. PlaceInv /\ OpenInv /\ AnsweredInv /\ [Next]_vars => AnsweredInv'
    <2>1. UNCHANGED vars => (AnsweredInv <=> AnsweredInv') BY DEF vars, AnsweredInv
    <2> QED BY <2>1, AnsweredStep
  <1>3. AnsweredInv => NoClientSpins BY DEF AnsweredInv, NoClientSpins
  <1> QED BY <1>1, <1>2, <1>3, PlaceInvariant, OpenInvariant, PTL DEF Spec

=============================================================================
