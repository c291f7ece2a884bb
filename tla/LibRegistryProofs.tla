------------------------- MODULE LibRegistryProofs -------------------------
(***************************************************************************)
(* Theorems about LibRegistry for any number of libraries, calls and nodes *)
(* of the list, where no library without lib_group is loaded while other   *)
(* calls go on ("bad" is not in Overlap): with such loads ListedIsLoaded   *)
(* fails, as the run LibRegistry_badload shows.  As everywhere in          *)
(* LibRegistry, a load and an unload of one library do not overlap.        *)
(***************************************************************************)
EXTENDS LibRegistry, TLAPS, FiniteSetTheorems

\* The types, without what TypeOK says of the nodes of the loads.
Types ==
    /\ up \in BOOLEAN
    /\ pc \in [Call -> CallPC]
    /\ lib \in [Call -> Lib \cup {None}]
    /\ curr \in [Call -> Nodes \cup {None}]
    /\ shared \subseteq Call
    /\ libs \in Nodes \cup {None}
    /\ next_lib \in [Nodes -> Nodes \cup {None}]
    /\ lib_handle \in [Nodes -> Lib \cup {None}]
    /\ allocated \subseteq Nodes
    /\ opened \in [Lib -> Nat]
    /\ registered \subseteq Lib

\* The list is a chain of nodes in use: no two nodes have the same successor, and
\* the head is nobody's.
Chain ==
    /\ Listed \subseteq allocated
    /\ \A m \in Listed : next_lib[m] = None \/ next_lib[m] # libs
    /\ \A m1, m2 \in Listed : next_lib[m1] = next_lib[m2] /\ next_lib[m1] # None => m1 = m2

\* A call that is on a library is a load or an unload of it, a load is done with no
\* group symbol only for a library that has none, and such a library is not unloaded.
CallInv ==
    \A c \in Call :
       /\ pc[c] = "idle" <=> lib[c] = None
       /\ lib[c] \in NoGroup => pc[c] \in LoadPC \ {"register"}
       /\ pc[c] = "unpush" => lib[c] \in NoGroup

\* Loads and unloads of one library do not overlap, and a call that has not met
\* another one on its library is alone there.
Apart ==
    \A c, d \in Call : lib[c] = lib[d] /\ lib[c] # None =>
       /\ pc[c] \in LoadPC <=> pc[d] \in LoadPC
       /\ c \notin shared => c = d

\* A load holds a node of its library, which is in the list from the push on, and
\* an unload at its end one that it took off the list; no two calls hold the same.
Held ==
    /\ \A c \in Call :
          /\ pc[c] \in LoadPC => curr[c] # None
          /\ pc[c] \in {"symbol", "unpush", "register"} => curr[c] \in Listed
          /\ pc[c] \in {"push", "close"} => curr[c] \notin Listed
          /\ curr[c] # None => /\ pc[c] \in LoadPC \cup {"close"}
                               /\ curr[c] \in allocated
                               /\ lib_handle[curr[c]] = lib[c]
    /\ \A c, d \in Call : curr[c] = curr[d] /\ curr[c] # None => c = d

\* The load of a library without lib_group has the daemon for itself, and its node
\* is the head of the list until it is taken off; no other node is of such a library.
Solo ==
    /\ \A c, d \in Call : lib[c] \in NoGroup /\ c # d => pc[d] = "idle"
    /\ \A c \in Call : lib[c] \in NoGroup /\ pc[c] # "push" => libs = curr[c]
    /\ \A n \in Listed : lib_handle[n] \in NoGroup => \E c \in Call : curr[c] = n

\* The nodes that stand for an opening of the library: those in the list, but for
\* one whose load has closed the library again, and those not yet pushed or not
\* yet freed.
Openings(l) == {n \in Holding(l) :
    \/ n \in Listed /\ ~ \E c \in Call : pc[c] = "unpush" /\ curr[c] = n
    \/ \E c \in Call : pc[c] \in {"push", "close"} /\ curr[c] = n}

Unloads(l) == {c \in Call : lib[c] = l /\ pc[c] \in UnloadPC}

\* A library is open once for each of these nodes and for each unload.  When more
\* unloads run than it has nodes it may be less, until the last unload has ended.
Counted ==
    \A l \in Lib :
       /\ opened[l] <= Cardinality(Openings(l)) + Cardinality(Unloads(l))
       /\ NodesOf(l) # {} \/ Unloads(l) = {} =>
             opened[l] = Cardinality(Openings(l)) + Cardinality(Unloads(l))

\* A library whose cases are registered has a node in the list, and no unload of it
\* is behind the deletion of the cases.
Entered ==
    \A l \in registered :
       /\ l \notin NoGroup
       /\ NodesOf(l) # {}
       /\ \A c \in Call : lib[c] = l => pc[c] \notin {"unlink", "close"}

\* An unload has found no node only where there was none, and one that is alone on
\* its library has a node to find.
Found ==
    \A c \in Call, l \in Lib : lib[c] = l =>
       /\ pc[c] = "close" /\ curr[c] = None => NodesOf(l) = {}
       /\ pc[c] \in {"unloadSymbol", "delete", "unlink"} /\ c \notin shared => NodesOf(l) # {}

\* The inductive invariant.
LibInv ==
    Types /\ Chain /\ CallInv /\ Apart /\ Held /\ Solo /\ Counted /\ Entered /\ Found

----------------------------------------------------------------------------
(* The list: the least set of nodes with the head and every successor.     *)

\* The nodes of the list are followed by nodes of the list.
LEMMA ListFollows ==
  ASSUME Types
  PROVE  /\ Listed \subseteq Nodes
         /\ libs \in Listed \cup {None}
         /\ \A n \in Listed : next_lib[n] \in Listed \cup {None}
  BY DEF Types, Listed, Walk, Follows

\* The same in the next state.
LEMMA ListFollowsNext ==
  ASSUME Types'
  PROVE  /\ Listed' \subseteq Nodes
         /\ libs' \in Listed' \cup {None}
         /\ \A n \in Listed' : next_lib'[n] \in Listed' \cup {None}
  BY DEF Types, Listed, Walk, Follows

\* Every set of nodes that is so closed has the list within it.
LEMMA ListLeast ==
  ASSUME NEW S \in SUBSET Nodes, libs \in S \cup {None},
         \A n \in S : next_lib[n] \in S \cup {None}
  PROVE  Listed \subseteq S
  BY DEF Listed, Walk, Follows

\* The same in the next state.
LEMMA ListLeastNext ==
  ASSUME NEW S \in SUBSET Nodes, libs' \in S \cup {None},
         \A n \in S : next_lib'[n] \in S \cup {None}
  PROVE  Listed' \subseteq S
  BY DEF Listed, Walk, Follows

\* Writing to a node outside the list leaves the list as it is.
LEMMA SameList ==
  ASSUME Types, Types', libs' = libs,
         \A n \in Listed : next_lib'[n] = next_lib[n]
  PROVE  Listed' = Listed
  <1>1. Listed' \subseteq Listed BY ListFollows, ListLeastNext
  <1>2. Listed \subseteq Listed \cap Listed'
    <2>1. Listed \cap Listed' \in SUBSET Nodes BY ListFollows
    <2>2. libs \in (Listed \cap Listed') \cup {None} BY ListFollows, ListFollowsNext
    <2>3. \A n \in Listed \cap Listed' : next_lib[n] \in (Listed \cap Listed') \cup {None}
      BY ListFollows, ListFollowsNext
    <2> QED BY <2>1, <2>2, <2>3, ListLeast
  <1> QED BY <1>1, <1>2

\* The list has the node that is pushed at its head besides those it had.
LEMMA PushedList ==
  ASSUME Types, Types', NEW n \in Nodes \ Listed,
         libs' = n, next_lib' = [next_lib EXCEPT ![n] = libs]
  PROVE  Listed' = Listed \cup {n}
  <1>1. /\ next_lib'[n] = libs
        /\ \A m \in Nodes \ {n} : next_lib'[m] = next_lib[m]
    BY DEF Types
  <1>2. Listed' \subseteq Listed \cup {n}
    <2>1. Listed \cup {n} \in SUBSET Nodes BY ListFollows
    <2>2. \A m \in Listed \cup {n} : next_lib'[m] \in Listed \cup {n} \cup {None}
      BY <1>1, ListFollows
    <2> QED BY <2>1, <2>2, ListLeastNext
  <1>3. n \in Listed' BY ListFollowsNext, LibAssumption
  <1>4. Listed \subseteq Listed \cap Listed'
    <2>1. Listed \cap Listed' \in SUBSET Nodes BY ListFollows
    <2>2. libs \in (Listed \cap Listed') \cup {None}
      BY <1>1, <1>3, ListFollows, ListFollowsNext
    <2>3. \A m \in Listed \cap Listed' : next_lib[m] \in (Listed \cap Listed') \cup {None}
      BY <1>1, ListFollows, ListFollowsNext
    <2> QED BY <2>1, <2>2, <2>3, ListLeast
  <1> QED BY <1>2, <1>3, <1>4

\* No node of a chain is its own successor: the list would do without it.
LEMMA NoSelfLoop ==
  ASSUME Types, Chain
  PROVE  \A n \in Listed : next_lib[n] # n
  <1> SUFFICES ASSUME NEW n \in Listed, next_lib[n] = n
               PROVE  FALSE
    OBVIOUS
  <1>1. n # None BY ListFollows, LibAssumption
  <1>2. libs \in (Listed \ {n}) \cup {None} BY <1>1, ListFollows DEF Chain
  <1>3. \A m \in Listed \ {n} : next_lib[m] \in (Listed \ {n}) \cup {None}
    BY <1>1, ListFollows DEF Chain
  <1>4. Listed \ {n} \in SUBSET Nodes BY ListFollows
  <1> QED BY <1>2, <1>3, <1>4, ListLeast

\* Taking a node of a chain off it leaves the others.
LEMMA UnlinkedList ==
  ASSUME Types, Types', Chain, NEW n \in Listed, UnlinkNode(n)
  PROVE  /\ Listed' = Listed \ {n}
         /\ \A m \in Listed' : next_lib'[m] = None \/ next_lib'[m] # libs'
         /\ \A m1, m2 \in Listed' : next_lib'[m1] = next_lib'[m2] /\ next_lib'[m1] # None => m1 = m2
  <1>1. n # None /\ n \in Nodes /\ Listed \ {n} \in SUBSET Nodes BY ListFollows, LibAssumption
  <1>3. CASE libs = n /\ libs' = next_lib[n] /\ UNCHANGED next_lib
    <2>1. Listed' \subseteq Listed \ {n}
      <3>1. libs' \in (Listed \ {n}) \cup {None} BY <1>3, NoSelfLoop, ListFollows
      <3>2. \A m \in Listed \ {n} : next_lib'[m] \in (Listed \ {n}) \cup {None}
        BY <1>1, <1>3, ListFollows DEF Chain
      <3> QED BY <1>1, <3>1, <3>2, ListLeastNext
    <2>2. Listed \subseteq Listed' \cup {n}
      <3>1. Listed' \cup {n} \in SUBSET Nodes BY <1>1, ListFollowsNext
      <3>2. \A m \in Listed' \cup {n} : next_lib[m] \in Listed' \cup {n} \cup {None}
        BY <1>3, ListFollowsNext
      <3> QED BY <1>3, <3>1, <3>2, ListLeast
    <2>3. Listed' = Listed \ {n} BY <2>1, <2>2
    <2> QED BY <1>3, <2>3 DEF Chain
  <1>4. ASSUME NEW m \in Listed, next_lib[m] = n, libs' = libs,
               next_lib' = [next_lib EXCEPT ![m] = next_lib[n]]
        PROVE  /\ Listed' = Listed \ {n}
               /\ \A k \in Listed' : next_lib'[k] = None \/ next_lib'[k] # libs'
               /\ \A m1, m2 \in Listed' :
                     next_lib'[m1] = next_lib'[m2] /\ next_lib'[m1] # None => m1 = m2
    <2>1. m # n /\ n # libs BY <1>1, <1>4, NoSelfLoop DEF Chain
    <2>2. /\ next_lib'[m] = next_lib[n]
          /\ \A k \in Nodes \ {m} : next_lib'[k] = next_lib[k]
      BY <1>4, ListFollows DEF Types
    <2>3. Listed' \subseteq Listed \ {n}
      <3>1. libs' \in (Listed \ {n}) \cup {None} BY <1>4, <2>1, ListFollows
      <3>2. \A k \in Listed \ {n} : next_lib'[k] \in (Listed \ {n}) \cup {None}
        <4> TAKE k \in Listed \ {n}
        <4>1. CASE k = m BY <2>2, <4>1, NoSelfLoop, ListFollows
        <4>2. CASE k # m
          <5>1. next_lib'[k] = next_lib[k] BY <2>2, <4>2, ListFollows
          <5>2. next_lib[k] # n BY <1>1, <1>4, <4>2 DEF Chain
          <5> QED BY <5>1, <5>2, ListFollows
        <4> QED BY <4>1, <4>2
      <3> QED BY <1>1, <3>1, <3>2, ListLeastNext
    <2>4. Listed \subseteq Listed' \cup {n}
      <3>1. CASE m \in Listed'
        <4>1. Listed' \cup {n} \in SUBSET Nodes BY <1>1, ListFollowsNext
        <4>2. \A k \in Listed' \cup {n} : next_lib[k] \in Listed' \cup {n} \cup {None}
          <5> TAKE k \in Listed' \cup {n}
          <5>1. CASE k = m BY <1>4, <5>1
          <5>2. CASE k = n BY <2>2, <3>1, <5>2, ListFollowsNext
          <5>3. CASE k # m /\ k # n BY <2>2, <5>3, ListFollowsNext
          <5> QED BY <5>1, <5>2, <5>3
        <4> QED BY <1>4, <4>1, <4>2, ListLeast, ListFollowsNext
      <3>2. CASE m \notin Listed'
        <4>1. Listed' \in SUBSET Nodes BY ListFollowsNext
        <4>2. \A k \in Listed' : next_lib[k] \in Listed' \cup {None}
          BY <2>2, <3>2, ListFollowsNext
        <4> QED BY <1>4, <4>1, <4>2, ListLeast, ListFollowsNext
      <3> QED BY <3>1, <3>2
    <2>5. Listed' = Listed \ {n} BY <2>3, <2>4
    <2>6. \A k \in Listed' : next_lib'[k] = IF k = m THEN next_lib[n] ELSE next_lib[k]
      BY <2>2, <2>5, ListFollows
    <2>7. \A k \in Listed' : next_lib'[k] = None \/ next_lib'[k] # libs'
      BY <1>4, <2>5, <2>6 DEF Chain
    <2> QED BY <2>5, <2>6, <2>7 DEF Chain
  <1> QED BY <1>3, <1>4 DEF UnlinkNode

\* The search for a library that has a node in the list ends at one of its nodes.
LEMMA FirstFound ==
  ASSUME Types, NEW l, NodesOf(l) # {}
  PROVE  FirstOf(l) \in NodesOf(l)
  <1> DEFINE W == Walk(Holding(l))
  <1>1. W \subseteq Listed
    <2>1. Listed \in SUBSET Nodes /\ Follows(Listed, Holding(l)) BY ListFollows DEF Follows
    <2> QED BY <2>1 DEF Walk
  <1>2. /\ W \in SUBSET Nodes /\ libs \in W \cup {None}
        /\ \A n \in W \ Holding(l) : next_lib[n] \in W \cup {None}
    BY DEF Types, Walk, Follows
  <1>3. \E n \in W : n \in Holding(l)
    <2> SUFFICES ASSUME W \cap Holding(l) = {} PROVE FALSE
      OBVIOUS
    <2>1. \A n \in W : next_lib[n] \in W \cup {None} BY <1>2
    <2>2. Listed \subseteq W BY <1>2, <2>1, ListLeast
    <2> QED BY <2>2 DEF NodesOf
  <1> QED BY <1>1, <1>3 DEF FirstOf, NodesOf

----------------------------------------------------------------------------
(* What the parts of the invariant say together.                           *)

\* The numbers of openings and of unloads are numbers.
LEMMA CountsAreNumbers ==
  ASSUME NEW l
  PROVE  /\ IsFiniteSet(Openings(l)) /\ Cardinality(Openings(l)) \in Nat
         /\ IsFiniteSet(Unloads(l)) /\ Cardinality(Unloads(l)) \in Nat
         /\ IsFiniteSet(Openings(l)') /\ Cardinality(Openings(l)') \in Nat
         /\ IsFiniteSet(Unloads(l)') /\ Cardinality(Unloads(l)') \in Nat
  <1>1. /\ Openings(l) \subseteq Nodes /\ Openings(l)' \subseteq Nodes
        /\ Unloads(l) \subseteq Call /\ Unloads(l)' \subseteq Call
    BY DEF Openings, Unloads, Holding
  <1> QED BY <1>1, LibAssumption, FS_Subset, FS_CardinalityType

\* Where a step opens and closes nothing the counts are as they were, if the
\* library gets its first node only while it is not being unloaded.
LEMMA CountedAsBefore ==
  ASSUME Counted, opened' = opened,
         \A l \in Lib : /\ Openings(l)' = Openings(l)
                        /\ Unloads(l)' = Unloads(l)
                        /\ NodesOf(l)' # {} => NodesOf(l) # {} \/ Unloads(l) = {}
  PROVE  Counted'
  BY DEF Counted

\* A call at work is on a library.
LEMMA AtWork ==
  ASSUME Types, CallInv, NEW c \in Call, pc[c] # "idle"
  PROVE  lib[c] \in Lib /\ lib[c] # None
  BY DEF Types, CallInv

\* A library with a node in the list is not open less often than its openings and
\* its unloads; without unloads it is open only while it has openings.
LEMMA OpenTimes ==
  ASSUME Counted, NEW l \in Lib
  PROVE  NodesOf(l) # {} \/ Unloads(l) = {} =>
            opened[l] = Cardinality(Openings(l)) + Cardinality(Unloads(l))
  BY DEF Counted

\* Without calls on a library its openings are its nodes in the list.
LEMMA OpeningsAtRest ==
  ASSUME Types, CallInv, Held, NEW l, \A c \in Call : lib[c] # l
  PROVE  Openings(l) = NodesOf(l)
  <1>1. \A c \in Call, n \in Holding(l) : curr[c] # n
    BY LibAssumption DEF Types, Held, Holding
  <1> QED BY <1>1 DEF Openings, NodesOf

\* A library without lib_group is open only while a load of it goes on.
LEMMA ClosedUnlessLoaded ==
  ASSUME LibInv, NEW l \in Lib \cap NoGroup, \A c \in Call : lib[c] # l
  PROVE  opened[l] = 0
  <1>0. /\ Types /\ CallInv /\ Held /\ Solo /\ Counted
    BY DEF LibInv
  <1>1. NodesOf(l) = {}
    <2> SUFFICES ASSUME NEW n \in NodesOf(l) PROVE FALSE
      OBVIOUS
    <2>1. n \in Listed /\ n \in Nodes /\ n # None /\ lib_handle[n] = l
      BY LibAssumption DEF NodesOf, Holding
    <2>2. PICK c \in Call : curr[c] = n BY <1>0, <2>1 DEF Solo
    <2> QED BY <1>0, <2>1, <2>2 DEF Held
  <1>2. Openings(l) = {} BY <1>0, <1>1, OpeningsAtRest
  <1>3. Unloads(l) = {} BY DEF Unloads
  <1> QED BY <1>0, <1>2, <1>3, OpenTimes, FS_EmptySet

----------------------------------------------------------------------------
(* The types.                                                              *)

\* Every step keeps the types.
LEMMA TypesStep ==
  ASSUME LibInv, NEW c \in Call, Step(c), up' = up
  PROVE  Types'
  <1>0. Types /\ CallInv /\ Held BY DEF LibInv
  <1>1. pc[c] # "idle" => lib[c] \in Lib BY <1>0, AtWork
  <1>2. pc[c] \in LoadPC => curr[c] \in Nodes BY <1>0 DEF Types, Held
  <1> USE DEF Types, At, Goto, Return, Enter, DlOpen, DlClose, CallPC, LoadPC, UnloadPC
  <1>3. ASSUME NEW l \in Lib, Load(c, l) PROVE Types'
    BY <1>0, <1>3, LibAssumption DEF Load, Users
  <1>4. CASE Push(c) BY <1>0, <1>2, <1>4 DEF Push
  <1>5. CASE Symbol(c) BY <1>0, <1>1, <1>5 DEF Symbol, listVars
  <1>6. CASE Unpush(c) BY <1>0, <1>2, <1>6 DEF Unpush
  <1>7. CASE Register(c) BY <1>0, <1>1, <1>7 DEF Register, listVars
  <1>8. ASSUME NEW l \in Lib, Unload(c, l) PROVE Types'
    BY <1>0, <1>8 DEF Unload, Users, listVars
  <1>9. CASE UnloadSymbol(c) BY <1>0, <1>1, <1>9 DEF UnloadSymbol, listVars
  <1>10. CASE Delete(c) BY <1>0, <1>10 DEF Delete, listVars
  <1>11. CASE Unlink(c)
    <2>1. NodesOf(lib[c]) # {} => FirstOf(lib[c]) \in Listed /\ FirstOf(lib[c]) \in Nodes
      BY <1>0, FirstFound, ListFollows DEF NodesOf
    <2>2. \A n \in Nodes : next_lib[n] \in Nodes \cup {None} BY <1>0
    <2>3. libs' \in Nodes \cup {None} /\ next_lib' \in [Nodes -> Nodes \cup {None}]
      BY <1>0, <1>11, <2>1, <2>2 DEF Unlink, UnlinkNode
    <2>4. curr' \in [Call -> Nodes \cup {None}] BY <1>0, <1>11, <2>1 DEF Unlink
    <2> QED BY <1>0, <1>11, <2>3, <2>4 DEF Unlink
  <1>12. CASE Close(c) BY <1>0, <1>1, <1>12 DEF Close, CloseBoth
  <1> QED BY <1>3, <1>4, <1>5, <1>6, <1>7, <1>8, <1>9, <1>10, <1>11, <1>12 DEF Step

----------------------------------------------------------------------------
(* The steps of a load.                                                    *)

\* Opening a library for a new node.
LEMMA LoadStep ==
  ASSUME LibInv, Types', "bad" \notin Overlap, NEW c \in Call, NEW l \in Lib, Load(c, l)
  PROVE  LibInv'
  <1>0. /\ Types /\ Chain /\ CallInv /\ Apart /\ Held /\ Solo /\ Counted /\ Entered /\ Found
    BY DEF LibInv
  <1>1. PICK n \in Nodes \ allocated :
          /\ allocated' = allocated \cup {n}
          /\ curr' = [curr EXCEPT ![c] = n]
          /\ lib_handle' = [lib_handle EXCEPT ![n] = l]
          /\ next_lib' = [next_lib EXCEPT ![n] = None]
    BY DEF Load
  <1>2. /\ pc[c] = "idle" /\ lib[c] = None /\ l # None /\ n # None
        /\ libs' = libs /\ registered' = registered
        /\ opened' = [opened EXCEPT ![l] = @ + 1]
        /\ \A d \in Call : lib[d] = l => pc[d] \in LoadPC
        /\ l \in NoGroup \/ (\E d \in Call : lib[d] \in NoGroup) => "bad" \in Overlap \/ Quiet
    BY <1>0, LibAssumption DEF Load, MayCall, Users, At, DlOpen, CallInv
  <1>3. /\ \A d \in Call : pc'[d] = IF d = c THEN "push" ELSE pc[d]
        /\ \A d \in Call : lib'[d] = IF d = c THEN l ELSE lib[d]
        /\ \A d \in Call : curr'[d] = IF d = c THEN n ELSE curr[d]
        /\ \A m \in Nodes : lib_handle'[m] = IF m = n THEN l ELSE lib_handle[m]
        /\ \A m \in Nodes \ {n} : next_lib'[m] = next_lib[m]
    BY <1>0, <1>1 DEF Load, Enter, Goto, Types
  <1>4. /\ n \notin Listed /\ Listed' = Listed
        /\ \A d \in Call : curr[d] # n
    <2>1. n \notin Listed BY <1>0, <1>1 DEF Chain
    <2>2. \A m \in Listed : next_lib'[m] = next_lib[m] BY <1>0, <1>3, <2>1, ListFollows
    <2> QED BY <1>0, <1>1, <1>2, <2>1, <2>2, SameList DEF Held
  <1>5. \A k : NodesOf(k)' = NodesOf(k)
    BY <1>0, <1>3, <1>4, ListFollows DEF NodesOf, Holding
  <1>6. \A k \in Lib : Unloads(k)' = Unloads(k)
    BY <1>2, <1>3 DEF Unloads, UnloadPC
  <1>7. Unloads(l) = {}
    BY <1>2 DEF Unloads, UnloadPC, LoadPC
  <1>8. n \notin Openings(l) /\ Openings(l)' = Openings(l) \cup {n}
    BY <1>0, <1>2, <1>3, <1>4 DEF Openings, Holding
  <1>9. \A k \in Lib \ {l} : Openings(k)' = Openings(k)
    BY <1>0, <1>2, <1>3, <1>4 DEF Openings, Holding
  <1>10. Chain' BY <1>0, <1>1, <1>2, <1>3, <1>4, ListFollows DEF Chain
  <1>11. CallInv' BY <1>0, <1>2, <1>3 DEF CallInv, LoadPC
  <1>12. Apart'
    BY <1>0, <1>2, <1>3 DEF Apart, LoadPC, Load, Enter, Users
  <1>13. Held' BY <1>0, <1>1, <1>2, <1>3, <1>4 DEF Held, LoadPC
  <1>14. Solo'
    <2>1. \A d, e \in Call : lib'[d] \in NoGroup /\ d # e => pc'[e] = "idle"
      BY <1>0, <1>2, <1>3, LibAssumption DEF Solo, CallInv, Quiet
    <2>2. \A d \in Call : lib'[d] \in NoGroup /\ pc'[d] # "push" => libs' = curr'[d]
      BY <1>0, <1>2, <1>3 DEF Solo
    <2>3. \A m \in Listed' : lib_handle'[m] \in NoGroup => \E d \in Call : curr'[d] = m
      <3> SUFFICES ASSUME NEW m \in Listed, lib_handle'[m] \in NoGroup
                   PROVE  \E d \in Call : curr'[d] = m
        BY <1>4
      <3>1. m # n /\ m # None /\ m \in Nodes BY <1>0, <1>4, ListFollows, LibAssumption
      <3>2. PICK d \in Call : curr[d] = m BY <1>0, <1>3, <3>1 DEF Solo
      <3>3. d # c BY <1>0, <1>2, <3>1, <3>2 DEF Held, LoadPC
      <3> QED BY <1>3, <3>2, <3>3
    <2> QED BY <2>1, <2>2, <2>3 DEF Solo
  <1>15. Counted'
    <2>1. opened[l] = Cardinality(Openings(l)) + Cardinality(Unloads(l))
      BY <1>0, <1>7, OpenTimes
    <2>2. Cardinality(Openings(l)') = Cardinality(Openings(l)) + 1
      BY <1>8, FS_AddElement, CountsAreNumbers
    <2>3. opened'[l] = opened[l] + 1 /\ \A k \in Lib \ {l} : opened'[k] = opened[k]
      BY <1>0, <1>2 DEF Types
    <2>4. opened'[l] = Cardinality(Openings(l)') + Cardinality(Unloads(l)')
      BY <1>6, <2>1, <2>2, <2>3, CountsAreNumbers
    <2>5. \A k \in Lib \ {l} :
            /\ opened'[k] <= Cardinality(Openings(k)') + Cardinality(Unloads(k)')
            /\ NodesOf(k)' # {} \/ Unloads(k)' = {} =>
                  opened'[k] = Cardinality(Openings(k)') + Cardinality(Unloads(k)')
      BY <1>0, <1>5, <1>6, <1>9, <2>3 DEF Counted
    <2>6. opened'[l] <= Cardinality(Openings(l)') + Cardinality(Unloads(l)')
      BY <2>4, CountsAreNumbers
    <2> QED BY <2>4, <2>5, <2>6 DEF Counted
  <1>16. Entered' BY <1>0, <1>2, <1>3, <1>5 DEF Entered
  <1>17. Found'
    <2>1. shared \subseteq shared' BY DEF Load, Enter
    <2> QED BY <1>0, <1>3, <1>5, <2>1 DEF Found
  <1> QED BY <1>10, <1>11, <1>12, <1>13, <1>14, <1>15, <1>16, <1>17 DEF LibInv

\* Pushing the new node.
LEMMA PushStep ==
  ASSUME LibInv, Types', NEW c \in Call, Push(c), NEW l, lib[c] = l, NEW n, curr[c] = n
  PROVE  LibInv'
  <1>0. /\ Types /\ Chain /\ CallInv /\ Apart /\ Held /\ Solo /\ Counted /\ Entered /\ Found
    BY DEF LibInv
  <1>1. /\ pc[c] = "push" /\ n \in Nodes /\ n \in allocated /\ n \notin Listed
        /\ n # None /\ l \in Lib /\ l # None /\ lib_handle[n] = l
        /\ next_lib' = [next_lib EXCEPT ![n] = libs] /\ libs' = n
    BY <1>0, AtWork DEF Push, At, Held, Types, LoadPC
  <1>2. /\ lib' = lib /\ curr' = curr /\ shared' = shared /\ lib_handle' = lib_handle
        /\ allocated' = allocated /\ opened' = opened /\ registered' = registered
    BY DEF Push
  <1>3. /\ \A d \in Call : pc'[d] = IF d = c THEN "symbol" ELSE pc[d]
        /\ \A m \in Nodes : next_lib'[m] = IF m = n THEN libs ELSE next_lib[m]
    BY <1>0, <1>1 DEF Push, Goto, Types
  <1>4. Listed' = Listed \cup {n} BY <1>0, <1>1, PushedList
  <1>5. /\ NodesOf(l)' = NodesOf(l) \cup {n}
        /\ \A k \in Lib \ {l} : NodesOf(k)' = NodesOf(k)
    BY <1>1, <1>2, <1>4 DEF NodesOf, Holding
  <1>6. \A k : Unloads(k)' = Unloads(k)
    BY <1>1, <1>2, <1>3 DEF Unloads, UnloadPC
  <1>7. Unloads(l) = {}
    BY <1>0, <1>1 DEF Unloads, UnloadPC, Apart, LoadPC
  <1>8. \A k : Openings(k)' = Openings(k)
    <2> SUFFICES ASSUME NEW k, NEW m \in Holding(k)
                 PROVE  m \in Openings(k)' <=> m \in Openings(k)
      BY <1>2 DEF Openings, Holding
    <2>1. Holding(k)' = Holding(k) BY <1>2 DEF Holding
    <2>2. CASE m = n
      <3>1. m \in Openings(k) BY <1>1, <2>2 DEF Openings
      <3>2. ~ \E d \in Call : pc'[d] = "unpush" /\ curr'[d] = m
        BY <1>0, <1>1, <1>2, <1>3, <2>2 DEF Held
      <3> QED BY <1>4, <2>1, <2>2, <3>1, <3>2 DEF Openings
    <2>3. CASE m # n
      BY <1>1, <1>2, <1>3, <1>4, <2>1, <2>3 DEF Openings
    <2> QED BY <2>2, <2>3
  <1>9. Chain'
    <2>1. \A m \in Listed' : next_lib'[m] = None \/ next_lib'[m] # libs'
      BY <1>0, <1>1, <1>3, <1>4, ListFollows
    <2>2. \A m \in Listed : m \in Nodes /\ next_lib'[m] = next_lib[m]
      BY <1>0, <1>1, <1>3, ListFollows
    <2>3. \A m \in Listed : next_lib'[m] # None => next_lib'[m] # next_lib'[n]
      BY <1>0, <1>1, <1>3, <2>2 DEF Chain
    <2>4. \A m1, m2 \in Listed' : next_lib'[m1] = next_lib'[m2] /\ next_lib'[m1] # None => m1 = m2
      BY <1>0, <1>4, <2>2, <2>3 DEF Chain
    <2> QED BY <1>0, <1>1, <1>2, <1>4, <2>1, <2>4 DEF Chain
  <1>10. CallInv' BY <1>0, <1>1, <1>2, <1>3 DEF CallInv, LoadPC
  <1>11. Apart' BY <1>0, <1>1, <1>2, <1>3 DEF Apart, LoadPC
  <1>12. Held' BY <1>0, <1>1, <1>2, <1>3, <1>4 DEF Held, LoadPC
  <1>13. Solo'
    <2>1. \A d, e \in Call : lib'[d] \in NoGroup /\ d # e => pc'[e] = "idle"
      BY <1>0, <1>1, <1>2, <1>3 DEF Solo
    <2>2. \A d \in Call : lib'[d] \in NoGroup /\ pc'[d] # "push" => libs' = curr'[d]
      BY <1>0, <1>1, <1>2, <1>3 DEF Solo
    <2>3. \A m \in Listed' : lib_handle'[m] \in NoGroup => \E d \in Call : curr'[d] = m
      BY <1>0, <1>2, <1>4 DEF Solo
    <2> QED BY <2>1, <2>2, <2>3 DEF Solo
  <1>14. Counted'
    BY <1>0, <1>2, <1>5, <1>6, <1>7, <1>8, CountedAsBefore
  <1>15. Entered' BY <1>0, <1>1, <1>2, <1>3, <1>5 DEF Entered, Types
  <1>16. Found'
    <2> SUFFICES ASSUME NEW d \in Call, NEW k \in Lib, lib[d] = k
                 PROVE  /\ pc'[d] = "close" /\ curr'[d] = None => NodesOf(k)' = {}
                        /\ pc'[d] \in {"unloadSymbol", "delete", "unlink"} /\ d \notin shared
                              => NodesOf(k)' # {}
      BY <1>2 DEF Found
    <2>1. CASE k = l BY <1>0, <1>1, <1>3, <2>1 DEF Apart, LoadPC
    <2>2. CASE k # l BY <1>0, <1>1, <1>2, <1>3, <1>5, <2>2 DEF Found
    <2> QED BY <2>1, <2>2
  <1> QED BY <1>9, <1>10, <1>11, <1>12, <1>13, <1>14, <1>15, <1>16 DEF LibInv

\* Looking for the group symbol, and closing a library that has none.
LEMMA SymbolStep ==
  ASSUME LibInv, Types', NEW c \in Call, Symbol(c), NEW l, lib[c] = l, NEW n, curr[c] = n
  PROVE  LibInv'
  <1>0. /\ Types /\ Chain /\ CallInv /\ Apart /\ Held /\ Solo /\ Counted /\ Entered /\ Found
    BY DEF LibInv
  <1>1. /\ pc[c] = "symbol" /\ n \in Nodes /\ n \in Listed /\ n # None
        /\ l \in Lib /\ l # None /\ lib_handle[n] = l
    BY <1>0, AtWork DEF Symbol, At, Held, Types, LoadPC
  <1>2. /\ lib' = lib /\ curr' = curr /\ shared' = shared /\ registered' = registered
        /\ lib_handle' = lib_handle /\ allocated' = allocated
        /\ libs' = libs /\ next_lib' = next_lib
    BY DEF Symbol, listVars
  <1>3. Listed' = Listed BY <1>0, <1>2, SameList
  <1>4. \A k : NodesOf(k)' = NodesOf(k) /\ Holding(k)' = Holding(k)
    BY <1>2, <1>3 DEF NodesOf, Holding
  <1>5. /\ pc'[c] \in {"register", "unpush"}
        /\ pc'[c] = "unpush" <=> l \in NoGroup
        /\ \A d \in Call \ {c} : pc'[d] = pc[d]
    BY <1>0 DEF Symbol, Goto, Types
  <1>6. /\ \A k : Unloads(k)' = Unloads(k)
        /\ Unloads(l) = {}
    BY <1>0, <1>1, <1>2, <1>5 DEF Unloads, UnloadPC, Apart, LoadPC
  <1>7. Chain' /\ CallInv' /\ Apart' /\ Held'
    <2>1. Chain' BY <1>0, <1>2, <1>3 DEF Chain
    <2>2. CallInv' BY <1>0, <1>1, <1>2, <1>5 DEF CallInv, LoadPC
    <2>3. Apart' BY <1>0, <1>1, <1>2, <1>5 DEF Apart, LoadPC
    <2>4. Held' BY <1>0, <1>1, <1>2, <1>3, <1>5 DEF Held, LoadPC
    <2> QED BY <2>1, <2>2, <2>3, <2>4
  <1>8. Solo' /\ Entered' /\ Found'
    <2>1. Solo' BY <1>0, <1>1, <1>2, <1>3, <1>5 DEF Solo
    <2>2. Entered' BY <1>0, <1>1, <1>2, <1>4, <1>5 DEF Entered
    <2>3. Found' BY <1>0, <1>1, <1>2, <1>4, <1>5 DEF Found
    <2> QED BY <2>1, <2>2, <2>3
  <1>9. Counted'
    <2>1. CASE l \notin NoGroup
      <3>1. opened' = opened BY <2>1 DEF Symbol
      <3>2. \A k : Openings(k)' = Openings(k)
        BY <1>1, <1>2, <1>3, <1>4, <1>5, <2>1 DEF Openings
      <3> QED BY <1>0, <1>4, <1>6, <3>1, <3>2, CountedAsBefore
    <2>2. CASE l \in NoGroup
      <3>1. n \in Openings(l)
        BY <1>0, <1>1 DEF Openings, Holding, Held
      <3>2. Openings(l)' = Openings(l) \ {n}
        BY <1>0, <1>1, <1>2, <1>3, <1>4, <1>5, <2>2 DEF Openings, Held
      <3>3. \A k \in Lib \ {l} : Openings(k)' = Openings(k)
        BY <1>1, <1>2, <1>3, <1>4, <1>5 DEF Openings, Holding
      <3>4. opened[l] = Cardinality(Openings(l)) + Cardinality(Unloads(l))
        BY <1>0, <1>1, <1>6, OpenTimes
      <3>5. Cardinality(Openings(l)') = Cardinality(Openings(l)) - 1
        BY <3>1, <3>2, FS_RemoveElement, CountsAreNumbers
      <3>6. opened' = [opened EXCEPT ![l] = IF @ < 1 THEN 0 ELSE @ - 1]
        BY <2>2 DEF Symbol, DlClose
      <3>7. opened'[l] = Cardinality(Openings(l)') + Cardinality(Unloads(l)')
        <4>1. Cardinality(Openings(l)) \in Nat /\ Cardinality(Unloads(l)) \in Nat
              /\ Cardinality(Openings(l)') \in Nat
          BY CountsAreNumbers
        <4>2. opened'[l] = IF opened[l] < 1 THEN 0 ELSE opened[l] - 1
          BY <1>0, <1>1, <3>6 DEF Types
        <4>3. Cardinality(Unloads(l)') = Cardinality(Unloads(l)) BY <1>6
        <4> QED BY <3>4, <3>5, <4>1, <4>2, <4>3
      <3>8. opened'[l] <= Cardinality(Openings(l)') + Cardinality(Unloads(l)')
        BY <3>7, CountsAreNumbers
      <3>9. \A k \in Lib \ {l} :
              /\ opened'[k] <= Cardinality(Openings(k)') + Cardinality(Unloads(k)')
              /\ NodesOf(k)' # {} \/ Unloads(k)' = {} =>
                    opened'[k] = Cardinality(Openings(k)') + Cardinality(Unloads(k)')
        BY <1>0, <1>4, <1>6, <3>3, <3>6 DEF Counted, Types
      <3> QED BY <3>7, <3>8, <3>9 DEF Counted
    <2> QED BY <2>1, <2>2
  <1> QED BY <1>7, <1>8, <1>9 DEF LibInv

\* Taking the node of a library without the symbol off the list again.
LEMMA UnpushStep ==
  ASSUME LibInv, Types', NEW c \in Call, Unpush(c), NEW l, lib[c] = l, NEW n, curr[c] = n
  PROVE  LibInv'
  <1>0. /\ Types /\ Chain /\ CallInv /\ Apart /\ Held /\ Solo /\ Counted /\ Entered /\ Found
    BY DEF LibInv
  <1>1. /\ pc[c] = "unpush" /\ n \in Nodes /\ n \in Listed /\ n # None
        /\ l \in NoGroup /\ l \in Lib /\ l # None /\ lib_handle[n] = l /\ libs = n
    BY <1>0, AtWork DEF Unpush, At, Held, Types, LoadPC, CallInv, Solo
  <1>2. /\ libs' = next_lib[n] /\ next_lib' = next_lib /\ lib_handle' = lib_handle
        /\ opened' = opened /\ registered' = registered /\ allocated' = allocated \ {n}
        /\ shared' = shared \ {c}
    BY DEF Unpush, Return
  <1>3. /\ \A d \in Call : pc'[d] = IF d = c THEN "idle" ELSE pc[d]
        /\ \A d \in Call : lib'[d] = IF d = c THEN None ELSE lib[d]
        /\ \A d \in Call : curr'[d] = IF d = c THEN None ELSE curr[d]
    BY <1>0 DEF Unpush, Return, Types
  <1>4. \A d \in Call : pc'[d] = "idle" /\ lib'[d] = None /\ curr'[d] = None
    BY <1>0, <1>1, <1>3 DEF Solo, CallInv, Held, LoadPC
  <1>5. /\ UnlinkNode(n)
        /\ Listed' = Listed \ {n}
    BY <1>0, <1>1, <1>2, UnlinkedList DEF UnlinkNode
  <1>6. \A k : NodesOf(k)' = NodesOf(k) \ {n} /\ Holding(k)' = Holding(k)
    BY <1>2, <1>5 DEF NodesOf, Holding
  <1>7. \A k \in Lib : Unloads(k)' = Unloads(k)
    BY <1>0, <1>1, <1>3, <1>4, AtWork DEF Unloads, UnloadPC, Solo
  <1>8. \A k : Openings(k)' = Openings(k)
    <2>1. \A m \in Nodes : m # n => ~ \E d \in Call : curr[d] = m
      BY <1>3, <1>4, LibAssumption
    <2>2. \A m \in Nodes : ~ \E d \in Call : curr'[d] = m BY <1>4, LibAssumption
    <2>3. ~ \E d \in Call : pc[d] \in {"push", "close"} /\ curr[d] = n
      BY <1>0, <1>1 DEF Held
    <2>4. \A k, m : m \in Openings(k)' <=> m \in Listed \ {n} /\ m \in Holding(k)
      BY <1>5, <1>6, <2>2 DEF Openings, Holding
    <2>5. \A k, m : m \in Openings(k) <=> m \in Listed \ {n} /\ m \in Holding(k)
      BY <1>1, <2>1, <2>3 DEF Openings, Holding
    <2> QED BY <2>4, <2>5
  <1>9. Chain'
    <2>1. Listed' \subseteq allocated' BY <1>0, <1>2, <1>5 DEF Chain
    <2> QED BY <1>0, <1>1, <1>5, <2>1, UnlinkedList DEF Chain
  <1>10. CallInv' /\ Apart'
    BY <1>4, LibAssumption DEF CallInv, Apart, LoadPC
  <1>11. Held' BY <1>4 DEF Held, LoadPC
  <1>12. Solo'
    <2>1. \A m \in Listed' : lib_handle'[m] \notin NoGroup
      <3> SUFFICES ASSUME NEW m \in Listed \ {n}, lib_handle[m] \in NoGroup
                   PROVE  FALSE
        BY <1>2, <1>5
      <3>1. m # None BY <1>0, ListFollows, LibAssumption
      <3>2. PICK d \in Call : curr[d] = m BY <1>0 DEF Solo
      <3> QED BY <1>3, <1>4, <3>1, <3>2
    <2> QED BY <1>4, <2>1, LibAssumption DEF Solo
  <1>13. Counted'
    BY <1>0, <1>2, <1>6, <1>7, <1>8, CountedAsBefore
  <1>14. Entered'
    <2>1. \A k \in registered : n \notin NodesOf(k) BY <1>0, <1>1 DEF NodesOf, Holding, Entered
    <2> QED BY <1>0, <1>2, <1>4, <1>6, <2>1 DEF Entered
  <1>15. Found' BY <1>4 DEF Found
  <1> QED BY <1>9, <1>10, <1>11, <1>12, <1>13, <1>14, <1>15 DEF LibInv

\* Entering the cases of the library.
LEMMA RegisterStep ==
  ASSUME LibInv, Types', NEW c \in Call, Register(c), NEW l, lib[c] = l, NEW n, curr[c] = n
  PROVE  LibInv'
  <1>0. /\ Types /\ Chain /\ CallInv /\ Apart /\ Held /\ Solo /\ Counted /\ Entered /\ Found
    BY DEF LibInv
  <1>1. /\ pc[c] = "register" /\ n \in Nodes /\ n \in Listed /\ n # None
        /\ l \in Lib /\ l # None /\ l \notin NoGroup /\ lib_handle[n] = l
    BY <1>0, AtWork DEF Register, At, Held, Types, LoadPC, CallInv
  <1>2. /\ libs' = libs /\ next_lib' = next_lib /\ lib_handle' = lib_handle
        /\ opened' = opened /\ registered' = registered \cup {l} /\ allocated' = allocated
        /\ shared' = shared \ {c}
    BY DEF Register, Return, listVars
  <1>3. /\ \A d \in Call : pc'[d] = IF d = c THEN "idle" ELSE pc[d]
        /\ \A d \in Call : lib'[d] = IF d = c THEN None ELSE lib[d]
        /\ \A d \in Call : curr'[d] = IF d = c THEN None ELSE curr[d]
    BY <1>0 DEF Register, Return, Types
  <1>4. Listed' = Listed BY <1>0, <1>2, SameList
  <1>5. \A k : NodesOf(k)' = NodesOf(k) /\ Holding(k)' = Holding(k)
    BY <1>2, <1>4 DEF NodesOf, Holding
  <1>6. \A k \in Lib : Unloads(k)' = Unloads(k)
    BY <1>1, <1>3 DEF Unloads, UnloadPC
  <1>7. \A k : Openings(k)' = Openings(k)
    BY <1>1, <1>3, <1>4, <1>5 DEF Openings
  <1>8. Chain' /\ CallInv' /\ Apart' /\ Held'
    <2>1. Chain' BY <1>0, <1>2, <1>4 DEF Chain
    <2>2. CallInv' BY <1>0, <1>3, LibAssumption DEF CallInv
    <2>3. Apart' BY <1>0, <1>2, <1>3 DEF Apart
    <2>4. Held' BY <1>0, <1>2, <1>3, <1>4 DEF Held, LoadPC
    <2> QED BY <2>1, <2>2, <2>3, <2>4
  <1>9. Solo'
    <2>1. \A d, e \in Call : lib'[d] \in NoGroup /\ d # e => pc'[e] = "idle"
      BY <1>0, <1>3, LibAssumption DEF Solo
    <2>2. \A d \in Call : lib'[d] \in NoGroup /\ pc'[d] # "push" => libs' = curr'[d]
      BY <1>0, <1>2, <1>3, LibAssumption DEF Solo
    <2>3. \A m \in Listed' : lib_handle'[m] \in NoGroup => \E d \in Call : curr'[d] = m
      BY <1>0, <1>1, <1>2, <1>3, <1>4 DEF Solo
    <2> QED BY <2>1, <2>2, <2>3 DEF Solo
  <1>10. Counted' BY <1>0, <1>2, <1>5, <1>6, <1>7, CountedAsBefore
  <1>11. Entered'
    <2>1. n \in NodesOf(l) BY <1>1 DEF NodesOf, Holding
    <2>2. \A d \in Call : lib'[d] = l => pc'[d] \notin {"unlink", "close"}
      BY <1>0, <1>1, <1>3 DEF Apart, LoadPC
    <2>3. \A k \in registered, d \in Call : lib'[d] = k => pc'[d] \notin {"unlink", "close"}
      BY <1>0, <1>3 DEF Entered
    <2> QED BY <1>0, <1>1, <1>2, <1>5, <2>1, <2>2, <2>3 DEF Entered
  <1>12. Found' BY <1>0, <1>2, <1>3, <1>5 DEF Found
  <1> QED BY <1>8, <1>9, <1>10, <1>11, <1>12 DEF LibInv

----------------------------------------------------------------------------
(* The steps of an unload.                                                 *)

\* Opening the library again.
LEMMA UnloadStep ==
  ASSUME LibInv, Types', "bad" \notin Overlap, NEW c \in Call, NEW l \in Lib, Unload(c, l)
  PROVE  LibInv'
  <1>0. /\ Types /\ Chain /\ CallInv /\ Apart /\ Held /\ Solo /\ Counted /\ Entered /\ Found
    BY DEF LibInv
  <1>1. /\ pc[c] = "idle" /\ lib[c] = None /\ l # None /\ curr[c] = None
        /\ opened[l] > 0 /\ opened' = [opened EXCEPT ![l] = @ + 1]
        /\ \A d \in Call : lib[d] = l => pc[d] \in UnloadPC
    BY <1>0, LibAssumption DEF Unload, MayCall, Users, At, DlOpen, CallInv, Held, LoadPC
  <1>2. /\ curr' = curr /\ registered' = registered /\ libs' = libs /\ next_lib' = next_lib
        /\ lib_handle' = lib_handle /\ allocated' = allocated
    BY DEF Unload, listVars
  <1>3. /\ \A d \in Call : pc'[d] = IF d = c THEN "unloadSymbol" ELSE pc[d]
        /\ \A d \in Call : lib'[d] = IF d = c THEN l ELSE lib[d]
    BY <1>0 DEF Unload, Enter, Goto, Types
  <1>4. \A d \in Call : lib[d] \notin NoGroup
    <2>1. Quiet \/ \A d \in Call : lib[d] \notin NoGroup BY DEF Unload, MayCall
    <2>2. Quiet => \A d \in Call : lib[d] = None BY <1>0 DEF Quiet, CallInv
    <2> QED BY <2>1, <2>2, LibAssumption
  <1>5. l \notin NoGroup
    <2> SUFFICES ASSUME l \in NoGroup PROVE FALSE
      OBVIOUS
    <2>1. \A d \in Call : lib[d] # l BY <1>4
    <2>2. opened[l] = 0 BY <2>1, ClosedUnlessLoaded
    <2> QED BY <1>1, <2>2
  <1>6. Listed' = Listed BY <1>0, <1>2, SameList
  <1>7. \A k : NodesOf(k)' = NodesOf(k) /\ Holding(k)' = Holding(k)
    BY <1>2, <1>6 DEF NodesOf, Holding
  <1>8. /\ c \notin Unloads(l) /\ Unloads(l)' = Unloads(l) \cup {c}
        /\ \A k \in Lib \ {l} : Unloads(k)' = Unloads(k)
    BY <1>1, <1>3 DEF Unloads, UnloadPC
  <1>9. \A k : Openings(k)' = Openings(k)
    BY <1>1, <1>2, <1>3, <1>6, <1>7 DEF Openings
  <1>10. /\ shared \subseteq shared'
         /\ (\E d \in Call : lib[d] = l) => c \in shared' /\ \A d \in Call : lib[d] = l => d \in shared'
    BY DEF Unload, Enter, Users
  <1>11. Chain' /\ CallInv' /\ Apart' /\ Held'
    <2>1. Chain' BY <1>0, <1>2, <1>6 DEF Chain
    <2>2. CallInv' BY <1>0, <1>1, <1>3, <1>5 DEF CallInv
    <2>3. Apart' BY <1>0, <1>1, <1>3, <1>10 DEF Apart, LoadPC, UnloadPC
    <2>4. Held' BY <1>0, <1>1, <1>2, <1>3, <1>6 DEF Held, LoadPC
    <2> QED BY <2>1, <2>2, <2>3, <2>4
  <1>12. Solo' BY <1>0, <1>2, <1>3, <1>4, <1>5, <1>6 DEF Solo
  <1>13. Counted'
    <2>1. opened'[l] = opened[l] + 1 /\ \A k \in Lib \ {l} : opened'[k] = opened[k]
      BY <1>0, <1>1 DEF Types
    <2>2. Cardinality(Unloads(l)') = Cardinality(Unloads(l)) + 1
      BY <1>8, FS_AddElement, CountsAreNumbers
    <2>3. Cardinality(Openings(l)') = Cardinality(Openings(l)) BY <1>9
    <2>4. /\ opened[l] \in Nat
          /\ Cardinality(Openings(l)) \in Nat /\ Cardinality(Unloads(l)) \in Nat
      BY <1>0, CountsAreNumbers DEF Types
    <2>5. opened'[l] <= Cardinality(Openings(l)') + Cardinality(Unloads(l)')
      BY <1>0, <2>1, <2>2, <2>3, <2>4 DEF Counted
    <2>6. NodesOf(l)' # {} \/ Unloads(l)' = {} =>
             opened'[l] = Cardinality(Openings(l)') + Cardinality(Unloads(l)')
      <3>1. Unloads(l)' # {} BY <1>8
      <3>2. NodesOf(l) # {} => opened[l] = Cardinality(Openings(l)) + Cardinality(Unloads(l))
        BY <1>0 DEF Counted
      <3> QED BY <1>7, <2>1, <2>2, <2>3, <2>4, <3>1, <3>2
    <2>7. \A k \in Lib \ {l} :
            /\ opened'[k] <= Cardinality(Openings(k)') + Cardinality(Unloads(k)')
            /\ NodesOf(k)' # {} \/ Unloads(k)' = {} =>
                  opened'[k] = Cardinality(Openings(k)') + Cardinality(Unloads(k)')
      BY <1>0, <1>7, <1>8, <1>9, <2>1 DEF Counted
    <2> QED BY <2>5, <2>6, <2>7 DEF Counted
  <1>14. Entered' BY <1>0, <1>2, <1>3, <1>7 DEF Entered
  <1>15. Found'
    <2>1. (\A d \in Call : lib[d] # l) => NodesOf(l) # {}
      <3> SUFFICES ASSUME \A d \in Call : lib[d] # l, NodesOf(l) = {} PROVE FALSE
        OBVIOUS
      <3>1. Openings(l) = {} BY <1>0, OpeningsAtRest
      <3>2. Unloads(l) = {} BY DEF Unloads
      <3> QED BY <1>0, <1>1, <3>1, <3>2, OpenTimes, FS_EmptySet
    <2> QED BY <1>0, <1>1, <1>2, <1>3, <1>7, <1>10, <2>1 DEF Found
  <1> QED BY <1>11, <1>12, <1>13, <1>14, <1>15 DEF LibInv

\* Looking for the group symbol; giving up where the library is no longer mapped.
LEMMA UnloadSymbolStep ==
  ASSUME LibInv, Types', NEW c \in Call, UnloadSymbol(c), NEW l, lib[c] = l
  PROVE  LibInv'
  <1>0. /\ Types /\ Chain /\ CallInv /\ Apart /\ Held /\ Solo /\ Counted /\ Entered /\ Found
    BY DEF LibInv
  <1>1. /\ pc[c] = "unloadSymbol" /\ l \in Lib /\ l # None /\ l \notin NoGroup
        /\ curr[c] = None
    BY <1>0, AtWork DEF UnloadSymbol, At, CallInv, LoadPC, Held
  <1>2. /\ libs' = libs /\ next_lib' = next_lib /\ lib_handle' = lib_handle
        /\ registered' = registered /\ allocated' = allocated
    BY DEF UnloadSymbol, listVars
  <1>3. Listed' = Listed BY <1>0, <1>2, SameList
  <1>4. \A k : NodesOf(k)' = NodesOf(k) /\ Holding(k)' = Holding(k)
    BY <1>2, <1>3 DEF NodesOf, Holding
  <1>5. Chain' BY <1>0, <1>2, <1>3 DEF Chain
  <1>6. CASE UNCHANGED <<lib, shared, curr, opened>> /\ Goto(c, "delete")
    <2>1. \A d \in Call : pc'[d] = IF d = c THEN "delete" ELSE pc[d]
      BY <1>0, <1>6 DEF Goto, Types
    <2>2. \A k : Unloads(k)' = Unloads(k)
      BY <1>1, <1>6, <2>1 DEF Unloads, UnloadPC
    <2>3. \A k : Openings(k)' = Openings(k)
      BY <1>1, <1>3, <1>4, <1>6, <2>1 DEF Openings
    <2>4. CallInv' BY <1>0, <1>1, <1>6, <2>1 DEF CallInv
    <2>5. Apart' BY <1>0, <1>1, <1>6, <2>1 DEF Apart, LoadPC
    <2>6. Held' BY <1>0, <1>1, <1>2, <1>3, <1>6, <2>1 DEF Held, LoadPC
    <2>7. Solo' BY <1>0, <1>1, <1>2, <1>3, <1>6, <2>1 DEF Solo
    <2>8. Counted' BY <1>0, <1>4, <1>6, <2>2, <2>3, CountedAsBefore
    <2>9. Entered' BY <1>0, <1>2, <1>4, <1>6, <2>1 DEF Entered
    <2>10. Found' BY <1>0, <1>1, <1>4, <1>6, <2>1 DEF Found
    <2> QED BY <1>5, <2>4, <2>5, <2>6, <2>7, <2>8, <2>9, <2>10 DEF LibInv
  <1>7. CASE opened[l] = 0 /\ Return(c) /\ DlClose(l, 1)
    <2>1. /\ \A d \in Call : pc'[d] = IF d = c THEN "idle" ELSE pc[d]
          /\ \A d \in Call : lib'[d] = IF d = c THEN None ELSE lib[d]
          /\ \A d \in Call : curr'[d] = curr[d]
          /\ shared' = shared \ {c}
      BY <1>0, <1>1, <1>7 DEF Return, Types
    <2>2. c \in Unloads(l) /\ Unloads(l)' = Unloads(l) \ {c}
      BY <1>1, <2>1 DEF Unloads, UnloadPC
    <2>3. \A k \in Lib \ {l} : Unloads(k)' = Unloads(k)
      BY <1>1, <2>1, LibAssumption DEF Unloads
    <2>4. \A k : Openings(k)' = Openings(k)
      BY <1>1, <1>3, <1>4, <2>1 DEF Openings
    <2>5. NodesOf(l) = {}
      <3> SUFFICES ASSUME NodesOf(l) # {} PROVE FALSE
        OBVIOUS
      <3>1. Cardinality(Openings(l)) + Cardinality(Unloads(l)) = 0
        BY <1>0, <1>1, <1>7, OpenTimes
      <3>2. Cardinality(Unloads(l)) = 0 BY <3>1, CountsAreNumbers
      <3> QED BY <2>2, <3>2, FS_EmptySet, CountsAreNumbers
    <2>6. Unloads(l)' = {} => Openings(l) = {}
      <3> SUFFICES ASSUME Unloads(l)' = {}, NEW m \in Openings(l) PROVE FALSE
        OBVIOUS
      <3>1. m \in Holding(l) /\ m # None /\ m \notin Listed
        BY <2>5, LibAssumption DEF Openings, NodesOf, Holding
      <3>2. PICK d \in Call : pc[d] \in {"push", "close"} /\ curr[d] = m
        BY <3>1 DEF Openings
      <3>3. lib[d] = l /\ d # c BY <1>0, <1>1, <3>1, <3>2 DEF Held, Holding
      <3>4. pc[d] = "close" BY <1>0, <1>1, <3>2, <3>3 DEF Apart, LoadPC
      <3> QED BY <2>2, <3>3, <3>4 DEF Unloads, UnloadPC
    <2>7. opened' = opened
      BY <1>0, <1>1, <1>7 DEF DlClose, Types
    <2>8. CallInv' BY <1>0, <2>1, LibAssumption DEF CallInv
    <2>9. Apart' BY <1>0, <2>1 DEF Apart
    <2>10. Held' BY <1>0, <1>1, <1>2, <1>3, <2>1 DEF Held, LoadPC
    <2>11. Solo'
      <3>1. \A d \in Call : lib'[d] \in NoGroup => lib[d] \in NoGroup /\ pc'[d] = pc[d]
        BY <1>1, <2>1, LibAssumption
      <3>2. \A d, e \in Call : lib'[d] \in NoGroup /\ d # e => pc'[e] = "idle"
        BY <1>0, <2>1, <3>1 DEF Solo
      <3>3. \A d \in Call : lib'[d] \in NoGroup /\ pc'[d] # "push" => libs' = curr'[d]
        BY <1>0, <1>2, <2>1, <3>1 DEF Solo
      <3>4. \A m \in Listed' : lib_handle'[m] \in NoGroup => \E d \in Call : curr'[d] = m
        BY <1>0, <1>2, <1>3, <2>1 DEF Solo
      <3> QED BY <3>2, <3>3, <3>4 DEF Solo
    <2>12. Counted'
      <3>1. opened'[l] <= Cardinality(Openings(l)') + Cardinality(Unloads(l)')
        BY <1>7, <2>7, CountsAreNumbers
      <3>2. Unloads(l)' = {} => opened'[l] = Cardinality(Openings(l)') + Cardinality(Unloads(l)')
        <4>1. Unloads(l)' = {} => Cardinality(Openings(l)') = 0 /\ Cardinality(Unloads(l)') = 0
          BY <2>4, <2>6, FS_EmptySet
        <4> QED BY <1>7, <2>7, <4>1
      <3>3. \A k \in Lib \ {l} :
              /\ opened'[k] <= Cardinality(Openings(k)') + Cardinality(Unloads(k)')
              /\ NodesOf(k)' # {} \/ Unloads(k)' = {} =>
                    opened'[k] = Cardinality(Openings(k)') + Cardinality(Unloads(k)')
        BY <1>0, <1>4, <2>3, <2>4, <2>7 DEF Counted
      <3> QED BY <1>4, <2>5, <3>1, <3>2, <3>3 DEF Counted
    <2>13. Entered'
      <3>1. l \notin registered BY <1>0, <2>5 DEF Entered
      <3> QED BY <1>0, <1>2, <1>4, <2>1, <3>1, LibAssumption DEF Entered, Types
    <2>14. Found' BY <1>0, <1>1, <1>4, <2>1 DEF Found
    <2> QED BY <1>5, <2>8, <2>9, <2>10, <2>11, <2>12, <2>13, <2>14 DEF LibInv
  <1> QED BY <1>1, <1>6, <1>7 DEF UnloadSymbol

\* Deleting the cases of the library.
LEMMA DeleteStep ==
  ASSUME LibInv, Types', NEW c \in Call, Delete(c), NEW l, lib[c] = l
  PROVE  LibInv'
  <1>0. /\ Types /\ Chain /\ CallInv /\ Apart /\ Held /\ Solo /\ Counted /\ Entered /\ Found
    BY DEF LibInv
  <1>1. pc[c] = "delete" /\ l \in Lib /\ l # None /\ curr[c] = None
    BY <1>0, AtWork DEF Delete, At, LoadPC, Held
  <1>2. /\ libs' = libs /\ next_lib' = next_lib /\ lib_handle' = lib_handle
        /\ registered' = registered \ {l} /\ allocated' = allocated
        /\ lib' = lib /\ shared' = shared /\ curr' = curr /\ opened' = opened
    BY DEF Delete, listVars
  <1>3. \A d \in Call : pc'[d] = IF d = c THEN "unlink" ELSE pc[d]
    BY <1>0 DEF Delete, Goto, Types
  <1>4. Listed' = Listed BY <1>0, <1>2, SameList
  <1>5. \A k : NodesOf(k)' = NodesOf(k) /\ Holding(k)' = Holding(k)
    BY <1>2, <1>4 DEF NodesOf, Holding
  <1>6. \A k : Unloads(k)' = Unloads(k)
    BY <1>1, <1>2, <1>3 DEF Unloads, UnloadPC
  <1>7. \A k : Openings(k)' = Openings(k)
    BY <1>1, <1>2, <1>3, <1>4, <1>5 DEF Openings
  <1>8. Chain' BY <1>0, <1>2, <1>4 DEF Chain
  <1>9. CallInv' BY <1>0, <1>1, <1>2, <1>3 DEF CallInv, LoadPC
  <1>10. Apart' BY <1>0, <1>1, <1>2, <1>3 DEF Apart, LoadPC
  <1>11. Held' BY <1>0, <1>1, <1>2, <1>3, <1>4 DEF Held, LoadPC
  <1>12. Solo' BY <1>0, <1>1, <1>2, <1>3, <1>4 DEF Solo
  <1>13. Counted' BY <1>0, <1>2, <1>5, <1>6, <1>7, CountedAsBefore
  <1>14. Entered' BY <1>0, <1>2, <1>3, <1>5 DEF Entered
  <1>15. Found' BY <1>0, <1>1, <1>2, <1>3, <1>5 DEF Found
  <1> QED BY <1>8, <1>9, <1>10, <1>11, <1>12, <1>13, <1>14, <1>15 DEF LibInv

\* Taking the first node of the library off the list.
LEMMA UnlinkStep ==
  ASSUME LibInv, Types', NEW c \in Call, Unlink(c), NEW l, lib[c] = l,
         NodesOf(l) # {}, NEW n, FirstOf(l) = n
  PROVE  LibInv'
  <1>0. /\ Types /\ Chain /\ CallInv /\ Apart /\ Held /\ Solo /\ Counted /\ Entered /\ Found
    BY DEF LibInv
  <1>1. /\ pc[c] = "unlink" /\ l \in Lib /\ l # None /\ l \notin NoGroup /\ curr[c] = None
        /\ n \in NodesOf(l) /\ n \in Nodes /\ n \in Listed /\ n # None /\ lib_handle[n] = l
    BY <1>0, AtWork, FirstFound, LibAssumption DEF Unlink, At, CallInv, LoadPC, Held, NodesOf, Holding
  <1>2. /\ lib_handle' = lib_handle /\ registered' = registered /\ allocated' = allocated
        /\ lib' = lib /\ shared' = shared /\ opened' = opened
        /\ UnlinkNode(n)
    BY DEF Unlink
  <1>3. /\ \A d \in Call : pc'[d] = IF d = c THEN "close" ELSE pc[d]
        /\ \A d \in Call : curr'[d] = IF d = c THEN n ELSE curr[d]
    BY <1>0 DEF Unlink, Goto, Types
  <1>4. Listed' = Listed \ {n} BY <1>0, <1>1, <1>2, UnlinkedList
  <1>5. \A k : NodesOf(k)' = NodesOf(k) \ {n} /\ Holding(k)' = Holding(k)
    BY <1>2, <1>4 DEF NodesOf, Holding
  <1>6. \A k \in Lib \ {l} : n \notin NodesOf(k) BY <1>1 DEF NodesOf, Holding
  <1>7. \A k : Unloads(k)' = Unloads(k)
    BY <1>1, <1>2, <1>3 DEF Unloads, UnloadPC
  <1>8. \A d \in Call : curr[d] # n
    <2> SUFFICES ASSUME NEW d \in Call, curr[d] = n PROVE FALSE
      OBVIOUS
    <2>1. pc[d] \in LoadPC \cup {"close"} /\ lib[d] = l BY <1>0, <1>1 DEF Held
    <2>2. pc[d] = "close" BY <1>0, <1>1, <2>1 DEF Apart, LoadPC
    <2> QED BY <1>0, <1>1, <2>2 DEF Held
  <1>9. \A k : Openings(k)' = Openings(k)
    <2> SUFFICES ASSUME NEW k, NEW m \in Holding(k)
                 PROVE  m \in Openings(k)' <=> m \in Openings(k)
      BY <1>5 DEF Openings
    <2>1. CASE m = n
      <3>1. m \in Openings(k) BY <1>1, <1>8, <2>1 DEF Openings
      <3>2. m \in Openings(k)' BY <1>3, <1>5, <2>1 DEF Openings
      <3> QED BY <3>1, <3>2
    <2>2. CASE m # n
      <3>1. m # None BY LibAssumption DEF Holding
      <3> QED BY <1>1, <1>3, <1>4, <1>5, <2>2, <3>1 DEF Openings
    <2> QED BY <2>1, <2>2
  <1>10. Chain'
    <2>1. Listed' \subseteq allocated' BY <1>0, <1>2, <1>4 DEF Chain
    <2> QED BY <1>0, <1>1, <1>2, <2>1, UnlinkedList DEF Chain
  <1>11. CallInv' BY <1>0, <1>1, <1>2, <1>3 DEF CallInv, LoadPC
  <1>12. Apart' BY <1>0, <1>1, <1>2, <1>3 DEF Apart, LoadPC
  <1>13. Held'
    <2>1. n \in allocated BY <1>0, <1>1 DEF Chain
    <2>2. \A d \in Call : pc[d] \in {"symbol", "unpush", "register"} => curr'[d] \in Listed'
      BY <1>0, <1>1, <1>3, <1>4, <1>8 DEF Held
    <2>3. \A d, e \in Call : curr'[d] = curr'[e] /\ curr'[d] # None => d = e
      BY <1>0, <1>3, <1>8 DEF Held
    <2> QED BY <1>0, <1>1, <1>2, <1>3, <1>4, <2>1, <2>2, <2>3 DEF Held, LoadPC
  <1>14. Solo'
    <2>1. \A d \in Call : lib[d] \notin NoGroup BY <1>0, <1>1 DEF Solo
    <2>2. None \notin Listed BY <1>0, ListFollows, LibAssumption
    <2>3. \A m \in Listed' : lib_handle'[m] \in NoGroup => \E d \in Call : curr'[d] = m
      BY <1>0, <1>1, <1>2, <1>3, <1>4, <2>2 DEF Solo
    <2> QED BY <1>2, <2>1, <2>3 DEF Solo
  <1>15. Counted' BY <1>0, <1>2, <1>5, <1>7, <1>9, CountedAsBefore
  <1>16. Entered'
    <2>1. l \notin registered BY <1>0, <1>1 DEF Entered
    <2>2. \A k \in registered : NodesOf(k)' # {}
      BY <1>0, <1>5, <1>6, <2>1 DEF Entered, Types
    <2> QED BY <1>0, <1>2, <1>3, <2>1, <2>2 DEF Entered
  <1>17. Found'
    <2> SUFFICES ASSUME NEW d \in Call, NEW k \in Lib, lib[d] = k
                 PROVE  /\ pc'[d] = "close" /\ curr'[d] = None => NodesOf(k)' = {}
                        /\ pc'[d] \in {"unloadSymbol", "delete", "unlink"} /\ d \notin shared
                              => NodesOf(k)' # {}
      BY <1>2 DEF Found
    <2>1. CASE d = c BY <1>1, <1>3, <2>1
    <2>2. CASE d # c /\ k = l BY <1>0, <1>1, <1>3, <2>2 DEF Found, Apart
    <2>3. CASE d # c /\ k # l BY <1>0, <1>3, <1>5, <1>6, <2>3 DEF Found
    <2> QED BY <2>1, <2>2, <2>3
  <1> QED BY <1>10, <1>11, <1>12, <1>13, <1>14, <1>15, <1>16, <1>17 DEF LibInv

\* Finding no node of the library in the list.
LEMMA UnlinkNothingStep ==
  ASSUME LibInv, Types', NEW c \in Call, Unlink(c), NEW l, lib[c] = l, NodesOf(l) = {}
  PROVE  LibInv'
  <1>0. /\ Types /\ Chain /\ CallInv /\ Apart /\ Held /\ Solo /\ Counted /\ Entered /\ Found
    BY DEF LibInv
  <1>1. pc[c] = "unlink" /\ l \in Lib /\ l # None /\ l \notin NoGroup /\ curr[c] = None
    BY <1>0, AtWork DEF Unlink, At, CallInv, LoadPC, Held
  <1>2. /\ lib_handle' = lib_handle /\ registered' = registered /\ allocated' = allocated
        /\ lib' = lib /\ shared' = shared /\ opened' = opened
        /\ libs' = libs /\ next_lib' = next_lib /\ curr' = curr
    BY DEF Unlink
  <1>3. \A d \in Call : pc'[d] = IF d = c THEN "close" ELSE pc[d]
    BY <1>0 DEF Unlink, Goto, Types
  <1>4. Listed' = Listed BY <1>0, <1>2, SameList
  <1>5. \A k : NodesOf(k)' = NodesOf(k) /\ Holding(k)' = Holding(k)
    BY <1>2, <1>4 DEF NodesOf, Holding
  <1>6. \A k : Unloads(k)' = Unloads(k)
    BY <1>1, <1>2, <1>3 DEF Unloads, UnloadPC
  <1>7. \A k : Openings(k)' = Openings(k)
    <2>1. \A k : None \notin Holding(k) BY LibAssumption DEF Holding
    <2> QED BY <1>1, <1>2, <1>3, <1>4, <1>5, <2>1 DEF Openings
  <1>8. Chain' BY <1>0, <1>2, <1>4 DEF Chain
  <1>9. CallInv' BY <1>0, <1>1, <1>2, <1>3 DEF CallInv, LoadPC
  <1>10. Apart' BY <1>0, <1>1, <1>2, <1>3 DEF Apart, LoadPC
  <1>11. Held'
    <2>1. None \notin Listed BY <1>0, ListFollows, LibAssumption
    <2> QED BY <1>0, <1>1, <1>2, <1>3, <1>4, <2>1 DEF Held, LoadPC
  <1>12. Solo' BY <1>0, <1>1, <1>2, <1>3, <1>4 DEF Solo
  <1>13. Counted' BY <1>0, <1>2, <1>5, <1>6, <1>7, CountedAsBefore
  <1>14. Entered'
    <2>1. l \notin registered BY <1>0 DEF Entered
    <2> QED BY <1>0, <1>2, <1>3, <1>5, <2>1 DEF Entered
  <1>15. Found' BY <1>0, <1>1, <1>2, <1>3, <1>5 DEF Found
  <1> QED BY <1>8, <1>9, <1>10, <1>11, <1>12, <1>13, <1>14, <1>15 DEF LibInv

\* Closing the library twice and freeing the node.
LEMMA CloseStep ==
  ASSUME LibInv, Types', NEW c \in Call, Close(c), NEW l, lib[c] = l, NEW n, curr[c] = n
  PROVE  LibInv'
  <1>0. /\ Types /\ Chain /\ CallInv /\ Apart /\ Held /\ Solo /\ Counted /\ Entered /\ Found
    BY DEF LibInv
  <1>1. /\ pc[c] = "close" /\ l \in Lib /\ l # None /\ l \notin NoGroup /\ n \notin Listed
        /\ n # None => n \in Nodes /\ lib_handle[n] = l
    BY <1>0, AtWork DEF Close, At, CallInv, LoadPC, Held, Types
  <1>2. /\ libs' = libs /\ next_lib' = next_lib /\ lib_handle' = lib_handle
        /\ registered' = registered /\ allocated' = allocated \ {n}
        /\ shared' = shared \ {c}
        /\ opened' = [opened EXCEPT ![l] = IF @ < 2 THEN 0 ELSE @ - 2]
    BY DEF Close, Return, CloseBoth, DlClose
  <1>3. /\ \A d \in Call : pc'[d] = IF d = c THEN "idle" ELSE pc[d]
        /\ \A d \in Call : lib'[d] = IF d = c THEN None ELSE lib[d]
        /\ \A d \in Call : curr'[d] = IF d = c THEN None ELSE curr[d]
    BY <1>0 DEF Close, Return, Types
  <1>4. Listed' = Listed BY <1>0, <1>2, SameList
  <1>5. \A k : NodesOf(k)' = NodesOf(k) /\ Holding(k)' = Holding(k)
    BY <1>2, <1>4 DEF NodesOf, Holding
  <1>6. c \in Unloads(l) /\ Unloads(l)' = Unloads(l) \ {c}
    BY <1>1, <1>3, LibAssumption DEF Unloads, UnloadPC
  <1>7. \A k \in Lib \ {l} : Unloads(k)' = Unloads(k)
    BY <1>1, <1>3, LibAssumption DEF Unloads
  <1>8. /\ n # None => n \in Openings(l)
        /\ n = None => n \notin Openings(l)
    BY <1>1, LibAssumption DEF Openings, Holding
  <1>9. \A k \in Lib : Openings(k)' = Openings(k) \ {n}
    <2> SUFFICES ASSUME NEW k \in Lib, NEW m \in Holding(k)
                 PROVE  m \in Openings(k)' <=> m \in Openings(k) \ {n}
      BY <1>5 DEF Openings
    <2>0. m # None BY LibAssumption DEF Holding
    <2>1. CASE m = n
      <3>1. \A d \in Call : curr'[d] # m BY <1>0, <1>3, <2>0, <2>1 DEF Held
      <3> QED BY <1>1, <1>4, <1>5, <2>1, <3>1 DEF Openings
    <2>2. CASE m # n
      BY <1>1, <1>3, <1>4, <1>5, <2>0, <2>2 DEF Openings
    <2> QED BY <2>1, <2>2
  <1>10. \A k \in Lib \ {l} : Openings(k)' = Openings(k)
    BY <1>1, <1>9, LibAssumption DEF Openings, Holding
  <1>11. Unloads(l)' = {} /\ NodesOf(l) = {} => Openings(l)' = {}
    <2> SUFFICES ASSUME Unloads(l)' = {}, NodesOf(l) = {}, NEW m \in Openings(l), m # n
                 PROVE  FALSE
      BY <1>1, <1>9
    <2>1. m \in Holding(l) /\ m # None /\ m \notin Listed
      BY LibAssumption DEF Openings, NodesOf, Holding
    <2>2. PICK d \in Call : pc[d] \in {"push", "close"} /\ curr[d] = m
      BY <2>1 DEF Openings
    <2>3. lib[d] = l /\ d # c BY <1>0, <2>1, <2>2 DEF Held, Holding
    <2>4. pc[d] = "close" BY <1>0, <1>1, <2>2, <2>3 DEF Apart, LoadPC
    <2> QED BY <1>6, <2>3, <2>4 DEF Unloads, UnloadPC
  <1>12. n = None => NodesOf(l) = {} BY <1>0, <1>1 DEF Found
  <1>13. Chain' BY <1>0, <1>1, <1>2, <1>4 DEF Chain
  <1>14. CallInv' BY <1>0, <1>3, LibAssumption DEF CallInv
  <1>15. Apart' BY <1>0, <1>2, <1>3 DEF Apart
  <1>16. Held' BY <1>0, <1>2, <1>3, <1>4 DEF Held, LoadPC
  <1>17. Solo'
    <2>1. \A d, e \in Call : lib'[d] \in NoGroup /\ d # e => pc'[e] = "idle"
      BY <1>0, <1>3, LibAssumption DEF Solo
    <2>2. \A d \in Call : lib'[d] \in NoGroup /\ pc'[d] # "push" => libs' = curr'[d]
      BY <1>0, <1>2, <1>3, LibAssumption DEF Solo
    <2>3. \A m \in Listed' : lib_handle'[m] \in NoGroup => \E d \in Call : curr'[d] = m
      BY <1>0, <1>1, <1>2, <1>3, <1>4 DEF Solo
    <2> QED BY <2>1, <2>2, <2>3 DEF Solo
  <1>18. Counted'
    <2> DEFINE O == Cardinality(Openings(l))
               U == Cardinality(Unloads(l))
               OO == Cardinality(Openings(l)')
               UU == Cardinality(Unloads(l)')
    <2>1. /\ O \in Nat /\ U \in Nat /\ OO \in Nat /\ UU \in Nat
          /\ opened[l] \in Nat
      BY <1>0, <1>1, CountsAreNumbers DEF Types
    <2>2. UU = U - 1
      BY <1>6, FS_RemoveElement, CountsAreNumbers
    <2>3. /\ n # None => OO = O - 1
          /\ n = None => OO = O
      BY <1>1, <1>8, <1>9, FS_RemoveElement, CountsAreNumbers
    <2>4. opened'[l] = IF opened[l] < 2 THEN 0 ELSE opened[l] - 2
      BY <1>0, <1>1, <1>2 DEF Types
    <2>5. opened[l] <= O + U BY <1>0, <1>1 DEF Counted
    <2>6. NodesOf(l) # {} => opened[l] = O + U BY <1>0, <1>1 DEF Counted
    <2>7. UU = 0 /\ NodesOf(l) = {} => OO = 0
      <3>1. UU = 0 => Unloads(l)' = {} BY FS_EmptySet, CountsAreNumbers
      <3>2. Openings(l)' = {} => OO = 0 BY FS_EmptySet
      <3> QED BY <1>11, <3>1, <3>2
    <2>8. Unloads(l)' = {} => UU = 0 BY FS_EmptySet
    <2>9. n = None => NodesOf(l) = {} BY <1>12
    <2> HIDE DEF O, U, OO, UU
    <2>10. opened'[l] <= OO + UU BY <2>1, <2>2, <2>3, <2>4, <2>5
    <2>11. NodesOf(l) # {} => opened'[l] = OO + UU
      BY <2>1, <2>2, <2>3, <2>4, <2>6, <2>9
    <2>12. NodesOf(l) = {} /\ Unloads(l)' = {} => opened'[l] = OO + UU
      BY <2>1, <2>4, <2>7, <2>8, <2>10, <1>1, Types' DEF Types
    <2>13. \A k \in Lib \ {l} :
            /\ opened'[k] <= Cardinality(Openings(k)') + Cardinality(Unloads(k)')
            /\ NodesOf(k)' # {} \/ Unloads(k)' = {} =>
                  opened'[k] = Cardinality(Openings(k)') + Cardinality(Unloads(k)')
      BY <1>0, <1>2, <1>5, <1>7, <1>10 DEF Counted, Types
    <2> QED BY <1>5, <2>10, <2>11, <2>12, <2>13 DEF Counted, O, U, OO, UU
  <1>19. Entered'
    <2>1. \A k \in registered : k \in Lib BY <1>0 DEF Types
    <2> QED BY <1>0, <1>2, <1>3, <1>5, <2>1, LibAssumption DEF Entered
  <1>20. Found' BY <1>0, <1>2, <1>3, <1>5, LibAssumption DEF Found
  <1> QED BY <1>13, <1>14, <1>15, <1>16, <1>17, <1>18, <1>19, <1>20 DEF LibInv

----------------------------------------------------------------------------
(* The theorems.                                                           *)

\* The invariant holds of the empty list.
LEMMA LibInit == Init => LibInv
  <1> SUFFICES ASSUME Init PROVE LibInv
    OBVIOUS
  <1>1. Types BY DEF Init, Types, CallPC
  <1>2. Listed = {}
    <2>1. {} \in SUBSET Nodes /\ libs \in {} \cup {None} BY DEF Init
    <2> QED BY <1>1, <2>1, ListLeast
  <1>3. \A l \in Lib : Openings(l) = {} /\ Unloads(l) = {}
    BY <1>2 DEF Init, Openings, Unloads, UnloadPC
  <1>4. Counted BY <1>3, FS_EmptySet DEF Init, Counted
  <1> QED BY <1>1, <1>2, <1>4, LibAssumption
      DEF Init, LibInv, Chain, CallInv, Apart, Held, Solo, Entered, Found, LoadPC

\* The end of the daemon leaves everything else as it was.
LEMMA CrashStep ==
  ASSUME LibInv, NEW c \in Call, Crash(c)
  PROVE  LibInv'
  <1>0. /\ Types /\ Chain /\ CallInv /\ Apart /\ Held /\ Solo /\ Counted /\ Entered /\ Found
    BY DEF LibInv
  <1>1. /\ up' = FALSE /\ UNCHANGED <<callVars, listVars, opened, registered, suites>>
    BY DEF Crash, UnlinkFromEmpty, ReadUnmapped
  <1>2. Types' BY <1>0, <1>1 DEF Types, callVars, listVars
  <1> USE DEF callVars, listVars
  <1>3. Listed' = Listed BY <1>1 DEF Listed, Walk, Follows
  <1>4. \A k : NodesOf(k)' = NodesOf(k) BY <1>1, <1>3 DEF NodesOf, Holding
  <1>5. \A k : Openings(k)' = Openings(k) BY <1>1, <1>3 DEF Openings, Holding
  <1>6. \A k : Unloads(k)' = Unloads(k) BY <1>1 DEF Unloads
  <1>7. Counted' BY <1>0, <1>1, <1>4, <1>5, <1>6, CountedAsBefore
  <1>8. Chain' /\ CallInv' /\ Apart' /\ Held' /\ Solo'
    BY <1>0, <1>1, <1>3 DEF Chain, CallInv, Apart, Held, Solo
  <1>9. Entered' /\ Found' BY <1>0, <1>1, <1>4 DEF Entered, Found
  <1> QED BY <1>2, <1>7, <1>8, <1>9 DEF LibInv

\* Every step keeps the invariant.
LEMMA LibNext ==
  ASSUME LibInv, "bad" \notin Overlap, Next
  PROVE  LibInv'
  <1>1. PICK c \in Call : (up' = up /\ Step(c)) \/ Crash(c) BY DEF Next
  <1>2. CASE up' = up /\ Step(c)
    <2>1. Types' BY <1>2, TypesStep
    <2>2. ASSUME NEW l \in Lib, Load(c, l) PROVE LibInv' BY <2>1, <2>2, LoadStep
    <2>3. ASSUME NEW l \in Lib, Unload(c, l) PROVE LibInv' BY <2>1, <2>3, UnloadStep
    <2>4. CASE Push(c) BY <2>1, <2>4, PushStep
    <2>5. CASE Symbol(c) BY <2>1, <2>5, SymbolStep
    <2>6. CASE Unpush(c) BY <2>1, <2>6, UnpushStep
    <2>7. CASE Register(c) BY <2>1, <2>7, RegisterStep
    <2>8. CASE UnloadSymbol(c) BY <2>1, <2>8, UnloadSymbolStep
    <2>9. CASE Delete(c) BY <2>1, <2>9, DeleteStep
    <2>10. CASE Unlink(c) BY <2>1, <2>10, UnlinkStep, UnlinkNothingStep
    <2>11. CASE Close(c) BY <2>1, <2>11, CloseStep
    <2> QED BY <1>2, <2>2, <2>3, <2>4, <2>5, <2>6, <2>7, <2>8, <2>9, <2>10, <2>11 DEF Step
  <1>3. CASE Crash(c) BY <1>3, CrashStep
  <1> QED BY <1>1, <1>2, <1>3

\* Stuttering keeps it.
LEMMA LibStutter ==
  ASSUME LibInv, UNCHANGED vars
  PROVE  LibInv'
  <1> USE DEF vars, callVars, listVars
  <1>1. Listed' = Listed BY DEF Listed, Walk, Follows
  <1>2. \A k : NodesOf(k)' = NodesOf(k) BY <1>1 DEF NodesOf, Holding
  <1>3. \A k : Openings(k)' = Openings(k) BY <1>1 DEF Openings, Holding
  <1>4. \A k : Unloads(k)' = Unloads(k) BY DEF Unloads
  <1>5. Counted' BY <1>2, <1>3, <1>4, CountedAsBefore DEF LibInv
  <1>6. Types' BY DEF LibInv, Types
  <1>7. Chain' /\ CallInv' /\ Apart' /\ Held' /\ Solo'
    BY <1>1 DEF LibInv, Chain, CallInv, Apart, Held, Solo
  <1>8. Entered' /\ Found' BY <1>2 DEF LibInv, Entered, Found
  <1> QED BY <1>5, <1>6, <1>7, <1>8 DEF LibInv

\* It holds in every reachable state.
LEMMA LibInvariant ==
  ASSUME "bad" \notin Overlap
  PROVE  Spec => []LibInv
  <1>1. Init => LibInv BY LibInit
  <1>2. LibInv /\ [Next]_vars => LibInv' BY LibNext, LibStutter
  <1> QED BY <1>1, <1>2, PTL DEF Spec

\* Suites are entered for libraries only.
LEMMA SuitesInvariant ==
  ASSUME "bad" \notin Overlap
  PROVE  Spec => [](suites \subseteq Lib)
  <1>1. ASSUME LibInv, suites \subseteq Lib, Next
        PROVE  (suites \subseteq Lib)'
    <2>1. PICK c \in Call : (up' = up /\ Step(c)) \/ Crash(c) BY <1>1 DEF Next
    <2>2. CASE Register(c)
      <3>1. pc[c] = "register" /\ suites' = suites \cup {lib[c]} BY <2>2 DEF Register, At
      <3>2. lib[c] \in Lib BY <1>1, <3>1, AtWork DEF LibInv
      <3> QED BY <1>1, <3>1, <3>2
    <2>3. CASE ~Register(c)
      <3>1. suites' = suites
        BY <2>1, <2>3 DEF Step, Crash, Load, Push, Symbol, Unpush, Unload, UnloadSymbol, Delete,
                          Unlink, Close, UnlinkFromEmpty, ReadUnmapped
      <3> QED BY <1>1, <3>1
    <2> QED BY <2>2, <2>3
  <1>2. LibInv /\ suites \subseteq Lib /\ [Next]_vars => (suites \subseteq Lib)'
    BY <1>1 DEF vars
  <1>3. Init => suites \subseteq Lib BY DEF Init
  <1> QED BY <1>2, <1>3, LibInvariant, PTL DEF Spec

\* testboxd_libs.c keeps its variables within their types, and a load holds the
\* node it allocated until it is done with it.
THEOREM RegistryTyped ==
  ASSUME "bad" \notin Overlap
  PROVE  Spec => []TypeOK
  <1>1. LibInv /\ suites \subseteq Lib => TypeOK
    BY LibAssumption DEF LibInv, Types, Held, TypeOK, LoadPC
  <1> QED BY <1>1, LibInvariant, SuitesInvariant, PTL

\* The nodes that load_testcase_from_lib pushes and unload_lib takes off and frees:
\* the walks over the list (--listlib, --unloadlib) never meet one that was freed.
THEOREM WalksAreSafe ==
  ASSUME "bad" \notin Overlap
  PROVE  Spec => []ListIsSound
  <1>1. LibInv => ListIsSound BY DEF LibInv, Chain, ListIsSound
  <1> QED BY <1>1, LibInvariant, PTL

\* What --listlib shows between the calls is what the linker has open, library by
\* library and as often: unload_lib's two closes and load_testcase_from_lib's one
\* open balance in every order of calls.
THEOREM ListShowsLoaded ==
  ASSUME "bad" \notin Overlap
  PROVE  Spec => []ListedIsLoaded
  <1>1. ASSUME LibInv, Quiet, NEW l \in Lib
        PROVE  opened[l] = Cardinality(NodesOf(l))
    <2>0. Types /\ CallInv /\ Held /\ Counted BY <1>1 DEF LibInv
    <2>1. \A c \in Call : lib[c] # l
      BY <1>1, <2>0, LibAssumption DEF Quiet, CallInv
    <2>2. Openings(l) = NodesOf(l) BY <2>0, <2>1, OpeningsAtRest
    <2>3. Unloads(l) = {} BY <2>1 DEF Unloads
    <2>4. Cardinality(Unloads(l)) = 0 BY <2>3, FS_EmptySet
    <2>5. opened[l] = Cardinality(Openings(l)) + 0 BY <2>0, <2>3, <2>4, OpenTimes
    <2> QED BY <2>2, <2>5, CountsAreNumbers
  <1>2. LibInv => ListedIsLoaded BY <1>1 DEF ListedIsLoaded
  <1> QED BY <1>2, LibInvariant, PTL

\* The test cases that are registered are code of a library that is mapped: no
\* unload closes a library whose cases another load has entered since.  The suites
\* unload_lib leaves in the registry are not in question.
THEOREM CaseCodeMapped ==
  ASSUME "bad" \notin Overlap
  PROVE  Spec => []CasesAreMapped
  <1>1. ASSUME LibInv, NEW l \in registered
        PROVE  opened[l] > 0
    <2>0. Types /\ Held /\ Apart /\ CallInv /\ Solo /\ Counted /\ Entered BY <1>1 DEF LibInv
    <2>1. l \in Lib /\ l \notin NoGroup /\ NodesOf(l) # {} BY <1>1, <2>0 DEF Types, Entered
    <2>2. PICK n \in NodesOf(l) : TRUE BY <2>1
    <2>3. n \in Nodes /\ n # None /\ n \in Listed /\ lib_handle[n] = l
      BY LibAssumption DEF NodesOf, Holding
    <2>4. n \in Openings(l)
      <3>1. ~ \E c \in Call : pc[c] = "unpush" /\ curr[c] = n
        BY <2>0, <2>1, <2>3 DEF Held, CallInv
      <3> QED BY <2>3, <3>1 DEF Openings, Holding
    <2>5. Cardinality(Openings(l)) # 0 BY <2>4, FS_EmptySet, CountsAreNumbers
    <2> QED BY <2>0, <2>1, <2>5, OpenTimes, CountsAreNumbers
  <1>2. LibInv => CasesAreMapped BY <1>1 DEF CasesAreMapped
  <1> QED BY <1>2, LibInvariant, PTL

\* Among the calls MayCall admits, and without loads of libraries that have no
\* lib_group alongside, an unload_lib that meets no other call on its library finds
\* the library mapped when it reads lib_group, and its node in the list: it neither
\* dereferences the null head nor reads an unmapped library.
THEOREM LoneUnloadIsSafe ==
  ASSUME "bad" \notin Overlap
  PROVE  Spec => []LoneUnloadFinds
  <1>1. ASSUME LibInv, NEW c \in Call \ shared, NEW l, lib[c] = l,
               pc[c] \in {"unloadSymbol", "delete", "unlink"}
        PROVE  opened[l] > 0 /\ NodesOf(l) # {}
    <2>0. Types /\ CallInv /\ Counted /\ Found BY <1>1 DEF LibInv
    <2>1. l \in Lib BY <1>1, <2>0, AtWork
    <2>2. NodesOf(l) # {} BY <1>1, <2>0, <2>1 DEF Found
    <2>3. c \in Unloads(l) BY <1>1 DEF Unloads, UnloadPC
    <2>4. Cardinality(Unloads(l)) # 0 BY <2>3, FS_EmptySet, CountsAreNumbers
    <2> QED BY <2>0, <2>1, <2>2, <2>4, OpenTimes, CountsAreNumbers
  <1>2. LibInv => LoneUnloadFinds BY <1>1 DEF LoneUnloadFinds
  <1> QED BY <1>2, LibInvariant, PTL

=============================================================================
