---------------------------- MODULE LibRegistry ----------------------------
(***************************************************************************)
(* The loaded test libraries: dibd/testboxd_libs.c.                        *)
(*                                                                         *)
(* Socket threads run --loadlib and --unloadlib: the libraries are kept in *)
(* a linked list of tb_test_lib_t nodes under a mutex, the dynamic linker  *)
(* counts how often each one is open, and their test cases are entered in  *)
(* the registry.  The mutex covers the list only, so that the steps of two *)
(* calls interleave between the linker, the list and the registry.         *)
(*                                                                         *)
(* The registry is modelled as far as it holds functions of a library,     *)
(* with names that no two libraries share.  A handle of the linker is      *)
(* written as the library it stands for.  That memory runs out, or that    *)
(* dlopen fails, ends a call before it has changed anything: it is not a   *)
(* step.                                                                   *)
(*                                                                         *)
(* The code lets any calls overlap.  Here a load and an unload of one      *)
(* library never do, because each would use memory the other has freed:    *)
(* this is an assumption about the clients, see MayCall.                   *)
(***************************************************************************)
EXTENDS Naturals, FiniteSets

CONSTANTS
    Lib,       \* library files
    NoGroup,   \* those without the symbol lib_group
    Call,      \* threads that run --loadlib and --unloadlib
    Nodes,     \* memory for the nodes of the list: bounds what is loaded
    Ops,       \* the utilities the clients use: "load", "unload"
    Overlap,   \* which calls may be in progress together, see OverlapKinds
    None       \* the null pointer

\* "same": clients may run one utility on the same library at the same time;
\* "bad": a library without lib_group may be loaded while other calls go on.
OverlapKinds == {"same", "bad"}

ASSUME LibAssumption ==
    /\ IsFiniteSet(Nodes) /\ IsFiniteSet(Call)
    /\ None \notin Nodes \cup Lib
    /\ NoGroup \subseteq Lib
    /\ Ops \subseteq {"load", "unload"}
    /\ Overlap \subseteq OverlapKinds

VARIABLES
    up,         \* the daemon process is alive
    pc,         \* where each call stands
    lib,        \* call: the library it works on
    curr,       \* call: the node it allocated, or took off the list
    shared,     \* calls that met another one on their library (history)
    libs,       \* head of the list
    next_lib,   \* node: the next node
    lib_handle, \* node: the library
    allocated,  \* the nodes in use
    opened,     \* dynamic linker: how often each library is open
    registered, \* the libraries whose test cases and groups the registry holds
    suites      \* the libraries whose suites the registry holds

callVars == <<pc, lib, curr, shared>>
listVars == <<libs, next_lib, lib_handle, allocated>>
vars == <<up, callVars, listVars, opened, registered, suites>>

LoadPC   == {"push", "symbol", "unpush", "register"}
UnloadPC == {"unloadSymbol", "delete", "unlink", "close"}
CallPC   == {"idle"} \cup LoadPC \cup UnloadPC

At(c, l)    == pc[c] = l
Goto(c, l)  == pc' = [pc EXCEPT ![c] = l]
Return(c)   == /\ pc' = [pc EXCEPT ![c] = "idle"]
               /\ lib' = [lib EXCEPT ![c] = None]
               /\ curr' = [curr EXCEPT ![c] = None]
               /\ shared' = shared \ {c}

Quiet == \A c \in Call : pc[c] = "idle"

\* The nodes met on the way from the head to the end of the list, or to the first
\* of some nodes: the least set that has the head and, with each other node, the next.
Follows(S, stops) ==
    /\ libs \in S \cup {None}
    /\ \A n \in S \ stops : next_lib[n] \in S \cup {None}
Walk(stops) == {n \in Nodes : \A S \in SUBSET Nodes : Follows(S, stops) => n \in S}
Listed == Walk({})

\* The first node of a library, in the order of the list.
Holding(l) == {n \in Nodes : lib_handle[n] = l}
NodesOf(l) == Listed \cap Holding(l)
FirstOf(l) == CHOOSE n \in Walk(Holding(l)) : n \in Holding(l)

\* The linker: a library stays mapped while it is open.
DlOpen(l)     == opened' = [opened EXCEPT ![l] = @ + 1]
DlClose(l, k) == opened' = [opened EXCEPT ![l] = IF @ < k THEN 0 ELSE @ - k]

----------------------------------------------------------------------------
Init ==
    /\ up = TRUE
    /\ pc = [c \in Call |-> "idle"]
    /\ lib = [c \in Call |-> None]
    /\ curr = [c \in Call |-> None]
    /\ shared = {}
    /\ libs = None
    /\ next_lib = [n \in Nodes |-> None]
    /\ lib_handle = [n \in Nodes |-> None]
    /\ allocated = {}
    /\ opened = [l \in Lib |-> 0]
    /\ registered = {}
    /\ suites = {}

\* The calls in progress on a library.
Users(l) == {d \in Call : lib[d] = l}

\* What is assumed of the clients, for nothing in the code enforces it.
MayCall(c, l, steps) ==
    /\ At(c, "idle")
    /\ \A d \in Users(l) : "same" \in Overlap /\ pc[d] \in steps
    /\ "bad" \in Overlap \/ Quiet \/ (l \notin NoGroup /\ \A d \in Call : lib[d] \notin NoGroup)

\* A call enters: it and those it meets share the library.
Enter(c, l) ==
    /\ lib' = [lib EXCEPT ![c] = l]
    /\ shared' = IF Users(l) = {} THEN shared ELSE shared \cup {c} \cup Users(l)

----------------------------------------------------------------------------
(* load_testcase_from_lib                                                  *)

\* Allocate a node and open the library.
Load(c, l) ==
    /\ "load" \in Ops /\ MayCall(c, l, LoadPC)
    /\ \E n \in Nodes \ allocated :
          /\ allocated' = allocated \cup {n}
          /\ curr' = [curr EXCEPT ![c] = n]
          /\ lib_handle' = [lib_handle EXCEPT ![n] = l]
          /\ next_lib' = [next_lib EXCEPT ![n] = None]
    /\ Enter(c, l)
    /\ DlOpen(l)
    /\ Goto(c, "push")
    /\ UNCHANGED <<libs, registered, suites>>

\* Under the mutex: the node becomes the head of the list.
Push(c) ==
    /\ At(c, "push")
    /\ next_lib' = [next_lib EXCEPT ![curr[c]] = libs]
    /\ libs' = curr[c]
    /\ Goto(c, "symbol")
    /\ UNCHANGED <<lib, shared, curr, lib_handle, allocated, opened, registered, suites>>

SymbolFreesFirst(c) ==
    /\ At(c, "symbol")
    /\ \/ lib[c] \notin NoGroup /\ Goto(c, "register") /\ UNCHANGED <<opened, allocated>>
       \/ /\ lib[c] \in NoGroup /\ Goto(c, "unpush") /\ DlClose(lib[c], 1)
          /\ allocated' = allocated \ {curr[c]}
    /\ UNCHANGED <<lib, shared, curr, libs, next_lib, lib_handle, registered, suites>>

\* Look for lib_group; close the library again when it has none.
Symbol(c) ==
    /\ At(c, "symbol")
    /\ \/ lib[c] \notin NoGroup /\ Goto(c, "register") /\ UNCHANGED opened
       \/ lib[c] \in NoGroup /\ Goto(c, "unpush") /\ DlClose(lib[c], 1)
    /\ UNCHANGED <<lib, shared, curr, listVars, registered, suites>>

\* Under the mutex: the head becomes the successor of this call's node, whatever
\* the head is by now.  The node is freed.
Unpush(c) ==
    /\ At(c, "unpush")
    /\ libs' = next_lib[curr[c]]
    /\ allocated' = allocated \ {curr[c]}
    /\ Return(c)
    /\ UNCHANGED <<next_lib, lib_handle, opened, registered, suites>>

\* Enter the groups, suites and cases of the library.
Register(c) ==
    /\ At(c, "register")
    /\ registered' = registered \cup {lib[c]}
    /\ suites' = suites \cup {lib[c]}
    /\ Return(c)
    /\ UNCHANGED <<listVars, opened>>

----------------------------------------------------------------------------
(* unload_lib                                                              *)

\* Open the library a second time; that fails unless it is loaded.
Unload(c, l) ==
    /\ "unload" \in Ops /\ MayCall(c, l, UnloadPC)
    /\ opened[l] > 0
    /\ Enter(c, l)
    /\ DlOpen(l)
    /\ Goto(c, "unloadSymbol")
    /\ UNCHANGED <<curr, listVars, registered, suites>>

\* Look for lib_group, through a handle that other unloads may have closed.
UnloadSymbol(c) ==
    /\ At(c, "unloadSymbol")
    /\ \/ /\ lib[c] \notin NoGroup /\ opened[lib[c]] > 0
          /\ Goto(c, "delete")
          /\ UNCHANGED <<lib, shared, curr, opened>>
       \/ /\ lib[c] \in NoGroup \/ opened[lib[c]] = 0
          /\ Return(c)
          /\ DlClose(lib[c], 1)
    /\ UNCHANGED <<listVars, registered, suites>>

DeleteNothing(c) ==
    /\ At(c, "delete")
    /\ Goto(c, "unlink")
    /\ UNCHANGED <<lib, shared, curr, listVars, opened, registered, suites>>

\* Delete the cases and groups of the library, as its lib_group names them.  The
\* suites stay, with what they hold of the library.
Delete(c) ==
    /\ At(c, "delete")
    /\ opened[lib[c]] > 0
    /\ registered' = registered \ {lib[c]}
    /\ Goto(c, "unlink")
    /\ UNCHANGED <<lib, shared, curr, listVars, opened, suites>>

\* The library, or its handle, is read after other unloads have unmapped it.
ReadUnmapped(c) ==
    /\ pc[c] \in {"unloadSymbol", "delete"} /\ opened[lib[c]] = 0
    /\ up' = FALSE
    /\ UNCHANGED <<callVars, listVars, opened, registered, suites>>

UnlinkDropsRest(n) ==
    \/ libs = n /\ libs' = next_lib[n] /\ UNCHANGED next_lib
    \/ \E m \in Listed : /\ next_lib[m] = n
                         /\ next_lib' = [next_lib EXCEPT ![m] = None]
                         /\ UNCHANGED libs

UnlinkKeepsNode(n) ==
    \/ libs = n /\ libs' = next_lib[n] /\ UNCHANGED next_lib
    \/ \E m \in Listed : next_lib[m] = n /\ UNCHANGED <<libs, next_lib>>

\* Take a node off the list: the head, or one behind another node.
UnlinkNode(n) ==
    \/ libs = n /\ libs' = next_lib[n] /\ UNCHANGED next_lib
    \/ \E m \in Listed : /\ next_lib[m] = n
                         /\ next_lib' = [next_lib EXCEPT ![m] = next_lib[n]]
                         /\ UNCHANGED libs

\* Under the mutex: take the first node of the library off the list, if it has
\* one.  The head is looked at before the list is known not to be empty.
Unlink(c) ==
    /\ At(c, "unlink") /\ libs # None
    /\ \/ /\ NodesOf(lib[c]) # {}
          /\ UnlinkNode(FirstOf(lib[c]))
          /\ curr' = [curr EXCEPT ![c] = FirstOf(lib[c])]
       \/ /\ NodesOf(lib[c]) = {}
          /\ UNCHANGED <<libs, next_lib, curr>>
    /\ Goto(c, "close")
    /\ UNCHANGED <<lib, shared, lib_handle, allocated, opened, registered, suites>>

\* The null head is dereferenced.
UnlinkFromEmpty(c) ==
    /\ At(c, "unlink") /\ libs = None
    /\ up' = FALSE
    /\ UNCHANGED <<callVars, listVars, opened, registered, suites>>

CloseOnce(l) == DlClose(l, 1)
CloseBoth(l) == DlClose(l, 2)

\* Close the library for this call and for the load, also when the list had no
\* node of it; free the node.
Close(c) ==
    /\ At(c, "close")
    /\ CloseBoth(lib[c])
    /\ allocated' = allocated \ {curr[c]}
    /\ Return(c)
    /\ UNCHANGED <<libs, next_lib, lib_handle, registered, suites>>

----------------------------------------------------------------------------
Step(c) ==
    \/ \E l \in Lib : Load(c, l)
    \/ Push(c)
    \/ Symbol(c)
    \/ Unpush(c)
    \/ Register(c)
    \/ \E l \in Lib : Unload(c, l)
    \/ UnloadSymbol(c)
    \/ Delete(c)
    \/ Unlink(c)
    \/ Close(c)

Crash(c) == UnlinkFromEmpty(c) \/ ReadUnmapped(c)

Next ==
    /\ up
    /\ \E c \in Call : (up' = up /\ Step(c)) \/ Crash(c)

Spec == Init /\ [][Next]_vars

----------------------------------------------------------------------------
(* Properties.                                                             *)

\* The values the variables range over; a load holds a node until it is done.
TypeOK ==
    /\ up \in BOOLEAN
    /\ pc \in [Call -> CallPC]
    /\ lib \in [Call -> Lib \cup {None}]
    /\ curr \in [Call -> Nodes \cup {None}]
    /\ shared \subseteq Call
    /\ \A c \in Call : pc[c] \in LoadPC => curr[c] \in allocated
    /\ libs \in Nodes \cup {None}
    /\ next_lib \in [Nodes -> Nodes \cup {None}]
    /\ lib_handle \in [Nodes -> Lib \cup {None}]
    /\ allocated \subseteq Nodes
    /\ opened \in [Lib -> Nat]
    /\ registered \subseteq Lib
    /\ suites \subseteq Lib

\* No walk over the list meets a node that was freed.
ListIsSound == Listed \subseteq allocated

\* While no call is in progress --listlib lists what is loaded, as often as it
\* was loaded ("Lists all currently loaded libraries").
ListedIsLoaded == Quiet => \A l \in Lib : opened[l] = Cardinality(NodesOf(l))

\* The functions of the registered test cases are mapped, so that a case can be run
\* by its name at any time.  Of the suites this is not true: they stay behind when
\* their library is unmapped.
CasesAreMapped == \A l \in registered : opened[l] > 0

\* As long as no library without lib_group is loaded while other calls go on, and
\* loads and unloads of one library do not overlap, an unload that shares its library
\* with no other call finds it mapped and in the list ("Check if node really exists
\* in linked list"): of the calls left, only overlapping unloads of one library reach
\* the null head and the unmapped library that end the daemon.
LoneUnloadFinds ==
    \A c \in Call \ shared :
        /\ pc[c] \in {"unloadSymbol", "delete"} => opened[lib[c]] > 0
        /\ pc[c] \in {"delete", "unlink"} => NodesOf(lib[c]) # {}

=============================================================================
