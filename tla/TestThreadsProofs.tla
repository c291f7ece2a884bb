------------------------- MODULE TestThreadsProofs -------------------------
(***************************************************************************)
(* Theorems about TestThreads for any number of request contexts, of slots *)
(* and of status entries, for any requests, and with every fault but for   *)
(* those that a theorem excludes.                                          *)
(***************************************************************************)
EXTENDS TestThreads, TLAPS, FiniteSetTheorems

QueuePC == {"admit", "asleep", "woken"}

\* A request that has no slot yet, or no worker yet, has no worker thread.
NoWorkerYet == \A r \in Req : rpc[r] \in QueuePC \cup {"create"} => wpc[r] = "none"

\* The inductive invariant behind the counter: a slot is given back only by a
\* worker that owns one, so the counter stays positive as long as it must.
SlotInv == TypeOK /\ NoWorkerYet /\ SlotAccounting

----------------------------------------------------------------------------
\* The initial request is one of the requests.
LEMMA NoRequestType == NoRequest \in Requests
  BY ConstantsAssumption DEF NoRequest

\* A finite set of contexts has a cardinality.
LEMMA HoldersFinite == /\ IsFiniteSet(Holders) /\ Cardinality(Holders) \in Nat
                       /\ IsFiniteSet(Holders') /\ Cardinality(Holders') \in Nat
  <1>1. IsFiniteSet(Req) BY ConstantsAssumption
  <1>2. Holders \subseteq Req /\ Holders' \subseteq Req BY DEF Holders
  <1> QED BY <1>1, <1>2, FS_Subset, FS_CardinalityType

\* How a step of the daemon moves requests and slots: it moves none, or one
\* arrives; one is admitted below the limit; one loses its slot because no worker
\* could be created; one gives its slot back.
LEMMA SlotMoves ==
  ASSUME TypeOK, NoWorkerYet, Next
  PROVE  \/ /\ Holders' = Holders /\ test_thread_cnt' = test_thread_cnt
            /\ \/ Queued' = Queued
               \/ \E r \in Req : r \notin Queued \cup Holders /\ Queued' = Queued \cup {r}
         \/ \E r \in Queued : /\ Queued' = Queued \ {r} /\ Holders' = Holders \cup {r}
                              /\ test_thread_cnt < MaxTests
                              /\ test_thread_cnt' = test_thread_cnt + 1
         \/ /\ "create" \in Faults
            /\ \E r \in Holders : /\ Holders' = Holders \ {r} /\ Queued' = Queued
                                  /\ test_thread_cnt' = test_thread_cnt
         \/ \E r \in Holders : /\ Holders' = Holders \ {r} /\ Queued' = Queued
                               /\ test_thread_cnt' = test_thread_cnt - 1
  <1> DEFINE Quiet == /\ Holders' = Holders /\ test_thread_cnt' = test_thread_cnt
                      /\ \/ Queued' = Queued
                         \/ \E r \in Req : r \notin Queued \cup Holders /\ Queued' = Queued \cup {r}
             Taken == \E r \in Queued : /\ Queued' = Queued \ {r} /\ Holders' = Holders \cup {r}
                                        /\ test_thread_cnt < MaxTests
                                        /\ test_thread_cnt' = test_thread_cnt + 1
             Lost  == /\ "create" \in Faults
                      /\ \E r \in Holders : /\ Holders' = Holders \ {r} /\ Queued' = Queued
                                            /\ test_thread_cnt' = test_thread_cnt
             Given == \E r \in Holders : /\ Holders' = Holders \ {r} /\ Queued' = Queued
                                         /\ test_thread_cnt' = test_thread_cnt - 1
  <1> USE DEF Holders, Queued, Working, WorkerPC, QueuePC, WorkerAt, RequesterAt, Advance, workerVars
  <1>1. ASSUME NEW r \in Req, Requester(r)
        PROVE  Quiet \/ Taken \/ Lost
    <2>1. CASE \E q \in Requests : Submit(r, q)
      <3>1. /\ rpc[r] = "idle" /\ wpc[r] = "none" /\ rpc' = [rpc EXCEPT ![r] = "admit"]
            /\ wpc' = wpc /\ test_thread_cnt' = test_thread_cnt
        BY <2>1 DEF Submit
      <3>2. r \notin Queued \cup Holders /\ Queued' = Queued \cup {r} /\ Holders' = Holders
        BY <3>1 DEF TypeOK
      <3> QED BY <3>1, <3>2
    <2>2. CASE Admit(r)
      <3>1. CASE SlotFree
        <4>1. rpc[r] \in QueuePC /\ rpc' = [rpc EXCEPT ![r] = "create"] /\ wpc' = wpc
          BY <2>2, <3>1 DEF Admit
        <4>2. Holders' = Holders \cup {r} /\ Queued' = Queued \ {r} /\ r \in Queued
          BY <4>1 DEF TypeOK
        <4>3. test_thread_cnt < MaxTests /\ test_thread_cnt' = test_thread_cnt + 1
          BY <2>2, <3>1, ConstantsAssumption DEF Admit, SlotFree, TypeOK
        <4> QED BY <4>1, <4>2, <4>3
      <3>2. CASE ~SlotFree BY <2>2, <3>2 DEF Admit, TypeOK
      <3> QED BY <3>1, <3>2
    <2>3. CASE SpuriousWakeup(r) BY <2>3 DEF SpuriousWakeup, TypeOK
    <2>4. CASE Create(r) BY <2>4 DEF Create, TypeOK
    <2>5. CASE CreateFails(r)
      <3>1. rpc[r] = "create" /\ wpc[r] = "none" /\ rpc' = [rpc EXCEPT ![r] = "idle"] /\ wpc' = wpc
        BY <2>5 DEF CreateFails, NoWorkerYet
      <3>2. Holders' = Holders \ {r} /\ r \in Holders /\ Queued' = Queued BY <3>1 DEF TypeOK
      <3> QED BY <2>5, <3>2 DEF CreateFails
    <2>6. CASE SetDeadline(r) BY <2>6 DEF SetDeadline, TypeOK
    <2>7. CASE Timeout(r) BY <2>7 DEF Timeout, TypeOK
    <2>8. CASE CancelHanging(r) BY <2>8 DEF CancelHanging, TypeOK
    <2>9. CASE Join(r) BY <2>9 DEF Join, TypeOK
    <2> QED BY <1>1, <2>1, <2>2, <2>3, <2>4, <2>5, <2>6, <2>7, <2>8, <2>9 DEF Requester
  <1>2. ASSUME NEW r \in Req, Handler(r)
        PROVE  Quiet \/ Given
    <2> USE DEF requesterVars
    <2>1. CASE Start(r) BY <2>1 DEF Start, TypeOK
    <2>2. CASE Lookup(r) BY <2>2 DEF Lookup, TypeOK
    <2>3. CASE AddGroup(r) BY <2>3 DEF AddGroup, TypeOK
    <2>4. CASE AddGroupFails(r) BY <2>4 DEF AddGroupFails, TypeOK
    <2>5. CASE AddBuckets(r) BY <2>5 DEF AddBuckets, TypeOK
    <2>6. CASE Finalize(r) BY <2>6 DEF Finalize, TypeOK
    <2>7. CASE Cancel(r) BY <2>7 DEF Cancel, CancelPoint, TypeOK
    <2>8. CASE StatusCleanup(r) BY <2>8 DEF StatusCleanup, TypeOK
    <2>9. CASE SlotCleanup(r)
      <3>1. r \in Holders /\ rpc[r] # "create" /\ test_thread_cnt' = test_thread_cnt - 1
        BY <2>9 DEF SlotCleanup, NoWorkerYet
      <3>2. rpc' = rpc \/ \E s \in Req : rpc[s] = "asleep" /\ rpc' = [rpc EXCEPT ![s] = "woken"]
        BY <2>9 DEF SlotCleanup, Signal, Asleep
      <3>3. wpc' = [wpc EXCEPT ![r] = "done"] \/ wpc' = [wpc EXCEPT ![r] = "none"]
        BY <2>9 DEF SlotCleanup
      <3>4. \A s \in Req : (rpc'[s] = "create") <=> (rpc[s] = "create")
        BY <3>2 DEF TypeOK
      <3>5. Holders' = Holders \ {r} BY <3>1, <3>3, <3>4 DEF TypeOK
      <3>6. Queued' = Queued BY <3>2 DEF TypeOK
      <3> QED BY <3>1, <3>5, <3>6
    <2> QED BY <1>2, <2>1, <2>2, <2>3, <2>4, <2>5, <2>6, <2>7, <2>8, <2>9 DEF Handler
  <1>3. ASSUME NEW r \in Req, Test(r)
        PROVE  Quiet
    <2> USE DEF requesterVars
    <2>1. CASE Iterate(r)
      <3>1. wpc' = [wpc EXCEPT ![r] = "finalize"] \/ wpc' = wpc
        BY <2>1 DEF Iterate
      <3>2. wpc[r] = "run" /\ rpc' = rpc /\ test_thread_cnt' = test_thread_cnt
        BY <2>1 DEF Iterate
      <3> QED BY <3>1, <3>2 DEF TypeOK
    <2>2. CASE RunAll(r) BY <2>2 DEF RunAll, TypeOK
    <2> QED BY <1>3, <2>1, <2>2 DEF Test
  <1>4. ASSUME Utility
        PROVE  Quiet
    BY <1>4 DEF Utility, Kill, PrintStatus, StatusPrinted, Clear, requesterVars
  <1>5. ASSUME NEW r \in Req, UnpairedPop(r) \/ FinalizeFails(r)
        PROVE  Quiet
    BY <1>5 DEF UnpairedPop, FinalizeFails, TypeOK, requesterVars
  <1>6. ASSUME KillMissing
        PROVE  Quiet
    BY <1>6 DEF KillMissing, requesterVars
  <1> HIDE DEF Quiet, Taken, Lost, Given
  <1>7. Quiet \/ Taken \/ Lost \/ Given
    BY <1>1, <1>2, <1>3, <1>4, <1>5, <1>6 DEF Next
  <1> QED BY <1>7 DEF Quiet, Taken, Lost, Given

----------------------------------------------------------------------------
(* The counter.                                                            *)

\* A context without a worker gets one only when it leaves the queue.
LEMMA NoWorkerYetStep ==
  ASSUME TypeOK, NoWorkerYet, Next
  PROVE  NoWorkerYet'
  <1> USE DEF NoWorkerYet, QueuePC, RequesterAt, WorkerAt, Advance, workerVars, requesterVars
  <1>1. ASSUME NEW r \in Req, Requester(r)
        PROVE  NoWorkerYet'
    <2>1. CASE \E q \in Requests : Submit(r, q) BY <2>1 DEF Submit, TypeOK
    <2>2. CASE Admit(r) BY <2>2 DEF Admit, TypeOK
    <2>3. CASE SpuriousWakeup(r) BY <2>3 DEF SpuriousWakeup, TypeOK
    <2>4. CASE Create(r) BY <2>4 DEF Create, TypeOK
    <2>5. CASE CreateFails(r) BY <2>5 DEF CreateFails, TypeOK
    <2>6. CASE SetDeadline(r) BY <2>6 DEF SetDeadline, TypeOK
    <2>7. CASE Timeout(r) BY <2>7 DEF Timeout, TypeOK
    <2>8. CASE CancelHanging(r) BY <2>8 DEF CancelHanging, TypeOK
    <2>9. CASE Join(r) BY <2>9 DEF Join, TypeOK
    <2> QED BY <1>1, <2>1, <2>2, <2>3, <2>4, <2>5, <2>6, <2>7, <2>8, <2>9 DEF Requester
  <1>2. ASSUME NEW r \in Req, Handler(r)
        PROVE  NoWorkerYet'
    <2>1. CASE Start(r) BY <2>1 DEF Start, TypeOK
    <2>2. CASE Lookup(r) BY <2>2 DEF Lookup, TypeOK
    <2>3. CASE AddGroup(r) BY <2>3 DEF AddGroup, TypeOK
    <2>4. CASE AddGroupFails(r) BY <2>4 DEF AddGroupFails, TypeOK
    <2>5. CASE AddBuckets(r) BY <2>5 DEF AddBuckets, TypeOK
    <2>6. CASE Finalize(r) BY <2>6 DEF Finalize, TypeOK
    <2>7. CASE Cancel(r) BY <2>7 DEF Cancel, CancelPoint, TypeOK
    <2>8. CASE StatusCleanup(r) BY <2>8 DEF StatusCleanup, TypeOK
    <2>9. CASE SlotCleanup(r)
      <3>1. wpc[r] = "slotCleanup" /\ \A s \in Req : s # r => wpc'[s] = wpc[s]
        BY <2>9 DEF SlotCleanup, TypeOK
      <3>2. \A s \in Req : rpc'[s] = rpc[s] \/ (rpc[s] = "asleep" /\ rpc'[s] = "woken")
        BY <2>9 DEF SlotCleanup, Signal, Asleep, TypeOK
      <3> QED BY <3>1, <3>2
    <2> QED BY <1>2, <2>1, <2>2, <2>3, <2>4, <2>5, <2>6, <2>7, <2>8, <2>9 DEF Handler
  <1>3. ASSUME NEW r \in Req, Test(r)
        PROVE  NoWorkerYet'
    <2>1. wpc[r] = "run" /\ rpc' = rpc
      BY <1>3 DEF Test, Iterate, RunAll
    <2>2. wpc' = [wpc EXCEPT ![r] = "finalize"] \/ wpc' = wpc
      BY <1>3 DEF Test, Iterate, RunAll
    <2> QED BY <2>1, <2>2 DEF TypeOK
  <1>4. ASSUME Utility
        PROVE  NoWorkerYet'
    BY <1>4 DEF Utility, Kill, PrintStatus, StatusPrinted, Clear
  <1>5. ASSUME NEW r \in Req, UnpairedPop(r) \/ FinalizeFails(r)
        PROVE  NoWorkerYet'
    BY <1>5 DEF UnpairedPop, FinalizeFails, TypeOK
  <1>6. ASSUME KillMissing
        PROVE  NoWorkerYet'
    BY <1>6 DEF KillMissing
  <1> QED BY <1>1, <1>2, <1>3, <1>4, <1>5, <1>6 DEF Next

\* The counter moves with the slots, or stays when one is lost.
LEMMA SlotAccountingStep ==
  ASSUME SlotInv, Next
  PROVE  SlotAccounting' /\ test_thread_cnt' \in 0..MaxTests
  <1> DEFINE card == Cardinality(Holders)
  <1>1. /\ IsFiniteSet(Holders) /\ card \in Nat /\ Cardinality(Holders') \in Nat
        /\ card <= test_thread_cnt /\ test_thread_cnt \in 0..MaxTests /\ MaxTests \in Nat
    BY HoldersFinite, ConstantsAssumption DEF SlotInv, SlotAccounting, TypeOK
  <1>2. CASE Holders' = Holders /\ test_thread_cnt' = test_thread_cnt
    BY <1>1, <1>2 DEF SlotAccounting
  <1>3. ASSUME NEW r \in Req, Holders' = Holders \cup {r}, test_thread_cnt < MaxTests,
               test_thread_cnt' = test_thread_cnt + 1
        PROVE  SlotAccounting' /\ test_thread_cnt' \in 0..MaxTests
    <2>1. Cardinality(Holders \cup {r}) = IF r \in Holders THEN card ELSE card + 1
      BY <1>1, FS_AddElement
    <2>2. Cardinality(Holders') <= card + 1
      BY <1>1, <1>3, <2>1
    <2> QED BY <1>1, <1>3, <2>2 DEF SlotAccounting
  <1>4. ASSUME NEW r \in Holders, Holders' = Holders \ {r},
               test_thread_cnt' = test_thread_cnt \/ test_thread_cnt' = test_thread_cnt - 1
        PROVE  SlotAccounting' /\ test_thread_cnt' \in 0..MaxTests
    <2>1. Cardinality(Holders') = card - 1
      BY <1>1, <1>4, FS_RemoveElement
    <2> QED BY <1>1, <1>4, <2>1 DEF SlotAccounting
  <1> QED BY <1>2, <1>3, <1>4, SlotMoves DEF SlotInv, Queued

\* Writing the action of an entry keeps the type of the database.
LEMMA SetActionType ==
  ASSUME TypeOK, NEW r \in Req, NEW a \in Actions, SetAction(r, a)
  PROVE  status_group' \in [Nodes -> [thread : Req \cup {None}, action : Actions]]
  BY DEF TypeOK, SetAction, WriteEntry

\* Every variable keeps its type.
LEMMA TypeOKStep ==
  ASSUME SlotInv, Next
  PROVE  TypeOK'
  <1> TypeOK /\ test_thread_cnt' \in 0..MaxTests
    BY SlotAccountingStep DEF SlotInv
  <1> USE DEF RequesterPC, WorkerPC, RequesterAt, WorkerAt, Advance, Actions,
              workerVars, requesterVars, statusVars
  <1>1. ASSUME NEW r \in Req, Requester(r), up' = up
        PROVE  TypeOK'
    <2>1. CASE \E q \in Requests : Submit(r, q) BY <1>1, <2>1 DEF Submit, TypeOK
    <2>2. CASE Admit(r) BY <1>1, <2>2 DEF Admit, TypeOK
    <2>3. CASE SpuriousWakeup(r) BY <1>1, <2>3 DEF SpuriousWakeup, TypeOK
    <2>4. CASE Create(r) BY <1>1, <2>4 DEF Create, TypeOK
    <2>5. CASE CreateFails(r) BY <1>1, <2>5, NoRequestType DEF CreateFails, TypeOK
    <2>6. CASE SetDeadline(r) BY <1>1, <2>6 DEF SetDeadline, TypeOK
    <2>7. CASE Timeout(r) BY <1>1, <2>7 DEF Timeout, TypeOK
    <2>8. CASE CancelHanging(r)
      <3>1. Registered(r) \in BOOLEAN BY DEF Registered
      <3>2. cancelled' \in [Req -> BOOLEAN] BY <2>8, <3>1 DEF CancelHanging, TypeOK
      <3> QED BY <1>1, <2>8, <3>2 DEF CancelHanging, TypeOK
    <2>9. CASE Join(r) BY <1>1, <2>9, NoRequestType DEF Join, TypeOK
    <2> QED BY <1>1, <2>1, <2>2, <2>3, <2>4, <2>5, <2>6, <2>7, <2>8, <2>9 DEF Requester
  <1>2. ASSUME NEW r \in Req, Handler(r), up' = up
        PROVE  TypeOK'
    <2>1. CASE Start(r) BY <1>2, <2>1 DEF Start, TypeOK
    <2>2. CASE Lookup(r) BY <1>2, <2>2 DEF Lookup, TypeOK
    <2>3. CASE AddGroup(r) BY <1>2, <2>3 DEF AddGroup, NewEntry, TypeOK
    <2>4. CASE AddGroupFails(r) BY <1>2, <2>4 DEF AddGroupFails, TypeOK
    <2>5. CASE AddBuckets(r)
      <3>1. status_group' \in [Nodes -> [thread : Req \cup {None}, action : Actions]]
        BY <2>5, SetActionType DEF AddBuckets, TypeOK
      <3> QED BY <1>2, <2>5, <3>1 DEF AddBuckets, TypeOK
    <2>6. CASE Finalize(r) BY <1>2, <2>6 DEF Finalize, TypeOK
    <2>7. CASE Cancel(r) BY <1>2, <2>7 DEF Cancel, TypeOK
    <2>8. CASE StatusCleanup(r)
      <3>1. grp[r] \in Nodes BY <2>8 DEF StatusCleanup, TypeOK
      <3>2. status_group' \in [Nodes -> [thread : Req \cup {None}, action : Actions]]
        BY <2>8, <3>1 DEF StatusCleanup, WriteEntry, Ended, TypeOK
      <3>3. dangling' \subseteq Nodes BY <2>8 DEF StatusCleanup, TypeOK
      <3>4. wpc' \in [Req -> WorkerPC] BY <2>8 DEF StatusCleanup, TypeOK
      <3> QED BY <1>2, <2>8, <3>2, <3>3, <3>4 DEF StatusCleanup, TypeOK
    <2>9. CASE SlotCleanup(r)
      <3>1. rpc' \in [Req -> RequesterPC] BY <2>9 DEF SlotCleanup, Signal, TypeOK
      <3>2. req' \in [Req -> Requests] BY <2>9, NoRequestType DEF SlotCleanup, TypeOK
      <3>3. args' \in [Req -> {"none", "live", "freed"}] BY <2>9 DEF SlotCleanup, TypeOK
      <3>4. wpc' \in [Req -> WorkerPC] BY <2>9 DEF SlotCleanup, TypeOK
      <3>5. ret' \in [Req -> {"none", "TB_OK", "TB_ERROR", "PTHREAD_CANCELED"}]
        BY <2>9 DEF SlotCleanup, TypeOK
      <3>6. /\ result' \in [Req -> {"TB_OK", "TB_ERROR"}] /\ executions' \in [Req -> Nat]
            /\ grp' \in [Req -> Nodes \cup {None}] /\ cancelled' \in [Req -> BOOLEAN]
        BY <2>9 DEF SlotCleanup, TypeOK
      <3>7. UNCHANGED <<clients, group_reg, status_group, dangling, status_mutex>>
        BY <2>9 DEF SlotCleanup
      <3> QED BY <1>2, <3>1, <3>2, <3>3, <3>4, <3>5, <3>6, <3>7 DEF TypeOK
    <2> QED BY <1>2, <2>1, <2>2, <2>3, <2>4, <2>5, <2>6, <2>7, <2>8, <2>9 DEF Handler
  <1>3. ASSUME NEW r \in Req, Test(r), up' = up
        PROVE  TypeOK'
    <2>1. CASE Iterate(r)
      <3>1. /\ result' \in [Req -> {"TB_OK", "TB_ERROR"}]
            /\ executions' \in [Req -> Nat]
            /\ wpc' \in [Req -> WorkerPC]
        BY <2>1 DEF Iterate, TypeOK
      <3>2. status_group' = status_group \/ SetAction(r, "stopped") \/ SetAction(r, "done")
        BY <2>1 DEF Iterate, EndOfLoop
      <3>3. status_group' \in [Nodes -> [thread : Req \cup {None}, action : Actions]]
        BY <3>2, SetActionType DEF TypeOK
      <3>4. UNCHANGED <<test_thread_cnt, rpc, req, args, grp, cancelled, ret, clients,
                        group_reg, dangling, status_mutex>>
        BY <2>1 DEF Iterate
      <3> QED BY <1>3, <3>1, <3>3, <3>4 DEF TypeOK
    <2>2. CASE RunAll(r)
      <3>1. SetAction(r, "stopped") \/ SetAction(r, "done") BY <2>2 DEF RunAll
      <3>2. status_group' \in [Nodes -> [thread : Req \cup {None}, action : Actions]]
        BY <3>1, SetActionType
      <3> QED BY <1>3, <2>2, <3>2 DEF RunAll, TypeOK
    <2> QED BY <1>3, <2>1, <2>2 DEF Test
  <1>4. ASSUME Utility, up' = up
        PROVE  TypeOK'
    <2>1. ASSUME NEW n \in Nodes, Kill(n)
          PROVE  TypeOK'
      <3>1. status_group[n].thread \in Req BY <2>1 DEF Kill, TypeOK
      <3> QED BY <1>4, <2>1, <3>1 DEF Kill, TypeOK
    <2>2. CASE PrintStatus \/ StatusPrinted
      BY <1>4, <2>2 DEF PrintStatus, StatusPrinted, TypeOK
    <2>3. ASSUME NEW S \in SUBSET group_reg, Clear(S)
          PROVE  TypeOK'
      <3>1. status_group' \in [Nodes -> [thread : Req \cup {None}, action : Actions]]
        BY <2>3 DEF Clear, FreeNode, TypeOK
      <3>2. group_reg' \subseteq Nodes /\ dangling' \subseteq Nodes BY <2>3 DEF Clear, TypeOK
      <3> QED BY <1>4, <2>3, <3>1, <3>2 DEF Clear, TypeOK
    <2> QED BY <1>4, <2>1, <2>2, <2>3 DEF Utility
  <1>5. ASSUME NEW r \in Req, UnpairedPop(r)
        PROVE  TypeOK'
    <2>1. status_group' \in [Nodes -> [thread : Req \cup {None}, action : Actions]]
      <3>1. CASE UNCHANGED status_group BY <3>1 DEF TypeOK
      <3>2. ASSUME NEW n \in Nodes, WriteEntry(n, Ended(status_group[n]))
            PROVE  status_group' \in [Nodes -> [thread : Req \cup {None}, action : Actions]]
        BY <3>2 DEF WriteEntry, Ended, TypeOK
      <3> QED BY <1>5, <3>1, <3>2 DEF UnpairedPop
    <2>2. up' \in BOOLEAN BY <1>5 DEF UnpairedPop, TypeOK
    <2>3. wpc' \in [Req -> WorkerPC] BY <1>5 DEF UnpairedPop, TypeOK
    <2> QED BY <1>5, <2>1, <2>2, <2>3 DEF UnpairedPop, TypeOK
  <1>6. ASSUME KillMissing \/ \E r \in Req : FinalizeFails(r)
        PROVE  TypeOK'
    <2>1. /\ up' = FALSE
          /\ UNCHANGED <<test_thread_cnt, requesterVars, args, workerVars, clients, statusVars>>
      BY <1>6 DEF KillMissing, FinalizeFails
    <2> QED BY <2>1 DEF TypeOK
  <1> QED BY <1>1, <1>2, <1>3, <1>4, <1>5, <1>6 DEF Next

LEMMA SlotInvStutter == ASSUME SlotInv, UNCHANGED vars PROVE SlotInv'
  BY DEF SlotInv, vars, workerVars, requesterVars, statusVars, TypeOK, NoWorkerYet,
         SlotAccounting, Holders

LEMMA SlotInvInit == Init => SlotInv
  <1> SUFFICES ASSUME Init PROVE SlotInv OBVIOUS
  <1>1. TypeOK
    <2>1. 0 \in 0..MaxTests BY ConstantsAssumption
    <2>2. FreeNode \in [thread : Req \cup {None}, action : Actions] BY DEF FreeNode, Actions
    <2>3. status_group \in [Nodes -> [thread : Req \cup {None}, action : Actions]]
      BY <2>2 DEF Init
    <2> QED BY <2>1, <2>3, NoRequestType DEF Init, TypeOK, RequesterPC, WorkerPC
  <1>2. NoWorkerYet BY DEF Init, NoWorkerYet
  <1>3. Holders = {} BY DEF Init, Holders, Working, WorkerPC
  <1>4. SlotAccounting BY <1>3, FS_EmptySet DEF Init, SlotAccounting
  <1> QED BY <1>1, <1>2, <1>4 DEF SlotInv

LEMMA SlotInvariant == Spec => []SlotInv
  <1>1. SlotInv /\ [Next]_vars => SlotInv'
    BY NoWorkerYetStep, SlotAccountingStep, TypeOKStep, SlotInvStutter DEF SlotInv
  <1> QED BY <1>1, SlotInvInit, PTL DEF Spec

\* The type invariant, with the bound TEST_THREAD_COUNT on the counter.
THEOREM TypeCorrect == Spec => []TypeOK
  BY SlotInvariant, PTL DEF SlotInv

\* Every started worker is counted, however workers end.
THEOREM SlotsAccounted == Spec => []SlotAccounting
  BY SlotInvariant, PTL DEF SlotInv

----------------------------------------------------------------------------
(* The condition variable.                                                 *)

LEMMA WokenFinite ==
    /\ IsFiniteSet(Woken) /\ Cardinality(Woken) \in Nat
    /\ IsFiniteSet(Woken') /\ Cardinality(Woken') \in Nat
  <1>1. Woken \subseteq Req /\ Woken' \subseteq Req BY DEF Woken
  <1> QED BY <1>1, ConstantsAssumption, FS_Subset, FS_CardinalityType

\* How a step moves the sleeping and the woken threads: nobody sleeps after it;
\* the slots are all taken after it; no thread falls asleep, none that is woken
\* is lost and the counter stays; a woken thread or a newcomer takes a slot; or
\* a slot is given back and a sleeper is woken for it.
LEMMA WakeupMoves ==
  ASSUME TypeOK, Next
  PROVE  \/ Asleep' = {}
         \/ test_thread_cnt' = test_thread_cnt /\ test_thread_cnt >= MaxTests
         \/ /\ Asleep' \subseteq Asleep /\ Woken \subseteq Woken'
            /\ test_thread_cnt' = test_thread_cnt
         \/ \E r \in Req : /\ Asleep' = Asleep /\ Woken' = Woken \ {r}
                           /\ test_thread_cnt' = test_thread_cnt + 1
         \/ \E r \in Asleep : /\ Woken' = Woken \cup {r}
                              /\ test_thread_cnt' = test_thread_cnt - 1
  <1> DEFINE Still == /\ Asleep' \subseteq Asleep /\ Woken \subseteq Woken'
                      /\ test_thread_cnt' = test_thread_cnt
             Full  == test_thread_cnt' = test_thread_cnt /\ test_thread_cnt >= MaxTests
             Taken == \E r \in Req : /\ Asleep' = Asleep /\ Woken' = Woken \ {r}
                                     /\ test_thread_cnt' = test_thread_cnt + 1
             Given == \E r \in Asleep : /\ Woken' = Woken \cup {r}
                                        /\ test_thread_cnt' = test_thread_cnt - 1
  <1> USE DEF Asleep, Woken, RequesterAt, requesterVars
  <1>1. ASSUME NEW r \in Req, Requester(r)
        PROVE  Still \/ Full \/ Taken
    <2>1. CASE \E q \in Requests : Submit(r, q) BY <2>1 DEF Submit, TypeOK
    <2>2. CASE Admit(r)
      <3>1. CASE SlotFree
        <4>1. /\ rpc' = [rpc EXCEPT ![r] = "create"] /\ rpc[r] # "asleep"
              /\ test_thread_cnt' = test_thread_cnt + 1
          BY <2>2, <3>1 DEF Admit
        <4>2. Asleep' = Asleep /\ Woken' = Woken \ {r} BY <4>1 DEF TypeOK
        <4> QED BY <4>1, <4>2
      <3>2. CASE ~SlotFree
        BY <2>2, <3>2, ConstantsAssumption DEF Admit, SlotFree, TypeOK
      <3> QED BY <3>1, <3>2
    <2>3. CASE SpuriousWakeup(r) BY <2>3 DEF SpuriousWakeup, TypeOK
    <2>4. CASE Create(r) BY <2>4 DEF Create, TypeOK
    <2>5. CASE CreateFails(r) BY <2>5 DEF CreateFails, TypeOK
    <2>6. CASE SetDeadline(r) BY <2>6 DEF SetDeadline, TypeOK
    <2>7. CASE Timeout(r) BY <2>7 DEF Timeout, TypeOK
    <2>8. CASE CancelHanging(r) BY <2>8 DEF CancelHanging, TypeOK
    <2>9. CASE Join(r) BY <2>9 DEF Join, TypeOK
    <2> QED BY <1>1, <2>1, <2>2, <2>3, <2>4, <2>5, <2>6, <2>7, <2>8, <2>9 DEF Requester
  <1>2. ASSUME NEW r \in Req, Handler(r)
        PROVE  Still \/ Asleep' = {} \/ Given
    <2>1. CASE SlotCleanup(r)
      <3>1. test_thread_cnt' = test_thread_cnt - 1 BY <2>1 DEF SlotCleanup
      <3>2. CASE Asleep = {} BY <2>1, <3>2 DEF SlotCleanup, Signal
      <3>3. CASE Asleep # {}
        <4>1. PICK s \in Asleep : rpc' = [rpc EXCEPT ![s] = "woken"]
          BY <2>1, <3>3 DEF SlotCleanup, Signal
        <4>2. Woken' = Woken \cup {s} BY <4>1 DEF TypeOK
        <4> QED BY <3>1, <4>2
      <3> QED BY <3>2, <3>3
    <2>2. CASE rpc' = rpc /\ test_thread_cnt' = test_thread_cnt BY <2>2
    <2> QED BY <1>2, <2>1, <2>2 DEF Handler, Start, Lookup, AddGroup, AddGroupFails, AddBuckets,
                                    Finalize, Cancel, StatusCleanup
  <1>3. ASSUME rpc' = rpc /\ test_thread_cnt' = test_thread_cnt
        PROVE  Still
    BY <1>3
  <1>4. ASSUME NEW r \in Req, Test(r) \/ UnpairedPop(r) \/ FinalizeFails(r)
        PROVE  rpc' = rpc /\ test_thread_cnt' = test_thread_cnt
    BY <1>4 DEF Test, Iterate, RunAll, UnpairedPop, FinalizeFails
  <1>5. ASSUME Utility \/ KillMissing
        PROVE  rpc' = rpc /\ test_thread_cnt' = test_thread_cnt
    BY <1>5 DEF Utility, Kill, PrintStatus, StatusPrinted, Clear, KillMissing
  <1> HIDE DEF Still, Full, Taken, Given
  <1>6. Still \/ Full \/ Taken \/ Given \/ Asleep' = {}
    BY <1>1, <1>2, <1>3, <1>4, <1>5 DEF Next
  <1> QED BY <1>6 DEF Still, Full, Taken, Given

\* Every move keeps a woken thread for each free slot.
LEMMA NoLostWakeupStep ==
  ASSUME SlotInv, NoLostWakeup, Next
  PROVE  NoLostWakeup'
  <1> DEFINE woken == Cardinality(Woken)
  <1>1. /\ MaxTests \in Nat /\ test_thread_cnt \in Nat /\ TypeOK
        /\ woken \in Nat /\ Cardinality(Woken') \in Nat
        /\ IsFiniteSet(Woken) /\ IsFiniteSet(Woken')
    BY ConstantsAssumption, WokenFinite DEF SlotInv, TypeOK
  <1>2. CASE Asleep' = {} BY <1>2 DEF NoLostWakeup
  <1>3. CASE test_thread_cnt' = test_thread_cnt /\ test_thread_cnt >= MaxTests
    BY <1>1, <1>3 DEF NoLostWakeup
  <1>4. CASE /\ Asleep' \subseteq Asleep /\ Woken \subseteq Woken'
             /\ test_thread_cnt' = test_thread_cnt
    <2>1. woken <= Cardinality(Woken') BY <1>1, <1>4, FS_Subset
    <2> QED BY <1>1, <1>4, <2>1 DEF NoLostWakeup
  <1>5. ASSUME NEW r \in Req, Asleep' = Asleep, Woken' = Woken \ {r},
               test_thread_cnt' = test_thread_cnt + 1
        PROVE  NoLostWakeup'
    <2>1. Cardinality(Woken \ {r}) = IF r \in Woken THEN woken - 1 ELSE woken
      BY <1>1, FS_RemoveElement
    <2>2. woken - 1 <= Cardinality(Woken') BY <1>1, <1>5, <2>1
    <2> QED BY <1>1, <1>5, <2>2 DEF NoLostWakeup
  <1>6. ASSUME NEW r \in Asleep, Woken' = Woken \cup {r},
               test_thread_cnt' = test_thread_cnt - 1
        PROVE  NoLostWakeup'
    <2>1. r \notin Woken BY <1>6 DEF Asleep, Woken
    <2>2. Cardinality(Woken \cup {r}) = woken + 1 BY <1>1, <2>1, FS_AddElement
    <2> QED BY <1>1, <1>6, <2>2 DEF NoLostWakeup
  <1> QED BY <1>1, <1>2, <1>3, <1>4, <1>5, <1>6, WakeupMoves

\* No wakeup is lost: while a request sleeps, every free slot has a woken thread.
THEOREM WakeupsNotLost == Spec => []NoLostWakeup
  <1>1. Init => NoLostWakeup BY DEF Init, NoLostWakeup, Asleep
  <1>2. SlotInv /\ NoLostWakeup /\ [Next]_vars => NoLostWakeup'
    <2>1. UNCHANGED vars => (NoLostWakeup <=> NoLostWakeup')
      BY DEF vars, requesterVars, NoLostWakeup, Asleep, Woken
    <2> QED BY <2>1, NoLostWakeupStep
  <1> QED BY <1>1, <1>2, SlotInvariant, PTL DEF Spec

----------------------------------------------------------------------------
(* The queue is full of tests, not of lost slots.                          *)

\* Every counted slot has an owner.
NoSlotLost == test_thread_cnt <= Cardinality(Holders)

\* Only a pthread_create that fails takes a slot from its owner and keeps it.
LEMMA NoSlotLostStep ==
  ASSUME SlotInv, NoSlotLost, Next, "create" \notin Faults
  PROVE  NoSlotLost'
  <1> DEFINE card == Cardinality(Holders)
  <1>1. IsFiniteSet(Holders) /\ card \in Nat /\ Cardinality(Holders') \in Nat /\ test_thread_cnt \in Nat
    BY HoldersFinite, ConstantsAssumption DEF SlotInv, TypeOK
  <1>2. CASE Holders' = Holders /\ test_thread_cnt' = test_thread_cnt
    BY <1>2 DEF NoSlotLost
  <1>3. ASSUME NEW r \in Queued, Holders' = Holders \cup {r}, test_thread_cnt' = test_thread_cnt + 1
        PROVE  NoSlotLost'
    <2>1. r \notin Holders
      BY DEF SlotInv, NoWorkerYet, Queued, Holders, QueuePC, Working
    <2>2. Cardinality(Holders') = card + 1 BY <1>1, <1>3, <2>1, FS_AddElement
    <2> QED BY <1>1, <1>3, <2>2 DEF NoSlotLost
  <1>4. ASSUME NEW r \in Holders, Holders' = Holders \ {r}, test_thread_cnt' = test_thread_cnt - 1
        PROVE  NoSlotLost'
    <2>1. Cardinality(Holders') = card - 1 BY <1>1, <1>4, FS_RemoveElement
    <2> QED BY <1>1, <1>4, <2>1 DEF NoSlotLost
  <1> QED BY <1>2, <1>3, <1>4, SlotMoves DEF SlotInv

\* While every pthread_create succeeds, requests sleep only because that many
\* tests run, or threads woken for the free slots are on their way; whether
\* tests vanish, allocations fail or running entries are cleared.
THEOREM QueueMeansFull ==
  ASSUME "create" \notin Faults
  PROVE  Spec => []QueuedOnlyWhenFull
  <1>1. Init => NoSlotLost
    <2> SUFFICES ASSUME Init PROVE NoSlotLost OBVIOUS
    <2>1. Cardinality(Holders) \in Nat BY HoldersFinite
    <2> QED BY <2>1 DEF Init, NoSlotLost
  <1>2. SlotInv /\ NoSlotLost /\ [Next]_vars => NoSlotLost'
    <2>1. UNCHANGED vars => (NoSlotLost <=> NoSlotLost')
      BY DEF vars, requesterVars, workerVars, NoSlotLost, Holders
    <2> QED BY <2>1, NoSlotLostStep
  <1>3. SlotInv /\ NoSlotLost /\ NoLostWakeup => QueuedOnlyWhenFull
    <2> SUFFICES ASSUME SlotInv, NoSlotLost, NoLostWakeup PROVE QueuedOnlyWhenFull OBVIOUS
    <2>1. /\ Cardinality(Holders) \in Nat /\ Cardinality(Woken) \in Nat
          /\ test_thread_cnt \in Nat /\ MaxTests \in Nat
      BY HoldersFinite, WokenFinite, ConstantsAssumption DEF SlotInv, TypeOK
    <2> QED BY <2>1 DEF NoSlotLost, NoLostWakeup, QueuedOnlyWhenFull
  <1> QED BY <1>1, <1>2, <1>3, SlotInvariant, WakeupsNotLost, PTL DEF Spec

----------------------------------------------------------------------------
(* The abstract gate.                                                      *)

\* Tests are admitted the way AdmissionGate promises, with every fault.
THEOREM RefinesGate == Spec => GateRefined
  <1>1. Init => Gate!GateInit
    BY DEF Init, Gate!GateInit, Queued, Holders, Working, WorkerPC
  <1>2. ASSUME SlotInv, [Next]_vars
        PROVE  [Gate!GateNext]_(Gate!gateVars)
    <2>1. CASE UNCHANGED vars
      BY <2>1 DEF vars, requesterVars, workerVars, Gate!gateVars, Queued, Holders
    <2>2. CASE Next
      <3>1. /\ Holders \subseteq Req /\ Queued \subseteq Req
            /\ Cardinality(Holders) \in Nat /\ Cardinality(Holders) <= test_thread_cnt
            /\ test_thread_cnt \in Nat /\ MaxTests \in Nat /\ TypeOK /\ NoWorkerYet
        BY <1>2, HoldersFinite, ConstantsAssumption
        DEF SlotInv, SlotAccounting, TypeOK, Holders, Queued
      <3>2. CASE Holders' = Holders /\ Queued' = Queued BY <3>2 DEF Gate!gateVars
      <3>3. ASSUME NEW r \in Req, Holders' = Holders, r \notin Queued \cup Holders,
                   Queued' = Queued \cup {r}
            PROVE  Gate!Arrive(r)
        BY <3>3 DEF Gate!Arrive
      <3>4. ASSUME NEW r \in Queued, Queued' = Queued \ {r}, Holders' = Holders \cup {r},
                   test_thread_cnt < MaxTests
            PROVE  Gate!Enter(r)
        <4>1. Cardinality(Holders) < MaxTests BY <3>1, <3>4
        <4>2. Gate!Cardinality(Holders) = Cardinality(Holders)
          BY DEF Gate!Cardinality, Cardinality
        <4> QED BY <3>4, <4>1, <4>2 DEF Gate!Enter
      <3>5. ASSUME NEW r \in Holders, Holders' = Holders \ {r}, Queued' = Queued
            PROVE  Gate!Leave(r)
        BY <3>5 DEF Gate!Leave
      <3> QED BY <2>2, <3>1, <3>2, <3>3, <3>4, <3>5, SlotMoves DEF Gate!GateNext
    <2> QED BY <1>2, <2>1, <2>2
  <1> QED BY <1>1, <1>2, SlotInvariant, PTL DEF Spec, GateRefined, Gate!GateSpec

----------------------------------------------------------------------------
(* Cancellation.                                                           *)

\* The entries are untouched and no worker with an entry leaves the program
\* counters from addBuckets to statusCleanup.
LEMMA EntriesUntouched ==
  ASSUME TypeOK, EntryOfLiveThread, status_group' = status_group,
         \A t \in Req : wpc[t] \in LivePC => wpc'[t] \in LivePC /\ grp'[t] = grp[t]
  PROVE  EntryOfLiveThread'
  BY DEF TypeOK, EntryOfLiveThread, LivePC

\* Writing an action keeps the threads of the entries.
LEMMA SetActionThreads ==
  ASSUME TypeOK, NEW r \in Req, NEW a, SetAction(r, a)
  PROVE  \A n \in Nodes : status_group'[n].thread = status_group[n].thread
  BY DEF TypeOK, SetAction, WriteEntry

\* Memory that the database does not list holds no thread.
UnlistedIsFree == \A n \in Nodes \ group_reg : status_group[n].thread = None

LEMMA UnlistedIsFreeStep ==
  ASSUME UnlistedIsFree, Next
  PROVE  UnlistedIsFree'
  <1> USE DEF UnlistedIsFree, statusVars
  <1>1. CASE group_reg' = group_reg /\ status_group' = status_group BY <1>1
  <1>2. ASSUME group_reg' = group_reg, NEW n, NEW e, WriteEntry(n, e)
        PROVE  UnlistedIsFree'
    BY <1>2 DEF WriteEntry
  <1>3. ASSUME NEW r \in Req, AddGroup(r)
        PROVE  UnlistedIsFree'
    BY <1>3 DEF AddGroup
  <1>4. ASSUME NEW S \in SUBSET group_reg, Clear(S)
        PROVE  UnlistedIsFree'
    BY <1>4 DEF Clear, FreeNode
  <1> DEFINE Same    == group_reg' = group_reg /\ status_group' = status_group
             Written == group_reg' = group_reg /\ \E n, e : WriteEntry(n, e)
             Cleared == \E S \in SUBSET group_reg : Clear(S)
  <1>5. ASSUME NEW r \in Req, Requester(r)
        PROVE  Same
    BY <1>5 DEF Requester, Submit, Admit, SpuriousWakeup, Create, CreateFails,
                SetDeadline, Timeout, CancelHanging, Join
  <1>6. ASSUME NEW r \in Req, Handler(r) \/ Test(r)
        PROVE  Same \/ Written \/ AddGroup(r)
    <2>1. CASE Handler(r)
      BY <2>1 DEF Handler, Start, Lookup, AddGroupFails, AddBuckets, Finalize, Cancel,
                  StatusCleanup, SlotCleanup, SetAction
    <2>2. CASE Iterate(r) BY <2>2 DEF Iterate, SetAction
    <2>3. CASE RunAll(r) BY <2>3 DEF RunAll, SetAction
    <2> QED BY <1>6, <2>1, <2>2, <2>3 DEF Test
  <1>7. Utility => Same \/ Cleared
    BY DEF Utility, Kill, PrintStatus, StatusPrinted
  <1>8. KillMissing \/ (\E r \in Req : UnpairedPop(r) \/ FinalizeFails(r)) => Same \/ Written
    BY DEF KillMissing, UnpairedPop, FinalizeFails
  <1>9. Same \/ Written \/ Cleared \/ \E r \in Req : AddGroup(r)
    BY <1>5, <1>6, <1>7, <1>8 DEF Next
  <1> QED BY <1>1, <1>2, <1>3, <1>4, <1>9

LEMMA EntryOfLiveThreadStep ==
  ASSUME TypeOK, NoWorkerYet, UnlistedIsFree, EntryOfLiveThread, Next
  PROVE  EntryOfLiveThread'
  <1> USE DEF LivePC, RequesterAt, WorkerAt, Advance, workerVars, requesterVars, statusVars
  <1>1. ASSUME NEW r \in Req, Requester(r)
        PROVE  EntryOfLiveThread'
    <2>1. status_group' = status_group /\ grp' = grp
      BY <1>1 DEF Requester, Submit, Admit, SpuriousWakeup, Create, CreateFails,
                  SetDeadline, Timeout, CancelHanging, Join
    <2>2. CASE Create(r)
      <3>1. wpc[r] = "none" /\ wpc' = [wpc EXCEPT ![r] = "start"]
        BY <2>2 DEF Create, NoWorkerYet
      <3> QED BY <2>1, <3>1, EntriesUntouched DEF TypeOK
    <2>3. CASE Join(r)
      <3>1. wpc[r] = "done" /\ wpc' = [wpc EXCEPT ![r] = "none"] BY <2>3 DEF Join
      <3> QED BY <2>1, <3>1, EntriesUntouched DEF TypeOK
    <2>4. CASE wpc' = wpc BY <2>1, <2>4, EntriesUntouched
    <2> QED BY <1>1, <2>2, <2>3, <2>4 DEF Requester, Submit, Admit, SpuriousWakeup, CreateFails,
                                           SetDeadline, Timeout, CancelHanging
  <1>2. ASSUME NEW r \in Req, Handler(r)
        PROVE  EntryOfLiveThread'
    <2>1. CASE Start(r) BY <2>1, EntriesUntouched DEF Start, TypeOK
    <2>2. CASE Lookup(r) BY <2>2, EntriesUntouched DEF Lookup, TypeOK
    <2>3. CASE AddGroup(r)
      <3>1. PICK n \in Nodes : /\ status_group' = [status_group EXCEPT ![n] = NewEntry(r)]
                               /\ grp' = [grp EXCEPT ![r] = n]
                               /\ wpc' = [wpc EXCEPT ![r] = "addBuckets"]
                               /\ wpc[r] = "addGroup"
        BY <2>3 DEF AddGroup
      <3>2. status_group'[n].thread = r /\ wpc'[r] = "addBuckets" /\ grp'[r] = n
        BY <3>1 DEF TypeOK, NewEntry
      <3>3. \A m \in Nodes \ {n} : status_group'[m] = status_group[m] /\ status_group[m].thread # r
        BY <3>1, ConstantsAssumption DEF TypeOK, EntryOfLiveThread
      <3>4. \A t \in Req \ {r} : wpc'[t] = wpc[t] /\ grp'[t] = grp[t] BY <3>1 DEF TypeOK
      <3> QED BY <3>2, <3>3, <3>4 DEF TypeOK, EntryOfLiveThread
    <2>4. CASE AddGroupFails(r) BY <2>4, EntriesUntouched DEF AddGroupFails, TypeOK
    <2>5. CASE AddBuckets(r)
      <3>1. /\ wpc[r] = "addBuckets" /\ grp' = grp
            /\ wpc' = [wpc EXCEPT ![r] = "run"] \/ wpc' = [wpc EXCEPT ![r] = "finalize"]
            /\ status_group' = status_group \/ SetAction(r, "running")
        BY <2>5 DEF AddBuckets
      <3>2. \A n \in Nodes : status_group'[n].thread = status_group[n].thread
        BY <3>1, SetActionThreads
      <3> QED BY <3>1, <3>2 DEF TypeOK, EntryOfLiveThread
    <2>6. CASE Finalize(r) BY <2>6, EntriesUntouched DEF Finalize, TypeOK
    <2>7. CASE Cancel(r) BY <2>7, EntriesUntouched DEF Cancel, CancelPoint, TypeOK
    <2>8. CASE StatusCleanup(r)
      <3>1. /\ wpc[r] = "statusCleanup" /\ wpc' = [wpc EXCEPT ![r] = "slotCleanup"]
            /\ grp[r] \in Nodes /\ grp' = grp
            /\ WriteEntry(grp[r], Ended(status_group[grp[r]]))
        BY <2>8 DEF StatusCleanup, TypeOK
      <3>2. grp[r] \in group_reg => status_group'[grp[r]].thread = None
        BY <3>1 DEF TypeOK, WriteEntry, Ended
      <3>3. \A m \in Nodes \ {grp[r]} : status_group'[m] = status_group[m] /\ status_group[m].thread # r
        BY <3>1, ConstantsAssumption DEF TypeOK, WriteEntry, EntryOfLiveThread
      <3>4. \A t \in Req \ {r} : wpc'[t] = wpc[t] BY <3>1 DEF TypeOK
      <3>5. grp[r] \notin group_reg => status_group'[grp[r]].thread = None
        BY <3>1 DEF WriteEntry, UnlistedIsFree
      <3> QED BY <3>1, <3>2, <3>3, <3>4, <3>5 DEF TypeOK, EntryOfLiveThread
    <2>9. CASE SlotCleanup(r)
      <3>1. wpc[r] = "slotCleanup" /\ status_group' = status_group BY <2>9 DEF SlotCleanup
      <3>2. \A t \in Req \ {r} : wpc'[t] = wpc[t] /\ grp'[t] = grp[t]
        BY <2>9 DEF SlotCleanup, TypeOK
      <3> QED BY <3>1, <3>2, EntriesUntouched
    <2> QED BY <1>2, <2>1, <2>2, <2>3, <2>4, <2>5, <2>6, <2>7, <2>8, <2>9 DEF Handler
  <1>3. ASSUME NEW r \in Req, Test(r)
        PROVE  EntryOfLiveThread'
    <2>1. /\ wpc[r] = "run" /\ grp' = grp
          /\ wpc' = [wpc EXCEPT ![r] = "finalize"] \/ wpc' = wpc
      BY <1>3 DEF Test, Iterate, RunAll
    <2>2. status_group' = status_group \/ \E a \in Actions : SetAction(r, a)
      BY <1>3 DEF Test, Iterate, RunAll, EndOfLoop, Actions
    <2>3. \A n \in Nodes : status_group'[n].thread = status_group[n].thread
      BY <2>2, SetActionThreads
    <2> QED BY <2>1, <2>3 DEF TypeOK, EntryOfLiveThread
  <1>4. ASSUME Utility
        PROVE  EntryOfLiveThread'
    <2>1. CASE wpc' = wpc /\ grp' = grp /\ status_group' = status_group
      BY <2>1, EntriesUntouched
    <2>2. ASSUME NEW S \in SUBSET group_reg, Clear(S)
          PROVE  EntryOfLiveThread'
      <3>1. \A n \in Nodes : \/ status_group'[n].thread = None
                             \/ status_group'[n] = status_group[n]
        BY <2>2 DEF Clear, FreeNode
      <3> QED BY <2>2, <3>1 DEF Clear, TypeOK, EntryOfLiveThread
    <2> QED BY <1>4, <2>1, <2>2 DEF Utility, Kill, PrintStatus, StatusPrinted
  <1>5. ASSUME NEW r \in Req, UnpairedPop(r)
        PROVE  EntryOfLiveThread'
    <2>1. /\ wpc[r] = "statusCleanup" /\ grp[r] = None /\ grp' = grp
          /\ wpc' = [wpc EXCEPT ![r] = "slotCleanup"]
      BY <1>5 DEF UnpairedPop
    <2>2. \A n \in Nodes : status_group[n].thread # r
      BY <2>1, ConstantsAssumption DEF EntryOfLiveThread
    <2>3. \A n \in Nodes : \/ status_group'[n].thread = None
                           \/ status_group'[n] = status_group[n]
      BY <1>5 DEF UnpairedPop, WriteEntry, Ended, TypeOK
    <2> QED BY <2>1, <2>2, <2>3 DEF TypeOK, EntryOfLiveThread
  <1>6. ASSUME KillMissing \/ \E r \in Req : FinalizeFails(r)
        PROVE  EntryOfLiveThread'
    BY <1>6, EntriesUntouched DEF KillMissing, FinalizeFails
  <1> QED BY <1>1, <1>2, <1>3, <1>4, <1>5, <1>6 DEF Next

\* --kill and the timeout never cancel a thread that has ended or another
\* request's thread, even when --clear frees entries of running tests and their
\* memory is used again.
THEOREM KillsOnlyItsOwn == Spec => []EntryOfLiveThread
  <1> DEFINE LiveInv == UnlistedIsFree /\ EntryOfLiveThread
  <1>1. Init => LiveInv BY DEF Init, EntryOfLiveThread, UnlistedIsFree, FreeNode
  <1>2. SlotInv /\ LiveInv /\ [Next]_vars => LiveInv'
    <2>1. UNCHANGED vars => (LiveInv => LiveInv')
      BY DEF vars, workerVars, statusVars, EntryOfLiveThread, UnlistedIsFree
    <2> QED BY <2>1, EntryOfLiveThreadStep, UnlistedIsFreeStep DEF SlotInv
  <1> QED BY <1>1, <1>2, SlotInvariant, PTL DEF Spec

----------------------------------------------------------------------------
(* The life of thread_args.                                                *)

BeforeFree == {"start", "lookup", "addGroup", "addBuckets", "run", "finalize"}
Unwinding  == {"statusCleanup", "slotCleanup", "done"}

\* The arguments of one request: alive from the parser until the worker passes
\* finalize_thread, after it freed unless the worker was cancelled before.
ArgsOf(r) ==
    /\ rpc[r] \in QueuePC \cup {"create"} => args[r] = "live"
    /\ wpc[r] = "none" => ret[r] = "none"
    /\ wpc[r] \in BeforeFree => args[r] = "live" /\ ret[r] = "none"
    /\ wpc[r] \in Unwinding =>
          args[r] = (IF ret[r] = "PTHREAD_CANCELED" THEN "live" ELSE "freed")

ArgsInv == \A r \in Req : ArgsOf(r)

\* A request keeps its ArgsOf while its arguments, return value and worker stay
\* and it does not enter the queue.
LEMMA ArgsUntouched ==
  ASSUME NEW r \in Req, ArgsOf(r), args'[r] = args[r], ret'[r] = ret[r], wpc'[r] = wpc[r],
         rpc'[r] \in QueuePC \cup {"create"} => rpc[r] \in QueuePC \cup {"create"}
  PROVE  ArgsOf(r)'
  BY DEF ArgsOf

LEMMA ArgsInvStep ==
  ASSUME TypeOK, NoWorkerYet, ArgsInv, Next
  PROVE  ArgsInv'
  <1> USE DEF QueuePC, BeforeFree, Unwinding, RequesterAt, WorkerAt, Advance,
              workerVars, requesterVars, statusVars
  <1>0. \A s \in Req : ArgsOf(s) BY DEF ArgsInv
  <1>1. ASSUME NEW r \in Req, Requester(r)
        PROVE  ArgsInv'
    <2>1. \A s \in Req \ {r} : /\ args'[s] = args[s] /\ ret'[s] = ret[s]
                               /\ wpc'[s] = wpc[s] /\ rpc'[s] = rpc[s]
      BY <1>1 DEF Requester, Submit, Admit, SpuriousWakeup, Create, CreateFails,
                  SetDeadline, Timeout, CancelHanging, Join, TypeOK
    <2>2. \A s \in Req \ {r} : ArgsOf(s)' BY <1>0, <2>1, ArgsUntouched
    <2>3. ArgsOf(r)'
      <3>1. CASE \E q \in Requests : Submit(r, q)
        BY <1>0, <3>1 DEF Submit, TypeOK, ArgsOf
      <3>2. CASE Create(r) BY <1>0, <3>2 DEF Create, TypeOK, ArgsOf, NoWorkerYet
      <3>3. CASE CreateFails(r) BY <1>0, <3>3 DEF CreateFails, TypeOK, ArgsOf, NoWorkerYet
      <3>4. CASE Join(r) BY <1>0, <3>4 DEF Join, TypeOK, ArgsOf
      <3>5. CASE Admit(r) \/ SpuriousWakeup(r) \/ SetDeadline(r) \/ Timeout(r) \/ CancelHanging(r)
        BY <1>0, <3>5, ArgsUntouched
        DEF Admit, SpuriousWakeup, SetDeadline, Timeout, CancelHanging, TypeOK
      <3> QED BY <1>1, <3>1, <3>2, <3>3, <3>4, <3>5 DEF Requester
    <2> QED BY <2>2, <2>3 DEF ArgsInv
  <1>2. ASSUME NEW r \in Req, Handler(r) \/ UnpairedPop(r) \/ Test(r)
        PROVE  ArgsInv'
    <2>1. \A s \in Req \ {r} : args'[s] = args[s] /\ ret'[s] = ret[s] /\ wpc'[s] = wpc[s]
      <3>1. CASE Handler(r)
        BY <3>1 DEF Handler, Start, Lookup, AddGroup, AddGroupFails, AddBuckets,
                    Finalize, Cancel, StatusCleanup, SlotCleanup, TypeOK
      <3>2. CASE UnpairedPop(r) BY <3>2 DEF UnpairedPop, TypeOK
      <3>3. CASE Test(r)
        <4>1. /\ args' = args /\ ret' = ret
              /\ wpc' = [wpc EXCEPT ![r] = "finalize"] \/ wpc' = wpc
          BY <3>3 DEF Test, Iterate, RunAll
        <4> QED BY <4>1 DEF TypeOK
      <3> QED BY <1>2, <3>1, <3>2, <3>3
    <2>2. \A s \in Req : rpc'[s] \in QueuePC \cup {"create"} => rpc[s] \in QueuePC \cup {"create"}
      <3>1. rpc' = rpc \/ \E s \in Req : rpc[s] = "asleep" /\ rpc' = [rpc EXCEPT ![s] = "woken"]
        BY <1>2 DEF Handler, Start, Lookup, AddGroup, AddGroupFails, AddBuckets, Finalize,
                    Cancel, StatusCleanup, SlotCleanup, Signal, Asleep, UnpairedPop,
                    Test, Iterate, RunAll
      <3> QED BY <3>1 DEF TypeOK
    <2>3. \A s \in Req \ {r} : ArgsOf(s)' BY <1>0, <2>1, <2>2, ArgsUntouched
    <2>4. rpc[r] \notin QueuePC \cup {"create"}
      <3>1. wpc[r] # "none"
        BY <1>2 DEF Handler, Start, Lookup, AddGroup, AddGroupFails, AddBuckets, Finalize,
                    Cancel, CancelPoint, StatusCleanup, SlotCleanup, UnpairedPop,
                    Test, Iterate, RunAll
      <3> QED BY <3>1 DEF NoWorkerYet
    <2>5. rpc'[r] \notin QueuePC \cup {"create"} BY <2>2, <2>4
    <2>6. ArgsOf(r)'
      <3>1. CASE Start(r) BY <1>0, <2>5, <3>1 DEF Start, TypeOK, ArgsOf
      <3>2. CASE Lookup(r) BY <1>0, <2>5, <3>2 DEF Lookup, TypeOK, ArgsOf
      <3>3. CASE AddGroup(r) \/ AddGroupFails(r)
        BY <1>0, <2>5, <3>3 DEF AddGroup, AddGroupFails, TypeOK, ArgsOf
      <3>4. CASE AddBuckets(r)
        <4>1. /\ wpc[r] = "addBuckets" /\ args' = args /\ ret' = ret
              /\ wpc'[r] \in {"run", "finalize"}
          BY <3>4 DEF AddBuckets, TypeOK
        <4> QED BY <1>0, <2>5, <4>1 DEF ArgsOf
      <3>5. CASE Finalize(r) BY <1>0, <2>5, <3>5 DEF Finalize, TypeOK, ArgsOf
      <3>6. CASE Cancel(r) BY <1>0, <2>5, <3>6 DEF Cancel, CancelPoint, TypeOK, ArgsOf
      <3>7. CASE StatusCleanup(r) \/ UnpairedPop(r)
        <4>1. /\ wpc[r] = "statusCleanup" /\ args' = args /\ ret' = ret
              /\ wpc'[r] = "slotCleanup"
          BY <3>7 DEF StatusCleanup, UnpairedPop, TypeOK
        <4> QED BY <1>0, <2>5, <4>1 DEF ArgsOf
      <3>8. CASE SlotCleanup(r)
        <4>1. wpc[r] = "slotCleanup" BY <3>8 DEF SlotCleanup
        <4>2. \/ wpc'[r] = "done" /\ args' = args /\ ret' = ret
              \/ wpc'[r] = "none" /\ ret'[r] = "none"
          BY <3>8 DEF SlotCleanup, TypeOK
        <4> QED BY <1>0, <2>5, <4>1, <4>2 DEF ArgsOf
      <3>9. CASE Test(r)
        <4>1. /\ wpc[r] = "run" /\ args' = args /\ ret' = ret
              /\ wpc' = [wpc EXCEPT ![r] = "finalize"] \/ wpc' = wpc
          BY <3>9 DEF Test, Iterate, RunAll
        <4>2. wpc'[r] \in {"run", "finalize"} BY <4>1 DEF TypeOK
        <4> QED BY <1>0, <2>5, <4>1, <4>2 DEF ArgsOf
      <3> QED BY <1>2, <3>1, <3>2, <3>3, <3>4, <3>5, <3>6, <3>7, <3>8, <3>9 DEF Handler
    <2> QED BY <2>3, <2>6 DEF ArgsInv
  <1>3. ASSUME Utility \/ KillMissing \/ \E r \in Req : FinalizeFails(r)
        PROVE  ArgsInv'
    <2>1. args' = args /\ ret' = ret /\ wpc' = wpc /\ rpc' = rpc
      BY <1>3 DEF Utility, Kill, PrintStatus, StatusPrinted, Clear, KillMissing, FinalizeFails
    <2> QED BY <1>0, <2>1, ArgsUntouched DEF ArgsInv
  <1> QED BY <1>1, <1>2, <1>3 DEF Next

LEMMA ArgsInvariant == Spec => []ArgsInv
  <1>1. Init => ArgsInv
    BY DEF Init, ArgsInv, ArgsOf, QueuePC, BeforeFree, Unwinding
  <1>2. SlotInv /\ ArgsInv /\ [Next]_vars => ArgsInv'
    <2>1. UNCHANGED vars => (ArgsInv <=> ArgsInv')
      BY DEF vars, workerVars, requesterVars, ArgsInv, ArgsOf
    <2> QED BY <2>1, ArgsInvStep DEF SlotInv
  <1> QED BY <1>1, <1>2, SlotInvariant, PTL DEF Spec

\* thread_args exist when exec_test_thread reads them after joining a cancelled
\* worker, and a worker that returned has freed them.
THEOREM ArgsReadAfterCancel == Spec => []CancelledArgsIntact
  <1>1. ArgsInv => CancelledArgsIntact BY DEF ArgsInv, ArgsOf, CancelledArgsIntact, Unwinding
  <1> QED BY <1>1, ArgsInvariant, PTL

----------------------------------------------------------------------------
(* The database and the workers agree while every cleanup is paired, except *)
(* in memory that --clear freed under a running test.                      *)

Paired == Faults \cap {"vanish", "alloc"} = {}

\* A worker between tb_status_add_group_node and its cleanup has an entry, which
\* is listed and its own unless --clear freed it.
OwnEntry(r) ==
    wpc[r] \in LivePC =>
        /\ grp[r] \in Nodes
        /\ grp[r] \notin dangling => grp[r] \in group_reg /\ status_group[grp[r]].thread = r

\* What the handler left in the entry fits its result, before finalize_thread
\* has copied the result to the value pthread_join yields, and after.
Fits(r, res) == /\ res = "TB_OK" => status_group[grp[r]].action = "done"
                /\ res = "TB_ERROR" /\ req[r].stop_on_fail => status_group[grp[r]].action = "stopped"
Verdict(r) == grp[r] \notin dangling =>
                /\ wpc[r] = "finalize" => Fits(r, result[r])
                /\ wpc[r] = "statusCleanup" => Fits(r, ret[r])

EntryInv == EndedHasVerdict /\ \A r \in Req : OwnEntry(r) /\ Verdict(r)

\* A request's part of EntryInv reads only its own locals and its own entry.
LEMMA EntryKept ==
  ASSUME NEW s \in Req, OwnEntry(s), Verdict(s),
         wpc'[s] = wpc[s], grp'[s] = grp[s], req'[s] = req[s],
         result'[s] = result[s], ret'[s] = ret[s],
         wpc[s] \in LivePC /\ grp[s] \notin dangling' =>
             /\ grp[s] \notin dangling /\ grp[s] \in group_reg'
             /\ status_group'[grp[s]] = status_group[grp[s]]
  PROVE  OwnEntry(s)' /\ Verdict(s)'
  BY DEF OwnEntry, Verdict, Fits, LivePC

\* A thread writes only its own locals.
LEMMA OthersStay ==
  ASSUME TypeOK, NEW r \in Req, Requester(r) \/ Handler(r) \/ Test(r)
  PROVE  \A s \in Req \ {r} : /\ wpc'[s] = wpc[s] /\ grp'[s] = grp[s] /\ req'[s] = req[s]
                               /\ result'[s] = result[s] /\ ret'[s] = ret[s]
  <1> USE DEF Advance, workerVars, requesterVars
  <1>1. CASE Requester(r)
    BY <1>1 DEF Requester, Submit, Admit, SpuriousWakeup, Create, CreateFails,
                SetDeadline, Timeout, CancelHanging, Join, TypeOK
  <1>2. CASE Handler(r)
    BY <1>2 DEF Handler, Start, Lookup, AddGroup, AddGroupFails, AddBuckets,
                Finalize, Cancel, StatusCleanup, SlotCleanup, TypeOK
  <1>3. CASE Test(r)
    <2>1. /\ grp' = grp /\ req' = req /\ ret' = ret
          /\ \E res : result' = [result EXCEPT ![r] = res]
          /\ wpc' = [wpc EXCEPT ![r] = "finalize"] \/ wpc' = wpc
      BY <1>3 DEF Test, Iterate, RunAll
    <2> QED BY <2>1 DEF TypeOK
  <1> QED BY <1>1, <1>2, <1>3

\* What EntryInv needs when r takes a step that writes at most its own entry.
LEMMA OwnEntryWritten ==
  ASSUME TypeOK, EntryInv, NEW r \in Req, Requester(r) \/ Handler(r) \/ Test(r),
         group_reg \subseteq group_reg',
         \A n \in dangling \ dangling' : Users(n) = {r},
         \A n \in group_reg \ dangling : status_group'[n] = status_group[n] \/ status_group[n].thread = r
  PROVE  \A s \in Req \ {r} : OwnEntry(s)' /\ Verdict(s)'
  <1> SUFFICES ASSUME NEW s \in Req \ {r} PROVE OwnEntry(s)' /\ Verdict(s)'
    OBVIOUS
  <1>1. OwnEntry(s) /\ Verdict(s) BY DEF EntryInv
  <1>2. ASSUME wpc[s] \in LivePC, grp[s] \notin dangling'
        PROVE  /\ grp[s] \notin dangling /\ grp[s] \in group_reg'
               /\ status_group'[grp[s]] = status_group[grp[s]]
    <2>1. s \in Users(grp[s]) BY <1>2 DEF Users
    <2>2. grp[s] \notin dangling BY <1>2, <2>1
    <2> QED BY <1>1, <1>2, <2>2 DEF OwnEntry
  <1> QED BY <1>1, <1>2, OthersStay, EntryKept

\* The calls of exec_test_thread leave the database and every live worker alone.
LEMMA EntryInvRequester ==
  ASSUME SlotInv, EntryInv, NEW r \in Req, Requester(r)
  PROVE  EntryInv'
  <1> USE DEF RequesterAt, WorkerAt, Advance, workerVars, requesterVars, statusVars
  <1>0. TypeOK /\ NoWorkerYet BY DEF SlotInv
  <1>1. group_reg' = group_reg /\ status_group' = status_group /\ dangling' = dangling
    BY DEF Requester, Submit, Admit, SpuriousWakeup, Create, CreateFails,
           SetDeadline, Timeout, CancelHanging, Join
  <1>2. EndedHasVerdict' BY <1>1 DEF EntryInv, EndedHasVerdict
  <1>3. \A s \in Req \ {r} : OwnEntry(s)' /\ Verdict(s)' BY <1>0, <1>1, OwnEntryWritten
  <1>4. OwnEntry(r)' /\ Verdict(r)'
    <2>1. CASE wpc'[r] \in {"none", "start"} BY <2>1 DEF OwnEntry, Verdict, LivePC
    <2>2. CASE wpc'[r] \notin {"none", "start"}
      <3>1. /\ wpc'[r] = wpc[r] /\ grp'[r] = grp[r] /\ req'[r] = req[r]
            /\ result'[r] = result[r] /\ ret'[r] = ret[r]
        BY <1>0, <2>2 DEF Requester, Submit, Admit, SpuriousWakeup, Create, CreateFails,
               SetDeadline, Timeout, CancelHanging, Join, TypeOK, NoWorkerYet, QueuePC
      <3> QED BY <1>1, <3>1, EntryKept DEF EntryInv, OwnEntry
    <2> QED BY <2>1, <2>2
  <1> QED BY <1>2, <1>3, <1>4 DEF EntryInv

\* Every step of a worker but the test, with its push and its pop paired.
LEMMA EntryInvHandler ==
  ASSUME TypeOK, ArgsInv, EntryInv, Paired, NEW r \in Req, Handler(r)
  PROVE  EntryInv'
  <1> USE DEF LivePC, RequesterAt, WorkerAt, Advance, workerVars, requesterVars, statusVars
  <1>0. OwnEntry(r) /\ Verdict(r) /\ ArgsOf(r) BY DEF EntryInv, ArgsInv
  <1>1. CASE group_reg' = group_reg /\ status_group' = status_group /\ dangling' = dangling
    <2>1. EndedHasVerdict' BY <1>1 DEF EntryInv, EndedHasVerdict
    <2>2. \A s \in Req \ {r} : OwnEntry(s)' /\ Verdict(s)' BY <1>1, OwnEntryWritten
    <2>3. OwnEntry(r)' /\ Verdict(r)'
      <3>1. CASE Start(r) BY <3>1 DEF Start, TypeOK, OwnEntry, Verdict
      <3>2. CASE Lookup(r) BY <3>2 DEF Lookup, Paired, TypeOK, OwnEntry, Verdict
      <3>3. CASE AddGroup(r)
        BY <1>1, <3>3 DEF AddGroup, TypeOK
      <3>4. CASE AddGroupFails(r) BY <3>4 DEF AddGroupFails, Paired
      <3>5. CASE AddBuckets(r)
        BY <1>0, <1>1, <3>5 DEF AddBuckets, Paired, TypeOK, OwnEntry, Verdict
      <3>6. CASE Finalize(r)
        <4>1. /\ wpc[r] = "finalize" /\ wpc'[r] = "statusCleanup" /\ grp' = grp /\ req' = req
              /\ (ret'[r] = result[r] \/ (ret'[r] = ret[r] /\ ret[r] = "none"))
          BY <1>0, <3>6 DEF Finalize, TypeOK, ArgsOf, BeforeFree
        <4> QED BY <1>0, <1>1, <4>1 DEF OwnEntry, Verdict, Fits
      <3>7. CASE Cancel(r)
        BY <1>0, <1>1, <3>7 DEF Cancel, CancelPoint, TypeOK, OwnEntry, Verdict, Fits
      <3>8. CASE StatusCleanup(r) BY <3>8 DEF StatusCleanup, TypeOK, OwnEntry, Verdict
      <3>9. CASE SlotCleanup(r)
        <4>1. wpc'[r] \in {"done", "none"} BY <3>9 DEF SlotCleanup, TypeOK
        <4> QED BY <4>1 DEF OwnEntry, Verdict
      <3> QED BY <3>1, <3>2, <3>3, <3>4, <3>5, <3>6, <3>7, <3>8, <3>9 DEF Handler
    <2> QED BY <2>1, <2>2, <2>3 DEF EntryInv
  <1>2. CASE AddGroup(r)
    <2>1. PICK n \in Nodes \ group_reg :
             /\ group_reg' = group_reg \cup {n}
             /\ status_group' = [status_group EXCEPT ![n] = NewEntry(r)]
             /\ grp' = [grp EXCEPT ![r] = n] /\ wpc' = [wpc EXCEPT ![r] = "addBuckets"]
             /\ dangling' = dangling
      BY <1>2 DEF AddGroup
    <2>2. /\ \A m \in group_reg : status_group'[m] = status_group[m]
          /\ status_group'[n].thread = r
      BY <2>1 DEF TypeOK, NewEntry
    <2>3. EndedHasVerdict'
      BY <2>1, <2>2, ConstantsAssumption DEF EntryInv, EndedHasVerdict
    <2>4. \A s \in Req \ {r} : OwnEntry(s)' /\ Verdict(s)' BY <2>1, <2>2, OwnEntryWritten
    <2>5. OwnEntry(r)' /\ Verdict(r)' BY <2>1, <2>2 DEF TypeOK, OwnEntry, Verdict
    <2> QED BY <2>3, <2>4, <2>5 DEF EntryInv
  <1>3. CASE /\ AddBuckets(r) /\ SetAction(r, "running") /\ wpc'[r] = "run"
             /\ group_reg' = group_reg /\ dangling' = dangling
    <2>1. wpc[r] = "addBuckets" /\ grp' = grp /\ grp[r] \in Nodes
      BY <1>0, <1>3 DEF AddBuckets, OwnEntry
    <2>2. /\ \A m \in Nodes \ {grp[r]} : status_group'[m] = status_group[m]
          /\ status_group'[grp[r]].thread = status_group[grp[r]].thread
          /\ grp[r] \notin dangling => status_group[grp[r]].thread = r
      BY <1>0, <1>3, <2>1 DEF SetAction, WriteEntry, TypeOK, OwnEntry
    <2>3. EndedHasVerdict'
      BY <1>3, <2>1, <2>2, ConstantsAssumption DEF EntryInv, EndedHasVerdict, TypeOK
    <2>4. \A s \in Req \ {r} : OwnEntry(s)' /\ Verdict(s)'
      BY <1>3, <2>1, <2>2, OwnEntryWritten DEF TypeOK
    <2>5. OwnEntry(r)' /\ Verdict(r)' BY <1>0, <1>3, <2>1, <2>2 DEF OwnEntry, Verdict
    <2> QED BY <2>3, <2>4, <2>5 DEF EntryInv
  <1>4. CASE StatusCleanup(r)
    <2>1. /\ wpc[r] = "statusCleanup" /\ wpc'[r] = "slotCleanup" /\ group_reg' = group_reg
          /\ grp[r] \in Nodes /\ WriteEntry(grp[r], Ended(status_group[grp[r]]))
          /\ dangling' = IF Users(grp[r]) = {r} THEN dangling \ {grp[r]} ELSE dangling
      BY <1>4 DEF StatusCleanup, TypeOK
    <2>2. /\ \A m \in Nodes \ {grp[r]} : status_group'[m] = status_group[m]
          /\ grp[r] \notin dangling => status_group[grp[r]].thread = r
          /\ grp[r] \in group_reg => status_group'[grp[r]].action \in {"done", "stopped"}
      BY <1>0, <2>1 DEF Ended, WriteEntry, TypeOK, OwnEntry
    <2>3. EndedHasVerdict' BY <2>1, <2>2 DEF EntryInv, EndedHasVerdict, TypeOK
    <2>4. \A s \in Req \ {r} : OwnEntry(s)' /\ Verdict(s)'
      BY <2>1, <2>2, OwnEntryWritten DEF TypeOK
    <2>5. OwnEntry(r)' /\ Verdict(r)' BY <2>1 DEF OwnEntry, Verdict
    <2> QED BY <2>3, <2>4, <2>5 DEF EntryInv
  <1>5. \/ group_reg' = group_reg /\ status_group' = status_group /\ dangling' = dangling
        \/ AddGroup(r) \/ StatusCleanup(r)
        \/ /\ AddBuckets(r) /\ SetAction(r, "running") /\ wpc'[r] = "run"
           /\ group_reg' = group_reg /\ dangling' = dangling
    BY DEF Handler, Start, Lookup, AddGroupFails, AddBuckets, Finalize, Cancel, SlotCleanup,
           SetAction, TypeOK
  <1> QED BY <1>1, <1>2, <1>3, <1>4, <1>5

\* The test leaves its verdict in the entry when the loop ends.
LEMMA EntryInvTest ==
  ASSUME TypeOK, EntryInv, NEW r \in Req, Test(r)
  PROVE  EntryInv'
  <1> USE DEF LivePC, WorkerAt, Advance, requesterVars
  <1>0. OwnEntry(r) /\ Verdict(r) BY DEF EntryInv
  <1>1. /\ wpc[r] = "run" /\ grp' = grp /\ group_reg' = group_reg /\ req' = req
        /\ dangling' = dangling /\ grp[r] \in Nodes
        /\ grp[r] \notin dangling => grp[r] \in group_reg /\ status_group[grp[r]].thread = r
    BY <1>0 DEF Test, Iterate, RunAll, OwnEntry
  <1>2. \/ wpc' = wpc /\ status_group' = status_group
        \/ \E a \in Actions : /\ SetAction(r, a) /\ wpc' = [wpc EXCEPT ![r] = "finalize"]
                              /\ result'[r] = "TB_OK" => a = "done"
                              /\ result'[r] = "TB_ERROR" /\ req[r].stop_on_fail => a = "stopped"
    <2>1. CASE Iterate(r) BY <2>1 DEF Iterate, EndOfLoop, Actions, TypeOK
    <2>2. CASE RunAll(r) BY <2>2 DEF RunAll, Actions, TypeOK
    <2> QED BY <2>1, <2>2 DEF Test
  <1>3. CASE wpc' = wpc /\ status_group' = status_group
    <2>1. EndedHasVerdict' BY <1>1, <1>3 DEF EntryInv, EndedHasVerdict
    <2>2. \A s \in Req \ {r} : OwnEntry(s)' /\ Verdict(s)' BY <1>1, <1>3, OwnEntryWritten
    <2>3. OwnEntry(r)' /\ Verdict(r)' BY <1>0, <1>1, <1>3 DEF OwnEntry, Verdict
    <2> QED BY <2>1, <2>2, <2>3 DEF EntryInv
  <1>4. CASE ~(wpc' = wpc /\ status_group' = status_group)
    <2>0. PICK a \in Actions : /\ SetAction(r, a) /\ wpc' = [wpc EXCEPT ![r] = "finalize"]
                               /\ result'[r] = "TB_OK" => a = "done"
                               /\ result'[r] = "TB_ERROR" /\ req[r].stop_on_fail => a = "stopped"
      BY <1>2, <1>4
    <2>1. /\ \A m \in Nodes \ {grp[r]} : status_group'[m] = status_group[m]
          /\ status_group'[grp[r]].thread = status_group[grp[r]].thread
          /\ grp[r] \notin dangling => status_group'[grp[r]].action = a
      BY <1>1, <2>0 DEF SetAction, WriteEntry, TypeOK
    <2>2. EndedHasVerdict'
      BY <1>1, <2>1, ConstantsAssumption DEF EntryInv, EndedHasVerdict, TypeOK
    <2>3. \A s \in Req \ {r} : OwnEntry(s)' /\ Verdict(s)'
      BY <1>1, <2>1, OwnEntryWritten DEF TypeOK
    <2>4. wpc'[r] = "finalize" BY <2>0 DEF TypeOK
    <2>5. OwnEntry(r)' /\ Verdict(r)' BY <1>1, <2>0, <2>1, <2>4 DEF OwnEntry, Verdict, Fits
    <2> QED BY <2>2, <2>3, <2>5 DEF EntryInv
  <1> QED BY <1>3, <1>4

\* The utilities: a listing or a kill changes no entry; --clear leaves its mark
\* on every entry it takes from a worker.
LEMMA EntryInvUtility ==
  ASSUME TypeOK, EntryInv, Paired, Utility \/ KillMissing
  PROVE  EntryInv'
  <1> USE DEF workerVars, requesterVars
  <1>1. wpc' = wpc /\ grp' = grp /\ req' = req /\ result' = result /\ ret' = ret
    BY DEF Utility, Kill, PrintStatus, StatusPrinted, Clear, KillMissing
  <1>2. /\ group_reg' \subseteq group_reg /\ dangling \subseteq dangling'
        /\ \A n \in group_reg' : status_group'[n] = status_group[n]
        /\ \A n \in group_reg \ group_reg' : Users(n) # {} => n \in dangling'
    <2>1. CASE group_reg' = group_reg /\ status_group' = status_group /\ dangling' = dangling
      BY <2>1
    <2>2. ASSUME NEW S \in SUBSET group_reg, Clear(S)
          PROVE  /\ group_reg' \subseteq group_reg /\ dangling \subseteq dangling'
                 /\ \A n \in group_reg' : status_group'[n] = status_group[n]
                 /\ \A n \in group_reg \ group_reg' : Users(n) # {} => n \in dangling'
      BY <2>2 DEF Clear, TypeOK
    <2>3. \/ group_reg' = group_reg /\ status_group' = status_group /\ dangling' = dangling
          \/ \E S \in SUBSET group_reg : Clear(S)
      BY DEF Utility, Kill, PrintStatus, StatusPrinted, KillMissing, statusVars
    <2> QED BY <2>1, <2>2, <2>3
  <1>3. EndedHasVerdict' BY <1>2 DEF EntryInv, EndedHasVerdict
  <1>4. ASSUME NEW s \in Req PROVE OwnEntry(s)' /\ Verdict(s)'
    <2>1. OwnEntry(s) /\ Verdict(s) BY DEF EntryInv
    <2>2. ASSUME wpc[s] \in LivePC, grp[s] \notin dangling'
          PROVE  /\ grp[s] \notin dangling /\ grp[s] \in group_reg'
                 /\ status_group'[grp[s]] = status_group[grp[s]]
      <3>1. grp[s] \notin dangling /\ Users(grp[s]) # {} BY <1>2, <2>2 DEF Users
      <3>2. grp[s] \in group_reg BY <2>1, <2>2, <3>1 DEF OwnEntry
      <3> QED BY <1>2, <2>2, <3>1, <3>2
    <2> QED BY <1>1, <2>1, <2>2, EntryKept
  <1> QED BY <1>3, <1>4 DEF EntryInv

\* finalize_thread has its answer.
LEMMA NoFinalizeFails == ASSUME Paired, NEW r \in Req PROVE ~FinalizeFails(r)
  BY DEF Paired, FinalizeFails

\* No pop runs without its push.
LEMMA NoUnpairedPop == ASSUME TypeOK, EntryInv, NEW r \in Req PROVE ~UnpairedPop(r)
  BY ConstantsAssumption DEF UnpairedPop, WorkerAt, EntryInv, OwnEntry, LivePC, TypeOK

LEMMA EntryInvariant == Paired => (Spec => []EntryInv)
  <1> SUFFICES ASSUME Paired PROVE Spec => []EntryInv
    OBVIOUS
  <1>1. Init => EntryInv BY DEF Init, EntryInv, EndedHasVerdict, OwnEntry, Verdict, LivePC
  <1>2. ASSUME SlotInv, ArgsInv, EntryInv, [Next]_vars
        PROVE  EntryInv'
    <2>1. CASE UNCHANGED vars
      BY <1>2, <2>1 DEF vars, workerVars, requesterVars, statusVars,
                        EntryInv, EndedHasVerdict, OwnEntry, Verdict, Fits
    <2>2. CASE Next
      <3>1. TypeOK BY <1>2 DEF SlotInv
      <3> QED BY <1>2, <2>2, <3>1, EntryInvRequester, EntryInvHandler, EntryInvTest,
                 EntryInvUtility, NoUnpairedPop, NoFinalizeFails DEF Next
    <2> QED BY <1>2, <2>1, <2>2
  <1> QED BY <1>1, <1>2, ArgsInvariant, SlotInvariant, PTL DEF Spec

\* Whatever --clear frees, also under running tests: --kill and the timeout find
\* every running test whose own entry was not freed and does not lie in memory
\* freed under another test, when no cleanup is popped without its push.
THEOREM RunningTestsListed == Paired => (Spec => []RunningIsKillable)
  <1>1. EntryInv => RunningIsKillable BY DEF EntryInv, OwnEntry, LivePC, RunningIsKillable
  <1> QED BY <1>1, EntryInvariant, PTL

\* Whatever way a run ends, its entry, unless --clear freed it or another test's
\* freed entry was there, shows it done or stopped.
THEOREM VerdictsListed == Paired => (Spec => []EndedHasVerdict)
  <1>1. EntryInv => EndedHasVerdict BY DEF EntryInv
  <1> QED BY <1>1, EntryInvariant, PTL

\* Only its own status_group_cleanup takes a worker to the next cleanup.
LEMMA StatusCleanupOnly ==
  ASSUME TypeOK, EntryInv, Paired, Next, NEW r \in Req,
         wpc[r] = "statusCleanup", wpc'[r] = "slotCleanup"
  PROVE  StatusCleanup(r)
  <1> USE DEF WorkerAt, Advance, requesterVars, workerVars
  <1>1. ~(Utility \/ KillMissing)
    BY DEF Utility, Kill, PrintStatus, StatusPrinted, Clear, KillMissing
  <1>2. ~\E s \in Req : UnpairedPop(s) \/ FinalizeFails(s) BY NoUnpairedPop, NoFinalizeFails
  <1>3. PICK s \in Req : Requester(s) \/ Handler(s) \/ Test(s) BY <1>1, <1>2 DEF Next
  <1>4. s = r BY <1>3, OthersStay
  <1>5. ~Requester(r)
    BY DEF Requester, Submit, Admit, SpuriousWakeup, Create, CreateFails,
           SetDeadline, Timeout, CancelHanging, Join, TypeOK
  <1>6. ~Test(r) BY DEF Test, Iterate, RunAll
  <1> QED BY <1>3, <1>4, <1>5, <1>6
      DEF Handler, Start, Lookup, AddGroup, AddGroupFails, AddBuckets, Finalize,
          Cancel, SlotCleanup, TypeOK

\* The client's answer and the status listing agree on every run that passed and
\* on every failure that --stoponfail ended, if the run still has its entry.
THEOREM AnswersMatchListing == Paired => (Spec => AnswerMatchesStatus)
  <1> SUFFICES ASSUME Paired PROVE Spec => AnswerMatchesStatus
    OBVIOUS
  <1> DEFINE Agree ==
        \A r \in Req :
          wpc[r] = "statusCleanup" /\ wpc'[r] = "slotCleanup" /\ grp[r] \in group_reg \ dangling =>
             LET action == status_group'[grp[r]].action IN
             /\ Answer(r) = "TESTBOX_PASS" => action = "done"
             /\ ret[r] = "TB_ERROR" /\ req[r].stop_on_fail => action = "stopped"
  <1>1. ASSUME TypeOK, EntryInv, Next
        PROVE  Agree
    <2> SUFFICES ASSUME NEW r \in Req, wpc[r] = "statusCleanup", wpc'[r] = "slotCleanup",
                        grp[r] \in group_reg \ dangling
                 PROVE  LET action == status_group'[grp[r]].action IN
                        /\ Answer(r) = "TESTBOX_PASS" => action = "done"
                        /\ ret[r] = "TB_ERROR" /\ req[r].stop_on_fail => action = "stopped"
      OBVIOUS
    <2>1. StatusCleanup(r) BY <1>1, StatusCleanupOnly
    <2>2. Fits(r, ret[r]) BY <1>1 DEF EntryInv, Verdict
    <2>3. status_group'[grp[r]] = Ended(status_group[grp[r]])
      BY <1>1, <2>1 DEF StatusCleanup, WriteEntry, TypeOK
    <2> QED BY <2>2, <2>3 DEF Fits, Ended, Answer
  <1>2. SlotInv /\ EntryInv /\ [Next]_vars => [Agree]_vars
    BY <1>1 DEF SlotInv
  <1> QED BY <1>2, SlotInvariant, EntryInvariant, PTL DEF Spec, AnswerMatchesStatus

=============================================================================
