---------------------------- MODULE TestThreads ----------------------------
(***************************************************************************)
(* The execution of tests by the daemon: dibd/testboxd_threads.c.          *)
(*                                                                         *)
(* A client's request is served by a socket thread that calls              *)
(* exec_test_thread.  That function waits for one of TEST_THREAD_COUNT     *)
(* slots, starts a worker thread on one of the four tb_thread_handler_*    *)
(* functions and, when the client waits for the answer, joins the worker   *)
(* with a timeout.  Workers enter their run in the status database, whose  *)
(* entries let --kill and the timeout find the thread to cancel, and leave *)
(* it in cleanup handlers that run on return and on cancellation.          *)
(*                                                                         *)
(* One element of Req stands for one request context: the call of          *)
(* exec_test_thread (program counter rpc) and the worker it creates        *)
(* (program counter wpc), whose pthread_t is written r as well.  A context *)
(* serves a new request once both are finished, so a pthread_t is reused.  *)
(***************************************************************************)
EXTENDS Integers, FiniteSets

CONSTANTS
    Req,       \* request contexts: how many requests may be in progress
    Nodes,     \* memory for the entries of the status database
    MaxTests,  \* TEST_THREAD_COUNT
    Requests,  \* the parsed requests the clients send
    Faults,    \* what may go wrong around the code, see FaultKinds
    None       \* (pthread_t)-1 or a null pointer

Kinds == {"case", "suite", "group", "executable"}

\* The fields of thread_args_t that steer the handlers: --wait, --loop,
\* --stoponfail and whether --exe_time gave a time to stop at.
RequestShape == [kind: Kinds, wait: BOOLEAN, loops: Nat \ {0},
                 stop_on_fail: BOOLEAN, timed: BOOLEAN]

\* "vanish": the test leaves the registry between the lookup of the command
\* parser and the lookup of the handler; "alloc": the status database or
\* finalize_thread cannot allocate; "create": pthread_create fails; "missingIndex":
\* --kill names no entry.
FaultKinds == {"vanish", "alloc", "create", "missingIndex"}

ASSUME ConstantsAssumption ==
    /\ IsFiniteSet(Req)
    /\ None \notin Req \cup Nodes
    /\ MaxTests \in Nat \ {0}
    /\ Requests # {} /\ Requests \subseteq RequestShape
    /\ Faults \subseteq FaultKinds

VARIABLES
    up,               \* the daemon process is alive
    test_thread_cnt,  \* slots taken
    rpc,              \* where each call of exec_test_thread stands
    req,              \* thread_args: the parsed request
    args,             \* thread_args: its heap block
    wpc,              \* where each worker thread stands
    result,           \* worker: the local result, TB_OK or TB_ERROR
    executions,       \* worker: finished iterations of the loop
    grp,              \* worker: the local pointer status_group
    cancelled,        \* worker: a pthread_cancel is pending
    ret,              \* worker: what pthread_join yields
    clients,          \* threads registered with a client socket
    group_reg,        \* status database: the entries it lists
    status_group,     \* status database: the content of each entry
    dangling,         \* history: memory --clear freed under a worker, while in use
    status_mutex      \* status database: a --status listing holds the mutex

requesterVars == <<rpc, req>>
workerVars    == <<wpc, result, executions, grp, cancelled, ret>>
statusVars    == <<group_reg, status_group, dangling, status_mutex>>
vars == <<up, test_thread_cnt, requesterVars, args, workerVars, clients, statusVars>>

----------------------------------------------------------------------------
(* Program counters.                                                       *)

RequesterPC == {"idle", "admit", "asleep", "woken", "create", "deadline",
                "join", "timedOut", "joinForever"}
WorkerPC    == {"none", "start", "lookup", "addGroup", "addBuckets", "run",
                "finalize", "statusCleanup", "slotCleanup", "done"}

\* A worker that has pushed the cleanup that gives its slot back, or is about to.
Working == WorkerPC \ {"none", "done"}

\* From tb_status_add_group_node to its cleanup a worker writes through the
\* pointer status_group.
LivePC == {"addBuckets", "run", "finalize", "statusCleanup"}
Users(n) == {r \in Req : wpc[r] \in LivePC /\ grp[r] = n}

Actions == {"idle", "running", "done", "stopped"}
FreeNode == [thread |-> None, action |-> "idle"]

RequesterAt(r, pc) == rpc[r] = pc
WorkerAt(r, pc)    == wpc[r] = pc
Advance(r, pc)     == wpc' = [wpc EXCEPT ![r] = pc]

\* The requests that wait for a slot; those that sleep, and those signalled.
Queued == {r \in Req : rpc[r] \in {"admit", "asleep", "woken"}}
Asleep == {r \in Req : rpc[r] = "asleep"}
Woken  == {r \in Req : rpc[r] = "woken"}

\* The requests that own a slot: taken and not yet given back by the worker.
Holders == {r \in Req : rpc[r] = "create" \/ wpc[r] \in Working}

\* Entering the register is possible: bounds the requests between two --clear.
NodeLeft == Cardinality(group_reg)
                + Cardinality({r \in Req : wpc[r] \in {"start", "lookup", "addGroup"}
                                             \/ rpc[r] \in {"admit", "asleep", "woken", "create"}})
            < Cardinality(Nodes)

\* What req holds while the context is free.
NoRequest == CHOOSE q \in Requests : TRUE

----------------------------------------------------------------------------
Init ==
    /\ up = TRUE
    /\ test_thread_cnt = 0
    /\ rpc  = [r \in Req |-> "idle"]
    /\ req  = [r \in Req |-> NoRequest]
    /\ args = [r \in Req |-> "none"]
    /\ wpc  = [r \in Req |-> "none"]
    /\ result = [r \in Req |-> "TB_ERROR"]
    /\ executions = [r \in Req |-> 0]
    /\ grp  = [r \in Req |-> None]
    /\ cancelled = [r \in Req |-> FALSE]
    /\ ret  = [r \in Req |-> "none"]
    /\ clients = {}
    /\ group_reg = {}
    /\ status_group = [n \in Nodes |-> FreeNode]
    /\ dangling = {}
    /\ status_mutex = FALSE

----------------------------------------------------------------------------
(* The socket thread: exec_test_thread.                                    *)

\* cmd_parse has filled a fresh thread_args and calls exec_test_thread.
Submit(r, q) ==
    /\ RequesterAt(r, "idle") /\ WorkerAt(r, "none")
    /\ NodeLeft
    /\ rpc'  = [rpc EXCEPT ![r] = "admit"]
    /\ req'  = [req EXCEPT ![r] = q]
    /\ args' = [args EXCEPT ![r] = "live"]
    /\ UNCHANGED <<test_thread_cnt, workerVars, clients, statusVars>>

SlotFreeOffByOne == test_thread_cnt <= MaxTests
SlotFreeTooEarly == test_thread_cnt < MaxTests - 1
SlotFree         == test_thread_cnt <= MaxTests - 1

\* With the mutex held: take a slot, or sleep on the condition variable.  A
\* thread that was woken tests the count again.
Admit(r) ==
    /\ rpc[r] \in {"admit", "woken"}
    /\ \/ /\ SlotFree
          /\ test_thread_cnt' = test_thread_cnt + 1
          /\ rpc' = [rpc EXCEPT ![r] = "create"]
       \/ /\ ~SlotFree
          /\ rpc' = [rpc EXCEPT ![r] = "asleep"]
          /\ UNCHANGED test_thread_cnt
    /\ UNCHANGED <<req, args, workerVars, clients, statusVars>>

\* pthread_cond_wait may return without a signal.
SpuriousWakeup(r) ==
    /\ RequesterAt(r, "asleep")
    /\ rpc' = [rpc EXCEPT ![r] = "woken"]
    /\ UNCHANGED <<test_thread_cnt, req, args, workerVars, clients, statusVars>>

\* pthread_create succeeds.  A worker nobody waits for is detached at once and
\* the client is answered TESTBOX_OK.
Create(r) ==
    /\ RequesterAt(r, "create")
    /\ Advance(r, "start")
    /\ rpc' = [rpc EXCEPT ![r] = IF req[r].wait THEN "deadline" ELSE "idle"]
    /\ UNCHANGED <<test_thread_cnt, req, args, result, executions, grp, cancelled,
                   ret, clients, statusVars>>

\* pthread_create fails: the arguments are freed, the client is answered
\* TESTBOX_ERROR and the slot stays taken.
CreateFails(r) ==
    /\ "create" \in Faults
    /\ RequesterAt(r, "create")
    /\ rpc'  = [rpc EXCEPT ![r] = "idle"]
    /\ req'  = [req EXCEPT ![r] = NoRequest]
    /\ args' = [args EXCEPT ![r] = "none"]
    /\ UNCHANGED <<test_thread_cnt, workerVars, clients, statusVars>>

\* The deadline is computed from thread_args->max_timeout; the worker may have
\* freed the block, and then the deadline is arbitrary (at least 480 seconds).
SetDeadline(r) ==
    /\ RequesterAt(r, "deadline")
    /\ rpc' = [rpc EXCEPT ![r] = "join"]
    /\ UNCHANGED <<test_thread_cnt, req, args, workerVars, clients, statusVars>>

\* pthread_timedjoin_np gives up before the worker has ended.
Timeout(r) ==
    /\ RequesterAt(r, "join")
    /\ ~WorkerAt(r, "done")
    /\ rpc' = [rpc EXCEPT ![r] = "timedOut"]
    /\ UNCHANGED <<test_thread_cnt, req, args, workerVars, clients, statusVars>>

Registered(r) == \E n \in group_reg : status_group[n].thread = r

CancelsOthers(r) ==
    /\ RequesterAt(r, "timedOut")
    /\ ~status_mutex
    /\ cancelled' = [cancelled EXCEPT ![r] = @ \/ ~Registered(r)]
    /\ rpc' = [rpc EXCEPT ![r] = "joinForever"]
    /\ UNCHANGED <<test_thread_cnt, req, args, wpc, result, executions, grp,
                   ret, clients, statusVars>>

\* Under the status mutex: cancel the worker if the database has an entry for
\* its thread.  Either way the next call is the join without a timeout.
CancelHanging(r) ==
    /\ RequesterAt(r, "timedOut")
    /\ ~status_mutex
    /\ cancelled' = [cancelled EXCEPT ![r] = @ \/ Registered(r)]
    /\ rpc' = [rpc EXCEPT ![r] = "joinForever"]
    /\ UNCHANGED <<test_thread_cnt, req, args, wpc, result, executions, grp,
                   ret, clients, statusVars>>

\* The answer to a client that waits.
Answer(r) == IF ret[r] = "TB_OK" THEN "TESTBOX_PASS" ELSE "TESTBOX_FAIL"

\* The worker has ended and the client gets Answer(r).  The worker's locals are
\* gone, a block of arguments it did not free is lost.
Join(r) ==
    /\ rpc[r] \in {"join", "joinForever"}
    /\ WorkerAt(r, "done")
    /\ rpc'  = [rpc EXCEPT ![r] = "idle"]
    /\ req'  = [req EXCEPT ![r] = NoRequest]
    /\ args' = [args EXCEPT ![r] = "none"]
    /\ ret'  = [ret EXCEPT ![r] = "none"]
    /\ Advance(r, "none")
    /\ UNCHANGED <<test_thread_cnt, result, executions, grp, cancelled,
                   clients, statusVars>>

Requester(r) ==
    \/ \E q \in Requests : Submit(r, q)
    \/ Admit(r)
    \/ SpuriousWakeup(r)
    \/ Create(r)
    \/ CreateFails(r)
    \/ SetDeadline(r)
    \/ Timeout(r)
    \/ CancelHanging(r)
    \/ Join(r)

----------------------------------------------------------------------------
(* The worker thread: the four tb_thread_handler_* functions.              *)

StartUnregistered(r) ==
    /\ WorkerAt(r, "start")
    /\ clients' = IF req[r].wait THEN clients \cup {r} ELSE clients
    /\ Advance(r, IF req[r].kind = "executable" THEN "run" ELSE "lookup")
    /\ UNCHANGED <<test_thread_cnt, requesterVars, args, result, executions, grp,
                   cancelled, ret, statusVars>>

\* handler_thread_cleanup is pushed; a test whose client waits prints to it.
Start(r) ==
    /\ WorkerAt(r, "start")
    /\ clients' = IF req[r].wait THEN clients \cup {r} ELSE clients
    /\ Advance(r, IF req[r].kind = "executable" THEN "addGroup" ELSE "lookup")
    /\ UNCHANGED <<test_thread_cnt, requesterVars, args, result, executions, grp,
                   cancelled, ret, statusVars>>

\* Case, suite and group are looked up by name.  A miss is a jump to
\* wrapup_thread, past the push of status_group_cleanup.
Lookup(r) ==
    /\ WorkerAt(r, "lookup")
    /\ \/ Advance(r, "addGroup")
       \/ "vanish" \in Faults /\ Advance(r, "finalize")
    /\ UNCHANGED <<test_thread_cnt, requesterVars, args, result, executions, grp,
                   cancelled, ret, clients, statusVars>>

NewEntry(r) == [thread |-> r, action |-> "idle"]

\* tb_status_add_group_node lists a new entry for this thread, then
\* status_group_cleanup is pushed.  The memory may be that of an entry --clear
\* freed, to which its worker may still write.
AddGroup(r) ==
    /\ WorkerAt(r, "addGroup")
    /\ ~status_mutex
    /\ \E n \in Nodes \ group_reg :
          /\ group_reg' = group_reg \cup {n}
          /\ status_group' = [status_group EXCEPT ![n] = NewEntry(r)]
          /\ grp' = [grp EXCEPT ![r] = n]
    /\ Advance(r, "addBuckets")
    /\ UNCHANGED <<test_thread_cnt, requesterVars, args, result, executions,
                   cancelled, ret, clients, dangling, status_mutex>>

\* No entry: again a jump past the push.
AddGroupFails(r) ==
    /\ "alloc" \in Faults
    /\ WorkerAt(r, "addGroup")
    /\ ~status_mutex
    /\ Advance(r, "finalize")
    /\ UNCHANGED <<test_thread_cnt, requesterVars, args, result, executions, grp,
                   cancelled, ret, clients, statusVars>>

\* A worker writes to its entry.  Memory that --clear freed is no entry: nobody
\* reads what is written there before tb_status_add_group_node fills it again.
WriteEntry(n, e) ==
    status_group' = IF n \in group_reg THEN [status_group EXCEPT ![n] = e] ELSE status_group

SetAction(r, a) == WriteEntry(grp[r], [status_group[grp[r]] EXCEPT !.action = a])

\* Buckets for the suites and cases of the run; the group handler leaves the
\* action to tb_exec_run_tests_in_group.  A bucket fails: the group handler may
\* already have TB_OK in result, from the buckets of its first suites.
AddBuckets(r) ==
    /\ WorkerAt(r, "addBuckets")
    /\ \/ /\ IF req[r].kind = "group" THEN UNCHANGED status_group ELSE SetAction(r, "running")
          /\ Advance(r, "run")
          /\ result' = [result EXCEPT ![r] = "TB_OK"]
       \/ /\ "alloc" \in Faults
          /\ Advance(r, "finalize")
          /\ \E res \in {result[r], IF req[r].kind = "group" THEN "TB_OK" ELSE result[r]} :
                result' = [result EXCEPT ![r] = res]
          /\ UNCHANGED status_group
    /\ UNCHANGED <<test_thread_cnt, requesterVars, args, executions, grp, cancelled,
                   ret, clients, group_reg, dangling, status_mutex>>

\* How a loop ends: --stoponfail is looked at before --exe_time.
TimeBeforeFailure(stop, expired) == IF stop /\ ~expired THEN "stopped" ELSE "done"
EndOfLoop(stop, expired) == IF stop THEN "stopped" ELSE "done"

\* One iteration of the loop of the case and executable handlers.  An error is
\* sticky; it stops the run under --stoponfail; --exe_time ends it as done.
Iterate(r) ==
    /\ WorkerAt(r, "run")
    /\ req[r].kind \in {"case", "executable"}
    /\ \E outcome \in {"TB_OK", "TB_ERROR"}, expired \in {FALSE, req[r].timed} :
          LET res  == IF outcome = "TB_OK" THEN result[r] ELSE "TB_ERROR"
              stop == res = "TB_ERROR" /\ req[r].stop_on_fail
              last == executions[r] + 1 = req[r].loops
          IN /\ result' = [result EXCEPT ![r] = res]
             /\ IF stop \/ expired \/ last
                THEN /\ SetAction(r, EndOfLoop(stop, expired))
                     /\ Advance(r, "finalize")
                     /\ UNCHANGED executions
                ELSE /\ executions' = [executions EXCEPT ![r] = @ + 1]
                     /\ UNCHANGED <<status_group, wpc>>
    /\ UNCHANGED <<test_thread_cnt, requesterVars, args, grp, cancelled, ret,
                   clients, group_reg, dangling, status_mutex>>

\* tb_exec_run_tests_in_suite and _in_group run all loops; they stop a failing
\* run under --stoponfail.  The suite handler marks a run that was not stopped
\* as done, the group runner does so itself.
RunAll(r) ==
    /\ WorkerAt(r, "run")
    /\ req[r].kind \in {"suite", "group"}
    /\ \E res \in {"TB_OK", "TB_ERROR"} :
          /\ result' = [result EXCEPT ![r] = res]
          /\ SetAction(r, IF res = "TB_ERROR" /\ req[r].stop_on_fail THEN "stopped" ELSE "done")
    /\ Advance(r, "finalize")
    /\ UNCHANGED <<test_thread_cnt, requesterVars, args, executions, grp, cancelled,
                   ret, clients, group_reg, dangling, status_mutex>>

\* finalize_thread: build the answer if the client waits, free the arguments.
Finalize(r) ==
    /\ WorkerAt(r, "finalize")
    /\ IF req[r].wait
       THEN /\ ret' = [ret EXCEPT ![r] = result[r]]
            /\ clients' = clients \ {r}
       ELSE UNCHANGED <<ret, clients>>
    /\ args' = [args EXCEPT ![r] = "freed"]
    /\ Advance(r, "statusCleanup")
    /\ UNCHANGED <<test_thread_cnt, requesterVars, result, executions, grp, cancelled,
                   statusVars>>

\* finalize_thread cannot allocate the answer and writes to it all the same.
FinalizeFails(r) ==
    /\ "alloc" \in Faults
    /\ WorkerAt(r, "finalize") /\ req[r].wait
    /\ up' = FALSE
    /\ UNCHANGED <<test_thread_cnt, requesterVars, args, workerVars, clients, statusVars>>

\* Where a pending cancellation may be acted on, pthread_cancel being deferred:
\* where the test, the log and result file writes around it, and the log write
\* of finalize_thread reach a cancellation point.  A test need not have one.
CancelPointAfterFree(r) == wpc[r] \in LivePC
CancelPoint(r) ==
    \/ wpc[r] \in {"addBuckets", "run"}
    \/ WorkerAt(r, "finalize") /\ req[r].wait

CancelReleasesSlot(r) ==
    /\ cancelled[r] /\ CancelPoint(r)
    /\ test_thread_cnt' = test_thread_cnt - 1
    /\ ret' = [ret EXCEPT ![r] = "PTHREAD_CANCELED"]
    /\ Advance(r, "statusCleanup")
    /\ UNCHANGED <<requesterVars, args, result, executions, grp, cancelled, clients, statusVars>>

\* The thread unwinds: only the cleanup handlers run.
Cancel(r) ==
    /\ cancelled[r] /\ CancelPoint(r)
    /\ ret' = [ret EXCEPT ![r] = "PTHREAD_CANCELED"]
    /\ Advance(r, "statusCleanup")
    /\ UNCHANGED <<test_thread_cnt, requesterVars, args, result, executions, grp,
                   cancelled, clients, statusVars>>

\* status_group_cleanup on an entry.
KeepsAction(e) == [e EXCEPT !.thread = None]
KeepsThread(e) == [e EXCEPT !.action = IF @ \in {"done", "stopped"} THEN @ ELSE "stopped"]
Ended(e) == [thread |-> None,
             action |-> IF e.action \in {"done", "stopped"} THEN e.action ELSE "stopped"]

\* pthread_cleanup_pop of status_group_cleanup, its push executed.
StatusCleanup(r) ==
    /\ WorkerAt(r, "statusCleanup") /\ grp[r] # None
    /\ ~status_mutex
    /\ WriteEntry(grp[r], Ended(status_group[grp[r]]))
    /\ dangling' = IF Users(grp[r]) = {r} THEN dangling \ {grp[r]} ELSE dangling
    /\ Advance(r, "slotCleanup")
    /\ UNCHANGED <<test_thread_cnt, requesterVars, args, result, executions, grp,
                   cancelled, ret, clients, group_reg, status_mutex>>

\* The same pop after a jump past its push: the handler and its argument were
\* never set.  They take the process down, or they are what an earlier run left
\* on the stack: the entry of that run, or none, is cleaned up.
UnpairedPop(r) ==
    /\ WorkerAt(r, "statusCleanup") /\ grp[r] = None
    /\ ~status_mutex
    /\ Advance(r, "slotCleanup")
    /\ \/ UNCHANGED <<up, status_group>>
       \/ /\ \E n \in Nodes : WriteEntry(n, Ended(status_group[n]))
          /\ UNCHANGED up
       \/ up' = FALSE /\ UNCHANGED status_group
    /\ UNCHANGED <<test_thread_cnt, requesterVars, args, result, executions, grp,
                   cancelled, ret, clients, group_reg, dangling, status_mutex>>

\* pthread_cond_signal wakes one of the threads that sleep, if any.
NoSignal == UNCHANGED rpc
Signal ==
    IF Asleep = {} THEN UNCHANGED rpc
    ELSE \E s \in Asleep : rpc' = [rpc EXCEPT ![s] = "woken"]

\* handler_thread_cleanup, then the thread ends; a detached one leaves nothing.
SlotCleanup(r) ==
    /\ WorkerAt(r, "slotCleanup")
    /\ test_thread_cnt' = test_thread_cnt - 1
    /\ Signal
    /\ result' = [result EXCEPT ![r] = "TB_ERROR"]
    /\ executions' = [executions EXCEPT ![r] = 0]
    /\ grp' = [grp EXCEPT ![r] = None]
    /\ cancelled' = [cancelled EXCEPT ![r] = FALSE]
    /\ IF req[r].wait
       THEN /\ Advance(r, "done")
            /\ UNCHANGED <<req, ret, args>>
       ELSE /\ Advance(r, "none")
            /\ req'  = [req EXCEPT ![r] = NoRequest]
            /\ ret'  = [ret EXCEPT ![r] = "none"]
            /\ args' = [args EXCEPT ![r] = "none"]
    /\ UNCHANGED <<clients, statusVars>>

\* Every step of a worker but the test itself.
Handler(r) ==
    \/ Start(r)
    \/ Lookup(r)
    \/ AddGroup(r)
    \/ AddGroupFails(r)
    \/ AddBuckets(r)
    \/ Finalize(r)
    \/ Cancel(r)
    \/ StatusCleanup(r)
    \/ SlotCleanup(r)
Test(r) == Iterate(r) \/ RunAll(r)

----------------------------------------------------------------------------
(* Utilities that other socket threads run: --kill, --status, --clear.     *)

\* tb_threads_kill_thread on the index of an entry.
Kill(n) ==
    /\ n \in group_reg
    /\ ~status_mutex
    /\ status_group[n].thread # None
    /\ cancelled' = [cancelled EXCEPT ![status_group[n].thread] = TRUE]
    /\ UNCHANGED <<test_thread_cnt, requesterVars, args, wpc, result, executions, grp,
                   ret, clients, statusVars>>

\* An index without an entry: the null result of the lookup is dereferenced.
KillMissing ==
    /\ "missingIndex" \in Faults
    /\ ~status_mutex
    /\ up' = FALSE
    /\ UNCHANGED <<test_thread_cnt, requesterVars, args, workerVars, clients, statusVars>>

\* tb_print_status keeps the mutex while it writes to its client.
PrintStatus ==
    /\ ~status_mutex
    /\ status_mutex' = TRUE
    /\ UNCHANGED <<test_thread_cnt, requesterVars, args, workerVars, clients,
                   group_reg, status_group, dangling>>
StatusPrinted ==
    /\ status_mutex
    /\ status_mutex' = FALSE
    /\ UNCHANGED <<test_thread_cnt, requesterVars, args, workerVars, clients,
                   group_reg, status_group, dangling>>

\* --clear frees one entry or all of them, running tests' as well: their
\* workers keep a pointer to freed memory.
Clear(S) ==
    /\ S # {}
    /\ ~status_mutex
    /\ group_reg' = group_reg \ S
    /\ status_group' = [n \in Nodes |-> IF n \in S THEN FreeNode ELSE status_group[n]]
    /\ dangling' = dangling \cup {n \in S : Users(n) # {}}
    /\ UNCHANGED <<test_thread_cnt, requesterVars, args, workerVars, clients, status_mutex>>

Utility ==
    \/ \E n \in Nodes : Kill(n)
    \/ PrintStatus
    \/ StatusPrinted
    \/ \E n \in group_reg : Clear({n})
    \/ Clear(group_reg)

----------------------------------------------------------------------------
Next ==
    /\ up
    /\ \/ /\ up' = up
          /\ \/ \E r \in Req : Requester(r) \/ Handler(r) \/ Test(r)
             \/ Utility
       \/ \E r \in Req : UnpairedPop(r) \/ FinalizeFails(r)
       \/ KillMissing

Spec == Init /\ [][Next]_vars

(***************************************************************************)
(* Fairness.  The daemon's threads are scheduled: a thread whose next step *)
(* is possible again and again takes it.  This is strong fairness because  *)
(* some steps need the status mutex, which listings take in between.       *)
(* Nothing is assumed of the test itself: that it ends (TestsEnd) or acts  *)
(* on a cancellation (TestsYield) are hypotheses of the properties that    *)
(* need them.  Nothing is assumed of time, nor of what clients ask for.    *)
(***************************************************************************)
Steady(A) == up /\ A /\ UNCHANGED up

\* The steps of exec_test_thread that wait for nothing but the processor or a mutex.
OwnStep(r) == Admit(r) \/ Create(r) \/ SetDeadline(r) \/ CancelHanging(r) \/ Join(r)

\* The same of a worker; while the test runs the handler has no step of its own.
HandlerStep(r) == ~WorkerAt(r, "run") /\ Handler(r)

ThreadFairness ==
    /\ \A r \in Req : SF_vars(Steady(OwnStep(r))) /\ SF_vars(Steady(HandlerStep(r)))
    /\ WF_vars(Steady(StatusPrinted))

\* Every test program returns.
TestsEnd == \A r \in Req : WF_vars(Steady(Test(r)))

\* A test that is to be cancelled reaches a cancellation point; one that only
\* computes does not.
TestsYield == \A r \in Req : WF_vars(Steady(Cancel(r)))

FairSpec == Spec /\ ThreadFairness

----------------------------------------------------------------------------
(* Properties.                                                             *)

\* The values the variables range over; the counter stays within the limit.
TypeOK ==
    /\ up \in BOOLEAN
    /\ test_thread_cnt \in 0..MaxTests
    /\ rpc  \in [Req -> RequesterPC]
    /\ req  \in [Req -> Requests]
    /\ args \in [Req -> {"none", "live", "freed"}]
    /\ wpc  \in [Req -> WorkerPC]
    /\ result \in [Req -> {"TB_OK", "TB_ERROR"}]
    /\ executions \in [Req -> Nat]
    /\ grp  \in [Req -> Nodes \cup {None}]
    /\ cancelled \in [Req -> BOOLEAN]
    /\ ret  \in [Req -> {"none", "TB_OK", "TB_ERROR", "PTHREAD_CANCELED"}]
    /\ clients \subseteq Req
    /\ group_reg \subseteq Nodes
    /\ status_group \in [Nodes -> [thread : Req \cup {None}, action : Actions]]
    /\ dangling \subseteq Nodes
    /\ status_mutex \in BOOLEAN

\* Every started worker is counted: test_thread_cnt never falls below the
\* number of requests that own a slot, whichever way workers end (return,
\* --kill, timeout, a jump past a cleanup push).
SlotAccounting == Cardinality(Holders) <= test_thread_cnt

\* No wakeup is lost: while a request sleeps on the condition variable, every
\* free slot has a woken thread on its way to it.  handler_thread_cleanup
\* signals once per slot and a newcomer may overtake the thread it woke.
NoLostWakeup == Asleep # {} => MaxTests <= test_thread_cnt + Cardinality(Woken)

\* Requests queue only because that many tests run ("More than 100 tests in
\* parallel"), not because slots went missing.
QueuedOnlyWhenFull ==
    Asleep # {} => MaxTests <= Cardinality(Holders) + Cardinality(Woken)

\* The thread of an entry is alive and the entry is its own, so that --kill and
\* the timeout never cancel a thread that has ended or another request's.
EntryOfLiveThread ==
    \A n \in Nodes : LET t == status_group[n].thread IN
        t # None => wpc[t] \in LivePC /\ grp[t] = n

\* A running test can be killed: the database lists its thread, unless --clear
\* freed its entry while it ran, or its entry lies in memory that --clear freed
\* under another test.
RunningIsKillable ==
    \A r \in Req : wpc[r] = "run" /\ grp[r] \notin dangling =>
        /\ grp[r] \in group_reg
        /\ status_group[grp[r]].thread = r

\* exec_test_thread reads thread_args after the join when the worker was
\* cancelled: they still exist then.  After a normal return they are freed.
CancelledArgsIntact ==
    \A r \in Req : wpc[r] = "done" =>
        args[r] = (IF ret[r] = "PTHREAD_CANCELED" THEN "live" ELSE "freed")

\* An entry without a thread that the database lists shows how the run ended,
\* for every way it can end; a test whose entry --clear freed may still write to
\* the entry that has its memory now.
EndedHasVerdict ==
    \A n \in group_reg \ dangling :
        status_group[n].thread = None => status_group[n].action \in {"done", "stopped"}

\* The client's answer and the status listing agree: a run reported as passed
\* is listed as done, a failure under --stoponfail as stopped.
AnswerMatchesStatus ==
    [][\A r \in Req :
          wpc[r] = "statusCleanup" /\ wpc'[r] = "slotCleanup" /\ grp[r] \in group_reg \ dangling =>
             LET action == status_group'[grp[r]].action IN
             /\ Answer(r) = "TESTBOX_PASS" => action = "done"
             /\ ret[r] = "TB_ERROR" /\ req[r].stop_on_fail => action = "stopped"]_vars

\* What AdmissionGate promises of tests, with the slot owners as its holders.
Gate == INSTANCE AdmissionGate WITH
            Client <- Req, Limit <- MaxTests, queued <- Queued, holders <- Holders
GateRefined == Gate!GateSpec

\* If tests end, and once no more requests arrive, every request is answered:
\* the queue drains, also through kills and timeouts.
NoMoreRequests == <>[][\A r \in Req, q \in Requests : ~Submit(r, q)]_vars
QueueDrains ==
    TestsEnd /\ NoMoreRequests => \A r \in Req : rpc[r] # "idle" ~> rpc[r] = "idle"

\* A hanging test that the database lists when its time is up is cancelled and
\* its client answered, provided that the test reaches a cancellation point, and
\* unless the entry is gone before the daemon looks for it: by --clear, or by the
\* end of another test that still wrote there.
TimeoutEndsRegistered ==
    TestsYield =>
        \A r \in Req :
            rpc[r] = "timedOut" /\ Registered(r)
              ~> \/ rpc[r] = "idle"
                 \/ rpc[r] = "timedOut" /\ wpc[r] \in LivePC /\ ~Registered(r)

\* The same for every test whose time is up ("Max timeout for the test").
TimeoutEndsTest == \A r \in Req : rpc[r] = "timedOut" ~> rpc[r] = "idle"

=============================================================================
