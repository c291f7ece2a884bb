# Formal models of TestBox (dib-sw)

TestBox is a daemon (`src/dibd`) that runs test cases, suites, groups and
executables for command line clients (`src/dibc`) over sockets. This directory
holds TLA+ models of the daemon, its concurrent core as well as what it makes of
commands and files, the TLC configurations that check them on small instances, and
TLAPS proofs of every safety property the runs check, for every number of clients,
requests and slots and for commands, files and lists of any length.

* [The system](#the-system): the inventory
* [The modules](#the-modules): what each models, and how it corresponds to the code
* [The runs](#the-runs): what each checks, with its bounds
* [Fairness](#fairness)
* [The proofs](#the-proofs)
* [Disagreements found](#disagreements-found)
* [What is not modelled](#what-is-not-modelled)
* [Plan](#plan)

To check a run: `tlc -workers 2 -config <run>.cfg <module>.tla`, with the
module named in `PROJECT.json`. To check the proofs: `tlapm <module>.tla` for
each module whose name ends in `Proofs`.

## The system

A client program sends one command per connection. The daemon's main thread
accepts connections and starts a detached *socket thread* for each. The socket
thread reads the command and calls `cmd_parse`, which either performs a utility
(`--status`, `--kill`, `--loadlib` ...) itself or calls `exec_test_thread`, which
starts a *worker thread* for the test and, if the client waits, joins it. The
threads share a few counters, lists and the databases of libtestbox, each with a
mutex of its own; there is no lock order and no lock spans two of them.

| Component | State | Operations | Uses | Hard because |
|---|---|---|---|---|
| **Test execution** `testboxd_threads.c` | `test_thread_cnt` with mutex and condition variable; per request the heap block `thread_args`, the worker and its result | `exec_test_thread`, `tb_thread_handler_case/_suite/_group/_executable`, two cleanup handlers, `tb_threads_kill_thread` | status database, client list, registries (libtestbox) | counting across failure paths; cancellation by `--kill` and by the timeout at any point; a `pthread_t` and a heap block used by two threads |
| **Connections** `testboxd_sockets.c` | `connection_count` with mutex and condition variable; open sockets | `tb_socket_handling` (accept loop), `tb_socket_th` | command parser, client list | counting across failure paths; wakeup of the one accepting thread |
| **Client** `dibc.c` | its socket | connect, send, read until the last message | daemon | end of file is not an end |
| **Library registry** `testboxd_libs.c` | `libs`, a linked list under a mutex; reference counts of the dynamic linker | `load_testcase_from_lib`, `unload_lib`, `list_libs` | linker, registries | the mutex covers the list, not the sequence list / linker / registry |
| **Group and configuration files** `testboxd_libs.c` | position in the file | `add_group_from_file`, `add_suite_from_file`, `add_tc_from_file`, `find_libs_from_conf_file`, `find_groups_from_conf_file` | registries | nested parsers that consume each other's lines |
| **Command parser** `testboxd_args.c` | `thread_args` under construction | `cmd_parse`, `startup_args` | everything above | meaning depends on the order of options |
| **Step mode** `testboxd_args.c` | cursor in a suite | `stepmode` | registries | ends of the suite, end of input |
| **Status listing** `testboxd_print.c` | status mutex while it prints | `tb_print_status` | status database, client's socket | a mutex held during output |
| **Utilities** `testboxd_utilities.c` | none | `time_str_to_sec`, `replace_string`, 2-d arrays | | boundary values |
| **Startup and signals** `testboxd_main.c` | signal counters | `main`, `__daemonize`, handlers | | signals interrupt reads |

What makes each correct:

* *Test execution.* No more than `TEST_THREAD_COUNT` workers; every slot that is
  taken is given back exactly once; requests queue only while the slots are in
  use and no wakeup is lost; `--kill` and the timeout reach the right thread and
  only that; every client that waits is answered, and with the verdict the
  status listing shows; memory is not used after it was freed.
* *Connections.* No more than the limit are served; accepting resumes when a
  place comes free; each client is answered before its connection is closed; a
  connection's thread is off the client list before its socket is closed. (The list
  also holds the worker threads of tests whose client waits, and a worker that was
  cancelled stays on it: see the disagreements.)
* *Library registry.* List and linker agree when no call is in progress;
  registered test cases are mapped (suites are not: they outlive their library); an
  unload that meets no other call does not end the daemon.
* *Files and commands.* A file or command that keeps to its grammar means what it
  says, whatever the order of options or lines; every other one is still read to
  its end, or ends the daemon at a line that no parser checks.
* *Step mode.* The case that is shown is the case that is run.
* *The whole.* Places for connections and slots for tests are held together, and
  the daemon still serves everybody.

## The modules

| Module | Models |
|---|---|
| `AdmissionGate` | abstract: clients arrive, enter when fewer than `Limit` are inside, leave |
| `TestThreads` | `testboxd_threads.c`, with `--kill`, `--status`, `--clear` as other threads use them |
| `Connections` | `testboxd_sockets.c` and the client's side of a connection |
| `Daemon` | the two composed: `Connections` with commands that go through an `AdmissionGate` of tests |
| `LibRegistry` | loading and unloading of libraries in `testboxd_libs.c` |
| `CmdParse` | `cmd_parse`: utilities, options, the request they give; the order of `main` |
| `StepMode`, `GroupFile`, `TimeStr` | parts of `CmdParse`: `stepmode`; the configuration and group files of `testboxd_libs.c` with `replace_string`; `time_str_to_sec` |
| `MCTestThreads`, `MCConnections`, `MCDaemon`, `MCLibRegistry`, `MCCmdParse` | values for TLC |
| `TestThreadsProofs`, `ConnectionsProofs`, `DaemonProofs`, `LibRegistryProofs` | theorems about those modules, with their proofs |
| `CmdParseProofs`, `CmdRequestProofs` | theorems about `CmdParse`: about the state of the parser, and about what a command means |
| `StepModeProofs`, `GroupFileProofs` | the lemmas about these parts that `CmdParseProofs` draws on |

`PROJECT.json` maps every definition to the lines it stands for.

### AdmissionGate

The promise common to both counters of the daemon: of all clients, those that
wait are `queued`, at most `Limit` are `holders`. `TestThreads` implements it
with `Limit = TEST_THREAD_COUNT`, a request being queued from its call of
`exec_test_thread` and a holder until its worker has run
`handler_thread_cleanup`. `Connections` implements it with `Limit = MaxConn + 1`:
the code tests `connection_count > 100`, so that 101 connections are served.
The refinement is checked by TLC and proved.

### TestThreads

One element of `Req` is a request context: a call of `exec_test_thread`
(program counter `rpc`) and the worker it starts (`wpc`). A context is used
again for the next request when both are finished, so a `pthread_t` is reused as
the C library reuses it.

| Code | Model |
|---|---|
| `exec_test_thread` up to the creation | `Submit`, `Admit`, `SpuriousWakeup`, `Create`, `CreateFails` |
| its wait for the worker | `SetDeadline`, `Timeout`, `CancelHanging`, `Join` |
| `tb_thread_handler_*` | `Start`, `Lookup`, `AddGroup`, `AddGroupFails`, `AddBuckets`, `Iterate` (case, executable) or `RunAll` (suite, group), `Finalize`, `FinalizeFails` |
| `pthread_cleanup_pop` and cancellation | `Cancel`, `StatusCleanup`, `UnpairedPop`, `SlotCleanup` |
| `tb_threads_kill_thread` | `Kill`, `KillMissing` |
| `tb_print_status`, `--clear` | `PrintStatus`, `StatusPrinted`, `Clear` |

The four handlers share their actions; where they differ (the executable handler
looks nothing up, the suite and group handlers leave the loop to libtestbox, the
group handler does not mark its run as running) the action branches on the kind
of the request. A step of the model is what one thread does between two
points where another can interfere: a critical section is one step, so is the
code between two accesses to shared state. The status mutex appears as a variable
because `tb_print_status` keeps it over many writes to its client; for all
other users it is held within one step, which waits while a listing is going on.

`SpuriousWakeup` and the reuse of slots by newcomers make the condition variable
as weak as POSIX allows. `pthread_cond_signal` wakes any one of the sleepers.
A jump to `wrapup_thread` past `pthread_cleanup_push` makes the matching pop
undefined; `UnpairedPop` lets it do nothing, clean up the entry of an earlier run
whose frame is still on the stack, or end the process.

`Nodes` bounds the entries of the status database. A request is only submitted
while there will be an entry for it (`NodeLeft`), so that the bound never makes a
worker wait; `--clear` makes room. Loops are bounded by the requests chosen.

`--clear` frees the entry of a test that runs like any other. The worker keeps its
pointer, and what it writes there is lost, or goes to the next entry in the same
memory. The history variable `dangling` holds the memory freed in this way while a
worker still uses it; the properties about the content of an entry except it and say so.
`clients` here are the workers' entries in the client list, the stale ones included.

### Connections

`Conn` are clients, each with at most one connection at a time. The kernel's queue
(`backlog`) is in order; `accept` takes its head. `Admit` is the critical section of the
accept loop. The thread of a connection goes through `Start`, `Read` or `ReadFails`,
`Parse`, `Answer`, `Release`, `Drain` (off the client list) and `Close`. `Parse` stands
for `cmd_parse` and may take any time, so that tests of any length are covered. A client
connects (`Connect`) and then writes its command (`Send`); the daemon's read waits for
that, without a limit. `clients` are the entries that these threads have in the client
list; the workers' entries in the same list are in `TestThreads`. A client that is
interrupted (`Interrupt`) leaves its connection to be served. A client whose connection
is closed before the last message ends with an error, or `spins` at end of file as the
read loop of `dibc.c` does (`Hangup`).

### Daemon

A thread of a connection keeps its place in `tb_socket_handling` while it waits for
a slot of `exec_test_thread`, and for the end of its test if the client asked for
that. `Daemon` extends `Connections` and replaces `Parse` by what `cmd_parse` does
to the test queue: `Submit` (the call of `exec_test_thread`), `Begin` (a slot is
taken; a detached test is answered here), `End` (a waited test is answered here) and
`Utility` (answered at once; `--kill` is one of them). The slots are an
`AdmissionGate`, which `TestThreads` implements. Each client connects once, so that
a test can have the name of its connection; its place may be taken by the next
client all the same. The thread of a test can always be created here; that it cannot
is a subject of `TestThreads`.

### LibRegistry

A call is `Load`, `Push`, `Symbol`, then `Register` or, without `lib_group`,
`Unpush`; or `Unload`, `UnloadSymbol`, `Delete`, `Unlink`, `Close`. The walks of
`list_libs` and `unload_lib` are sets of nodes: `Walk(stops)` is the least set that
has the head and every successor up to the nodes it stops at. The steps are
cut at the mutex: the list changes in `Push`, `Unpush`, `Unlink`, the linker's
count in `Load`, `Symbol`, `Unload`, `Close`, the registry in `Register` and
`Delete`. The registry is two variables, because `unload_lib` treats its parts
differently: `registered`, the libraries whose cases and groups are in it, which
`Delete` takes out, and `suites`, those whose suites are, which nothing takes out: they
keep pointers into a library that is no longer mapped. Names are different in different
libraries. Initially nothing is loaded; the libraries of the configuration file
are loaded at startup by the same function, one after the other.

Closing a library that is not open is taken as the error `dlclose` reports. A
load and an unload *of the same library* never overlap in this model: the load
uses its node and its handle outside the mutex, and what happens when the unload
has freed both is undefined. This, and what `Overlap` leaves out, is an assumption
about the clients, the operator `MayCall`; nothing in the code enforces it. `Overlap`
says which other calls may: `"same"`, clients
run the *same* utility on one library at the same time; `"bad"`, a library
without `lib_group` is loaded while other calls go on. The history variable `shared`
holds the calls that met another one on their library; it tells unloads that end the
daemon by themselves, of which there are none, from those that meet
(`UnlinkFromEmpty`, `ReadUnmapped`).

### CmdParse

One socket thread executes one command after another. A token is a record of its
text, its number as `strtol` and `atoi` give it, and its characters as
`time_str_to_sec` reads them.

| Code | Model |
|---|---|
| `main`: libraries, group files, then sockets | `pc = "startup"`, `FileRead`, `Serve` |
| `cmd_parse`, utilities looked for in all of argv | `Receive`, `FirstUtility`, `Informs`, `MayFail`, `Looks`, `SetVerboseLevel`, `Step`, `GroupFromFile`, `UtilityEnds` |
| all that `cmd_parse` does without waiting for anyone | `Parser` |
| `creat_default_thread_args` and the option loop, one turn per step | `DefaultArgs`, `Option`, `Name`, `Argument`, `AllParsed` |
| the call of `exec_test_thread` | `Exec` |
| `stepmode`, one key per step | `StepMode`: `Ask`, `Press`, `PressRun`, `RunNext`, `PressEnd`, ... |
| `find_libs_from_conf_file`, `find_groups_from_conf_file` | `ConfLine`, `ConfEnd`, `LoadLib`, `ConfFile` |
| `create_path_from_env`, `replace_string`, one turn of its loop per step | `ReadPath`, `Replace` |
| `add_group_from_file`, `add_suite_from_file`, `add_tc_from_file`, one line per step | `GroupLine`, `SuiteLine`, `GroupEnds`, `DescrLine`, `TestLine`, `NoTest`, `ExecLine`, `AddExec`, `NoSlash`, `SuiteEnds`, `Skip`, `EndInside`, `Unclosed` |
| `time_str_to_sec` | `TimeStrToSec` |

The three nested parsers of a group file share one `FILE`: `level` says which of
them reads the next line. Lines are their kinds; a name is the number of its line.
Memory that is read without having been written is a choice: an option without a
value reads past argv (`Unwritten`), the buffer of `time_str_to_sec` starts with
what the stack held (`Stack`). A null pointer leads to `crashed`, where the daemon has
ended: an unclosed bracket, an empty `TC()`, an `EXEC` of a path without a slash (which
may also go on, see `NoSlash`), or at startup neither `--config` nor `TESTBOXDIR`
(`FileInit`). The words of `--xml_file` are compared by their first letters, so that
`OpenWords` and `CloseWords` are sets.

## The runs

Expected to hold:

| Run | Instance | Checks |
|---|---|---|
| `TestThreads_queue` | 3 requests of a group that wait, 3 entries, 1 slot; failed lookups and allocations, kills of missing entries | `SlotAccounting`, `NoLostWakeup`, `QueuedOnlyWhenFull`, `EntryOfLiveThread` |
| `TestThreads_handlers` | 2 requests, 2 slots: a case that is waited for, stops on failure and is timed, a suite, a group and a looped executable that are detached; failed thread creation | `TypeOK`, `EntryOfLiveThread`, `RunningIsKillable`, `CancelledArgsIntact`, `EndedHasVerdict`, `AnswerMatchesStatus` |
| `TestThreads_live` | 2 requests, 1 slot, fair threads | `QueueDrains`, `TimeoutEndsRegistered`, `GateRefined` |
| `Connections_serve` | 4 clients, limit 0 (1 place), fair threads | `TypeOK`, `SleepsOnlyWhenServing`, `ClientListIsCurrent`, `NoClientSpins`, `GateRefined`, `AnyClientAnswered` |
| `Connections_faults` | 3 clients, limit 1, all faults | `CountCoversServed`, `SleepsOnlyWhenCountFull`, `GateRefined` |
| `Daemon` | 3 clients, limit 1 (2 places), 1 slot, fair threads | `DaemonTypeOK`, `WaitedTestHasConnection`, `ServesUnlessClogged` |
| `LibRegistry_calls` | 3 callers, 3 libraries, one of them bad, 3 nodes; calls of one kind may meet on a library, the bad one is loaded alone | `TypeOK`, `ListIsSound`, `ListedIsLoaded`, `CasesAreMapped`, `LoneUnloadFinds` |
| `Command` | all commands of two tokens of 14, of three of 11, of four of 7, every utility, times of up to four fields, suites of 0, 1 and 3 cases, group files of a group of two suites of any shape and a second group | `CommandTypeOK`, `VerbosityMatchesWait`, `LastOptionCounts`, `ForwardsTheRest`, `TimesAreMeant`, `FileMeansGroups`, `PathFullyExpanded`, `StepsAsHelpSays`, `ParsingEnds` |

Why the bounds are enough. The interesting cases of the gate need a sleeper, a newcomer
that overtakes it and a worker that leaves: three requests and one slot. (A second slot
adds only the case that two leave at once, which is what the proofs are for: the safety
properties of the gate hold for any number.) The status database and the arguments
relate a worker to its requester and to one other request that may reuse its `pthread_t`
or its entry: two requests. `--clear` of finished and of running entries is in all three
runs. With 4 clients and one place one connection is served, one has been accepted and
waits, and two are in the backlog; `Connections_faults` has two places and one more
client than that. Clients do not differ from each other, so that `AnyClientAnswered`
follows one of them. In `Daemon` one test runs, one waits for the slot, both places are
taken and a third client waits for a place. The library list needs a head, a node in the
middle and a tail. Options interact in pairs that set the same field: two of them with
their values are four tokens, and those are combined in every order; the daemon's
default level counts too, and commands follow each other, so that `--verbose_level` has
set every level before every command. A suite in a group file can be whole, empty,
unnamed, interrupted by another group or cut off, and is followed by any other. A cursor
in step mode has an inside and two ends: three cases, one case, none. Symmetry is used
in the safety runs only: TLC's symmetry reduction is not sound for liveness.

Deadlock is checked except where the daemon really stops: after a crash or the
exit of the accept loop (`TestThreads_queue`, `TestThreads_handlers`,
`Connections_faults`, `LibRegistry_calls`, `Command`), and in `Daemon`, where each
client connects once.

Each property has a mutant: a variant of a definition, written next to it in the
module, that changes the code's behaviour as a plausible bug would (a missing
signal, an off-by-one in the limit, a cleanup run twice, a lost close, a value that is
not skipped ...) and that TLC finds by that property. `PROJECT.json` lists them.

Expected to fail (see [Disagreements found](#disagreements-found)):
`TestThreads_slotleak` (1 slot, thread creation may fail), `TestThreads_hang`
(one request, fair threads), `Connections_countleak` (reads may fail) and
`LibRegistry_badload` (one good library and one without `lib_group`, two callers
on different libraries).

## Fairness

`TestThreads!ThreadFairness`: every thread of the daemon that can take its next step
again and again takes it, because the threads are scheduled preemptively. This is strong
fairness, for each requesting thread (`OwnStep`) and each worker outside the test it
runs (`HandlerStep`): some of their steps need the status mutex, which listings take and
release in between, and a mutex without that property could starve a worker behind an
endless series of listings. A listing ends (`StatusPrinted`): this assumes that its
client reads. Nothing is assumed of faults, of time (`Timeout` has no fairness: it may
be late for ever), of kills, nor of clients.

`Admit` is one step, so fairness of it means that a thread woken by a
signal, or just arrived, gets the mutex of the counter. It is not assumed that a
particular sleeper is ever signalled, nor that it finds a slot free when it is:
under endless arrivals one request may sleep for ever, and `QueueDrains` therefore
speaks of the time after the last request.

Nothing is assumed of a test while it runs: two hypotheses are named, and each is the
premise of the property that needs it. `TestsEnd` (every test program returns) is that
of `QueueDrains`. `TestsYield` is that of `TimeoutEndsRegistered`, which needs no test
to return: a test that is to be cancelled reaches a cancellation point. Cancellation
is deferred in the code, so that a test that only computes is ended by no timeout and no
`--kill`. The property also excepts a test whose entry is gone when the daemon
looks for it: by `--clear` between the timeout and the lookup, or overwritten by
the end of a test whose own entry was cleared.

`Connections!FairSpec` assumes weak fairness of the daemon's threads, that each
command ends (`CommandsEnd`) and that a client that has connected writes its command or
goes (`ClientsWrite`): `dibc` does nothing in between. The daemon has no time limit for
either.

`Daemon!DaemonFairness` replaces `CommandsEnd` by what the test queue gives: threads
take the steps of `cmd_parse` when they continuously can, and a test that is waited for
or cancelled ends. `TimeoutEndsRegistered` says so of a test that the database lists and
that reaches cancellation points, and no other test is assumed here: what a waited test
that hangs for ever does is disagreement 2. A detached test has no time limit in the
code and none here.

`CmdParse!FairSpec`: the thread is scheduled while it parses (weak fairness of
`Parser`). Nothing is assumed of a test that a command starts, nor of the user of step
mode, whose `e` may never come: `ParsingEnds` follows a command until it is
answered or has started one of the two.

## The proofs

Every safety invariant, action property and refinement that a passing run checks is
also a theorem. No bound of the runs remains: the constants are any that satisfy the
assumption of their module. Where a fault breaks a property the theorem excludes that
fault by name; the runs of the disagreements show that it must.

### TestThreads

For every `Req` (finite), `Nodes`, `MaxTests` (positive) and `Requests`
(`ConstantsAssumption`; the null value is no request or node), and every subset of the
faults unless stated:

* `TypeCorrect`, `SlotsAccounted`: `[]TypeOK` and `[]SlotAccounting`. The type
  invariant contains `test_thread_cnt \in 0..MaxTests` and is not inductive
  alone: that the counter does not fall below 0 in `SlotCleanup` follows from the
  worker there being a holder and all holders being counted. The inductive
  invariant is `SlotInv`: the types, that a request before its creation has
  no worker, and the accounting. Each action either leaves the holders and the
  counter alone, or adds (`Admit`) or removes (`SlotCleanup`) one of both, or
  removes holders only (`CreateFails`). `SlotAccounting` is an inequality because
  of that last action: it is the slot leak.
* `WakeupsNotLost`: `[]NoLostWakeup`, on top of `SlotInv`. `SlotCleanup` frees a
  slot and moves one sleeper to the woken, or there is none to move; a woken
  thread takes a slot, or finds the count full.
* `RefinesGate`: `TestThreads` implements `AdmissionGate`. `Submit` is `Arrive`,
  `Admit` is `Enter` or a stutter, `SlotCleanup` and `CreateFails` are `Leave`,
  everything else stutters. `Enter` needs a place: the code tests the counter,
  and by `SlotAccounting` the holders are no more than that.
* `KillsOnlyItsOwn`: `[]EntryOfLiveThread`. The entries with a thread are those
  between `AddGroup` and `StatusCleanup`; a node is taken only while it is not
  listed, and a removed entry is emptied.
* `ArgsReadAfterCancel`: `[]CancelledArgsIntact`, from the invariant `ArgsInv`
  that ties the state of the heap block and the return value to the program
  counter. The point is that the last place where a cancellation is acted on, the
  log call in `finalize_thread`, lies before `free`.
* `QueueMeansFull`: `[]QueuedOnlyWhenFull` when every `pthread_create` succeeds
  (`"create" \notin Faults`). Then `CreateFails` cannot happen and the inequality
  of the accounting has a converse, `NoSlotLost`; with `NoLostWakeup` the slots
  of a queue are all held. A failed creation is disagreement 1.
* `RunningTestsListed`, `VerdictsListed`, `AnswersMatchListing`:
  `[]RunningIsKillable`, `[]EndedHasVerdict` and the action property
  `AnswerMatchesStatus`, from one invariant, `EntryInv`: a worker between
  `AddGroup` and `StatusCleanup` owns a listed entry, whose `action` fits the result
  of the handler before `finalize_thread` and the value to be returned after it, unless
  `--clear` freed its memory under a worker (`dangling`). Most
  steps write the locals of their own thread only (`OthersStay`) and no entry but
  its own (`OwnEntryWritten`), so that the invariant needs to be shown of one worker.
  The hypothesis is `Paired`: no test vanishes between the request and the lookup,
  and no allocation fails. These are the jumps past `pthread_cleanup_push`, after
  which the worker runs the pops of cleanup handlers it has not pushed
  (`UnpairedPop`). `--clear` of running entries is not excluded: what the properties
  except is memory that it freed and that a worker still writes to.

### Connections

For every `Conn` (finite), `MaxConn`, and every subset of the faults unless stated:

* `TypeCorrect`, `ServedAreCounted`, `AcceptorWakes`: `[]TypeOK`,
  `[]CountCoversServed`, `[]SleepsOnlyWhenCountFull` from the inductive invariant
  `PlaceInv`, which adds that a connection is in one place at a time
  (backlog, accepting thread, thread of its own). What a step does to the places
  and the count (`PlacesMove`) is worked out once, in `PlaceStep`.
* `RefinesGate`: `Connections` implements `AdmissionGate` with `MaxConn + 1`
  places.
* `ClientListCurrent`: `[]ClientListIsCurrent` when `accept` succeeds, of the entries
  that the connections' own threads have in the list. The invariant `OpenInv` says that
  a connection in the hands of the accepting thread or of a thread of its own is open,
  and that these entries name such connections only. A failed `accept` gives a thread to
  a socket that does not exist, and it is entered in the list.
* `SleepMeansServing`: `[]SleepsOnlyWhenServing` when reads and accepts succeed.
  `NoCountLost` is the converse of `CountCoversServed`; only the early return after
  a failed read breaks it (disagreement 3), which the socket of a failed `accept`
  always takes.
* `ClientsDoNotSpin`: `[]NoClientSpins` when reads and thread creations
  succeed, whatever `accept` does. `AnsweredInv`: no client waits behind a thread
  that is about to close its connection.

### Daemon

For any number of clients, places and slots:

* `DaemonStepsAreConnections` is a lemma that holds by the way `Daemon` is written: each
  step is one of `Connections` or leaves its variables alone. It carries `PlaceInv`
  (`DaemonPlaces`) over to the daemon, and the properties of connections that need a
  hypothesis: `DaemonListCurrent`, `DaemonSleepsServing`, `DaemonAnswers`.
* `DaemonTypeCorrect`, `WaitedTestsKeepConnections`: `[]DaemonTypeOK` and
  `[]WaitedTestHasConnection`. The invariant `TestInv` adds that a test that waits
  for a slot, or is waited for, has the thread of its connection in `cmd_parse`,
  that such a thread has an open and registered connection, and that who never
  connected has no test. That a new thread never takes the name of one in
  `cmd_parse` is `PlaceInv`'s share.

### LibRegistry

For any number of libraries, calls and nodes, as long as a load and an unload of one
library do not overlap (`MayCall`) and no library without `lib_group` is loaded while
other calls go on (`"bad" \notin Overlap`); with such a load `ListedIsLoaded` fails,
which is disagreement 4, and `ListIsSound` with it: the head that is restored may have
been freed meanwhile. Calls of the same kind may meet on one library.

* `RegistryTyped`, `WalksAreSafe`, `ListShowsLoaded`, `CaseCodeMapped`,
  `LoneUnloadIsSafe`: `[]TypeOK`, `[]ListIsSound`, `[]ListedIsLoaded`,
  `[]CasesAreMapped`, `[]LoneUnloadFinds`. `CasesAreMapped` speaks of test cases, not
  of the suites that hold copies of them.

All follow from the inductive invariant `LibInv`. Its core is `Counted`: the linker has
a library open once for each node that stands for an opening (`Openings`) and once for
each unload in progress. Two unloads that meet on a library with one node make this an
inequality until both have ended, and `ListedIsLoaded` needs the equality back when all
is quiet. The other parts say what each program counter holds: the list is a chain
(`Chain`), calls on one library are of one kind (`Apart`), a load's node is its own
(`Held`), a load of a bad library is alone (`Solo`), libraries whose cases are
registered have a node and no unload behind the deletion (`Entered`), a lone unload has
a node to find (`Found`). That the list is a least set gives what a push, an unlink at
the head and one in the middle make of it, without induction over its length.

### CmdParse and its parts

For commands, files, paths and suites of any length, and whatever memory holds behind
them:

* `CommandTyped`: `[]CommandTypeOK`. `ArgvInv` relates the index, the program counter
  and the request; `TimeStrToSec` is bounded through the four fields, `99` each, so that
  its sum stays within an `int`.
* `VerbosityAgrees`: `[]VerbosityMatchesWait`. Each option keeps the two fields in
  step or touches neither.
* `OptionsCount`, `TimesCount`, `RestIsForwarded`: `[]LastOptionCounts`,
  `[]TimesAreMeant`, `[]ForwardsTheRest`. The properties describe the request from the
  whole command: the options are the words that are no values, and a word is a
  value when the word before takes one and is no value itself. The invariant
  `RequestMeans` says the same of the part of the command in front of the index. A turn
  of the loop then has to be right about one word: `Effect` and `ArgsEffect` say what it
  does, the lemmas `LoopsBehind`, `OutputBehind`, `OthersBehind`, `TimeBehind` and
  `ArgsBehind` that this extends the description by that word. `TimeIsMeant` is
  `time_str_to_sec` on the form dd:hh:mm:ss.
* `StepsKeepHelp`: the action property `StepsAsHelpSays`, from `StepInv`: while a
  key is awaited the cursor, the case looked up and the case asked about are one,
  and while `r` runs the rest, the cases from the one asked about up to the cursor
  have been run.
* `FilesAreMeant`: `[]FileMeansGroups`. `MeansInv` says of the lines read so far what the
  property says of all: which parser reads and which group and suite are open follow
  from the last line that is no comment, and what has been added is what the lines read
  say. The format errors do not occur in a file that keeps to the grammar
  (`NoFormatError`).
* `PathsExpanded`: `[]PathFullyExpanded`. `ReplacesInv`: the path so far is the
  path of the line with a prefix of its variables replaced (`ReplacedSoFar`). The
  hypothesis, `FileAssumption`, is that the value of the variable does not name the
  variable itself, without which the loop does not end.

Recursive functions of the reference definitions need care, as the provers have no
induction over data. What `ValuesIn` says of a word is shown through a witness: a word is
a value exactly when the run of value-taking words in front of it is odd (`OddRun`).
`FlattenSeq` in `PathFullyExpanded` is compared with the prefixes of the
concatenation, and a first difference refuted (`FlattenedByPrefix`, by the least
element of a set of numbers).

### Only model-checked

The five liveness properties: `QueueDrains`, `TimeoutEndsRegistered`,
`AnyClientAnswered`, `ServesUnlessClogged` and `ParsingEnds`. They rest on fairness and on
`ENABLED`, which are out of the proof system's reach; the safety they lean on
(no lost wakeup, no lost count) is proved.

## Disagreements found

Each is the counterexample of a run that checks what the repository says.

1. `TestThreads_slotleak`: a failed `pthread_create` keeps its slot
   (`testboxd_threads.c:111`). Requests queue although fewer tests run, where
   line 105 logs "More than 100 tests in parallel. Waiting in queue!".
2. `TestThreads_hang`: the timeout cancels only a worker that the database lists
   and then joins without a limit in every case (`testboxd_threads.c:129-134`),
   although the help text calls `--maxtmo` the maximum for the test.
3. `Connections_countleak`: a failed read keeps its count
   (`testboxd_sockets.c:70-73`); accepting stops although nobody is served.
4. `LibRegistry_badload`: a library without `lib_group` is taken off the list by
   restoring an old head (`testboxd_libs.c:286`): what was loaded meanwhile is
   no longer listed.

The models contain these too, and no run is spent on them:

* `goto wrapup_thread` past `pthread_cleanup_push` (`testboxd_threads.c:218` and
  224, likewise in the other handlers): the pops at 285-286 are then not in pairs
  (action `UnpairedPop`).
* A cancelled worker is never removed from the client list, where it goes on naming
  a socket that is closed and whose number is used again: `testboxd_threads.c:86` is not
  in a cleanup handler (`TestThreads!Cancel` leaves `clients` alone).
* `create_default_thread_return` returns a null pointer when it cannot allocate, and
  `finalize_thread` writes through it (`testboxd_threads.c:60-82`, `FinalizeFails`).
* The group handler reads its result from `tb_status_add_n_testcase_buckets`: when a later
  suite gets no bucket, no test has run and the client is answered TESTBOX_PASS
  (`testboxd_threads.c:382-393`, `AddBuckets`).
* Cancellation is deferred, so that neither the timeout nor `--kill` ends a test that
  only computes: the join at `testboxd_threads.c:134` then never returns
  (`TestsYield`).
* `--kill` with an index that no entry has dereferences a null pointer
  (`testboxd_threads.c:166-168`, `KillMissing`).
* The count is given back before the socket is closed
  (`testboxd_sockets.c:104-111`), so that the limit does not bound the open
  sockets (`Release` before `Close`).
* A client that connects and never writes holds its place for ever
  (`testboxd_sockets.c:69`, `Read`).
* `unload_lib` reads the head of the list before it knows that there is one
  (`testboxd_libs.c:447`): two clients that unload the last library at the same
  time end the daemon (`UnlinkFromEmpty`, in `LibRegistry_calls`).
* An unload deletes the cases and groups of a library, and not its suites
  (`testboxd_libs.c:419-439`), where the help says "Unload library and its suites and
  test cases" (`testboxd_print.c:89`): the suites stay in the registry with
  functions of a library that is unmapped (`Delete` leaves `suites` alone).
* When detached tests that never end hold all slots and every place is taken by a
  connection that waits for one, no connection is left to accept the `--kill` that
  would help: `ServesUnlessClogged` has to except this case.
* `--maxtmo` skips itself and not its number (`testboxd_args.c:446`): the number is
  then forwarded to the test as an argument, or taken for a name (`MaxTmo`).
* A name that comes behind arguments is written over the first of them, and the place
  behind the last is left empty (`testboxd_args.c:483-486`, action `Name`).
* Utilities are looked for in all of argv: one among the arguments of a test is
  performed in place of the test (`FirstUtility`).
* `time_str_to_sec` reads a field that is neither one nor two characters wide as the
  one before it, and always counts the first field as days: "12:30" is 12 days and 12
  seconds (`Copy`, `TimeStrToSec`). `TimesAreMeant` speaks of the complete
  form dd:hh:mm:ss that the usage gives.
* `SUITE()` is the suite before it once more, a missing END_SUITE or END_GROUP
  is a format error that the parser outside ignores, and the result is TB_OK
  (`SuiteLine`, `EndInside`, `FileEnd`).
* An empty `TC()` and an `EXEC` whose path has no slash use a null pointer
  (`testboxd_libs.c:596-603`, 639-640; `NoTest`, `NoSlash`); so does the daemon at
  startup when neither `--config` nor `TESTBOXDIR` names a directory (81-83, `FileInit`).
* `replace_string` does not end when the value of the variable names the variable
  itself; `FileAssumption` excludes such values.
* Step mode reads the name of the first case of an empty suite through a null pointer
  (`Ask`), and when the daemon is detached, `getchar` returns EOF from /dev/null for
  ever: the thread of that client never ends (`EndOfInput`).

## What is not modelled

* libtestbox (status database, client list, registries, test runner, socket
  wrappers) is not in the repository; the models contain what the daemon's use
  of it shows.
* The texts of answers, logs, listings and help, and the start and end messages of the
  XML result file.
* A load and an unload of the same library that overlap, and a library that is
  unloaded while its tests run: the code then uses freed or unmapped memory, every
  outcome is possible, and no line of the repository says what should happen.
* Failed allocations outside `TestThreads`: of `thread_args` in `cmd_parse` and of the
  arrays for argv (both used all the same), of a list node and of `dlopen`, which end a
  load before it has changed anything.
* The bounds of argv: the number of arguments in a message (`TB_MAX_ARGS`) and in
  `thread_args` are not tested by the code, and commands here keep within them.
* Names: those in a group file and those of different libraries are different. A
  group or suite that exists already is warned of in the code and added all the same.
* `startup_args` (the socket family, the port and the configuration directory, set
  once before anything else runs), `__daemonize` and the signal set-up: sequences of
  system calls with no state that other parts read, except that signals interrupt
  reads, which is a fault of `Connections`. `log_rx_signals` only logs.
* The 2-d arrays of `testboxd_utilities.c` (an allocation and its release) and
  `strip_newline`.
* The splitting of a message into argv, and messages that arrive in parts.

## Plan

The modules are written, and what the runs check is proved but for liveness. What is left:

* `Daemon`: the composition with `TestThreads` in the place of the gate of tests.
  `TestThreadsProofs!RefinesGate` gives each of its steps as one of the gate; what
  remains is to join the request of `TestThreads` to the client of `Connections`
  it is made for.
