------------------------------ MODULE CmdParse ------------------------------
(***************************************************************************)
(* What a command means: cmd_parse of dibd/testboxd_args.c.                *)
(*                                                                         *)
(* A socket thread has split the message into argv and calls cmd_parse.    *)
(* If a utility is named anywhere in argv it is performed.  Otherwise the  *)
(* tokens are parsed, in order, as options, the name of what to run, and   *)
(* arguments for it, and exec_test_thread is called (module TestThreads).  *)
(* The daemon reads its configuration files first (module GroupFile), and  *)
(* step mode is module StepMode.                                           *)
(*                                                                         *)
(* One socket thread is modelled, that executes one command after another. *)
(* A token is a record of its text, its number as strtol and atoi give it, *)
(* and its characters as time_str_to_sec reads them.  The allocation of    *)
(* the request succeeds, and a command has no more tokens than the arrays  *)
(* it is split into and copied to have places (the code tests neither).    *)
(***************************************************************************)
EXTENDS StepMode, GroupFile, TimeStr

CONSTANTS
    Commands,    \* the sequences of tokens behind the name of the client program
    Unwritten,   \* tokens that memory may hold where argv was never written
    Stack,       \* what time_str_to_sec may find in its buffer
    Names,       \* names of groups, suites, cases and executables, with their kinds
    SuiteSizes,  \* how many cases the suites have
    OpenWords,   \* the tokens that begin with "open"
    CloseWords,  \* the tokens that begin with "close"
    VerboseLevel \* the default verbose level that libtestbox starts with

\* Every number is put in an int.
MaxInt == 2147483647  \* 0x7fffffff
Token == [text : STRING, number : (-MaxInt - 1)..MaxInt, chars : Seq(Chars)]

\* A string that is empty: nothing to run is named yet.
NoText == ""

TB_VERB_OFF     == 0
TB_VERB_RESP    == 1
TB_VERB_OFF_LOG == 3
Levels == TB_VERB_OFF..TB_VERB_OFF_LOG
Silent == {TB_VERB_OFF, TB_VERB_OFF_LOG}

ASSUME CommandAssumption ==
    /\ Commands \subseteq Seq(Token)
    /\ Unwritten # {} /\ Unwritten \subseteq Token
    /\ Stack # {} /\ \A s \in Stack : Len(s) <= 2 /\ Range(s) \subseteq Chars
    /\ \A n \in DOMAIN Names : Names[n] \in {"group", "suite", "case", "executable"}
    /\ SuiteSizes # {} /\ SuiteSizes \subseteq Nat
    /\ "open" \in OpenWords /\ "close" \in CloseWords /\ OpenWords \cap CloseWords = {}
    /\ VerboseLevel \in Levels

VARIABLES
    pc,             \* where the socket thread stands
    command,        \* argv from index 1
    at,             \* the index that is parsed
    thread_args,    \* the request under construction
    answer,         \* the status the client gets
    verbose_level   \* the default of the daemon

commandVars == <<pc, command, at, thread_args, answer>>
vars == <<commandVars, verbose_level, stepVars, fileVars>>

PC == {"startup", "idle", "utility", "options", "exec", "step", "file"}

\* What argv holds behind an index.
After(j) == IF j < Len(command) THEN {command[j + 1]} ELSE Unwritten

IsName(t) == t.text \in DOMAIN Names
IsSuite(t) == IsName(t) /\ Names[t.text] = "suite"

\* creat_default_thread_args
DefaultArgs(default) ==
    [verbose |-> default, wait |-> default \notin Silent, loops |-> 1, stop_on_fail |-> FALSE,
     extended |-> FALSE, xml |-> FALSE, max_timeout |-> 0, execution_time |-> 0,
     execution_dly_time |-> 0, node_name |-> NoText, args |-> <<>>]

NoArgs == DefaultArgs(TB_VERB_OFF)

Init ==
    /\ StepInit /\ FileInit
    /\ pc = "startup"
    /\ command = <<>> /\ at = 0
    /\ thread_args = NoArgs
    /\ answer = "none"
    /\ verbose_level = VerboseLevel

\* cmd_parse returns.
Reply(a) ==
    /\ pc' = "idle" /\ answer' = a
    /\ command' = <<>> /\ at' = 0 /\ thread_args' = NoArgs
OK    == Reply("TESTBOX_OK")
Error == Reply("TESTBOX_ERROR")

\* main serves clients once the configuration files are read.
Serve ==
    /\ pc = "startup" /\ level = "none"
    /\ pc' = "idle"
    /\ UNCHANGED <<command, at, thread_args, answer, verbose_level, stepVars, fileVars>>

Utilities == {"--clear", "--help", "--descr", "--kill", "--status", "--list", "--examples",
              "--step", "--group_from_file", "--loadlib", "--unloadlib", "--listlib", "--find",
              "--log_level", "--log_read", "--log_clear", "--verbose_level", "--xml_file"}

\* The first utility, wherever it stands: in front of the options, behind them, or
\* among the arguments of a test.
FirstUtility(cmd) == SelectInSeq(cmd, LAMBDA t : t.text \in Utilities)

\* tb_socket_th calls cmd_parse.  An empty command prints the help, or is an error
\* when nothing at all was read, not even the name of the client program.
Receive(cmd) ==
    /\ command' = cmd
    /\ answer' = "none"
    /\ \/ /\ cmd = <<>> \/ FirstUtility(cmd) # 0
          /\ pc' = "utility" /\ at' = FirstUtility(cmd)
          /\ UNCHANGED thread_args
       \/ /\ FirstUtility(cmd) = 0
          /\ pc' = "options" /\ at' = 1
          /\ thread_args' = DefaultArgs(verbose_level)
    /\ UNCHANGED <<verbose_level, stepVars, fileVars>>

----------------------------------------------------------------------------
(* Utilities.                                                              *)

UtilityIs(u) == pc = "utility" /\ at > 0 /\ command[at].text \in u

\* These answer TESTBOX_OK, --kill and --clear also when they did nothing.
Informs ==
    /\ \/ UtilityIs({"--clear", "--help", "--kill", "--status", "--list", "--examples",
                     "--listlib", "--log_level", "--log_clear"})
       \/ pc = "utility" /\ at = 0
    /\ OK
    /\ UNCHANGED <<verbose_level, stepVars, fileVars>>

\* Their success depends on files and libraries.
MayFail ==
    /\ UtilityIs({"--log_read", "--loadlib", "--unloadlib"})
    /\ OK \/ Error
    /\ UNCHANGED <<verbose_level, stepVars, fileVars>>

\* A file may fail to close; of its word only the first letters are compared.
Looks ==
    /\ \/ /\ UtilityIs({"--descr"})
          /\ \E t \in After(at) : IF IsName(t) /\ Names[t.text] \in {"case", "suite"} THEN OK ELSE Error
       \/ /\ UtilityIs({"--find"})
          /\ IF Len(command) >= 2 THEN OK ELSE Error
       \/ /\ UtilityIs({"--xml_file"})
          /\ \E t \in After(at) :
                \/ t.text \in OpenWords \cup CloseWords /\ OK
                \/ t.text \notin OpenWords /\ Error
    /\ UNCHANGED <<verbose_level, stepVars, fileVars>>

SetVerboseLevel ==
    /\ UtilityIs({"--verbose_level"})
    /\ \/ /\ Len(command) = 2
          /\ \E t \in After(at) :
                \/ t.number \in Levels /\ verbose_level' = t.number /\ OK
                \/ t.number \notin Levels /\ UNCHANGED verbose_level /\ Error
       \/ Len(command) # 2 /\ UNCHANGED verbose_level /\ OK
    /\ UNCHANGED <<stepVars, fileVars>>

\* --step needs exactly one other token, the one behind it a suite.
Step ==
    /\ UtilityIs({"--step"})
    /\ \E t \in After(at) :
          \/ /\ Len(command) = 2 /\ IsSuite(t)
             /\ \E size \in SuiteSizes : BeginStepping(size)
             /\ pc' = "step"
             /\ UNCHANGED <<command, at, thread_args, answer>>
          \/ /\ Len(command) # 2 \/ ~IsSuite(t)
             /\ Error
             /\ UNCHANGED stepVars
    /\ UNCHANGED <<verbose_level, fileVars>>

\* --group_from_file opens the file that is named, or fails.
GroupFromFile ==
    /\ UtilityIs({"--group_from_file"})
    /\ \/ /\ OpenFile
          /\ UNCHANGED pathVars
          /\ pc' = "file"
          /\ UNCHANGED <<command, at, thread_args, answer>>
       \/ Error /\ UNCHANGED fileVars
    /\ UNCHANGED <<verbose_level, stepVars>>

\* Step mode has ended, or the file was read to its end.
UtilityEnds ==
    /\ \/ pc = "step" /\ session = "off"
       \/ pc = "file" /\ level = "none"
    /\ OK
    /\ UNCHANGED <<verbose_level, stepVars, fileVars>>

----------------------------------------------------------------------------
(* Options.                                                                *)

Current == command[at]
Parsing == pc = "options" /\ at <= Len(command)
OptionIs(o) == Parsing /\ Current.text \in o

\* Go on behind the option, or behind its value too.
Take(n) == at' = at + n /\ UNCHANGED <<pc, command, answer>>

VerboseKeepsWait(t) ==
    IF t.number \in Levels
    THEN /\ thread_args' = [thread_args EXCEPT !.verbose = t.number]
         /\ Take(2)
    ELSE Error

\* A silent test is not waited for, any other is.
Verbose(t) ==
    IF t.number \in Levels
    THEN /\ thread_args' = [thread_args EXCEPT !.verbose = t.number,
                                               !.wait = t.number \notin Silent]
         /\ Take(2)
    ELSE Error

Wait ==
    /\ thread_args' = [thread_args EXCEPT
           !.wait = TRUE, !.verbose = IF @ \in Silent THEN TB_VERB_RESP ELSE @]
    /\ Take(1)

LoopAcceptsZero(t) ==
    thread_args' = [thread_args EXCEPT !.loops = t.number] /\ Take(2)

LoopKeepsValue(t) ==
    IF t.number > 0 THEN thread_args' = [thread_args EXCEPT !.loops = t.number] /\ Take(1)
    ELSE Error

Loop(t) ==
    IF t.number > 0 THEN thread_args' = [thread_args EXCEPT !.loops = t.number] /\ Take(2)
    ELSE Error

\* The value is not skipped: it is parsed again.
MaxTmo(t) ==
    IF t.number > 0 THEN thread_args' = [thread_args EXCEPT !.max_timeout = t.number] /\ Take(1)
    ELSE Error

\* A text that is too short is an error, as zero seconds are.
SecondsOf(chars) ==
    IF TimeTooShort(chars) THEN {0} ELSE {TimeStrToSec(chars, tmp) : tmp \in Stack}

ExeTimeKeepsLoops(t) ==
    \E sec \in SecondsOf(t.chars) :
        IF sec > 0
        THEN thread_args' = [thread_args EXCEPT !.execution_time = sec] /\ Take(2)
        ELSE Error

\* A time the test is repeated for, and one between its runs.
ExeTime(t) ==
    \E sec \in SecondsOf(t.chars) :
        IF sec > 0
        THEN /\ thread_args' = [thread_args EXCEPT !.execution_time = sec, !.loops = MaxInt]
             /\ Take(2)
        ELSE Error

ExeDlyTime(t) ==
    \E sec \in SecondsOf(t.chars) :
        IF sec > 0
        THEN thread_args' = [thread_args EXCEPT !.execution_dly_time = sec] /\ Take(2)
        ELSE Error

Option ==
    \/ OptionIs({"--verbose"}) /\ \E t \in After(at) : Verbose(t)
    \/ OptionIs({"--wait"}) /\ Wait
    \/ OptionIs({"--loop"}) /\ \E t \in After(at) : Loop(t)
    \/ OptionIs({"--maxtmo"}) /\ \E t \in After(at) : MaxTmo(t)
    \/ OptionIs({"--exe_time"}) /\ \E t \in After(at) : ExeTime(t)
    \/ OptionIs({"--exe_dly_time"}) /\ \E t \in After(at) : ExeDlyTime(t)
    \/ OptionIs({"--extend", "--extended"})
         /\ thread_args' = [thread_args EXCEPT !.extended = TRUE] /\ Take(1)
    \/ OptionIs({"--xml"}) /\ thread_args' = [thread_args EXCEPT !.xml = TRUE] /\ Take(1)
    \/ OptionIs({"--stoponfail"})
         /\ thread_args' = [thread_args EXCEPT !.stop_on_fail = TRUE] /\ Take(1)

OptionNames == {"--verbose", "--wait", "--loop", "--maxtmo", "--exe_time", "--exe_dly_time",
                "--extend", "--extended", "--xml", "--stoponfail"}

\* The first name of something to run is put in front of the arguments: over the
\* first of them, if there is one, and the place behind the last stays empty.
Name ==
    /\ Parsing
    /\ Current.text \notin OptionNames
    /\ IsName(Current) /\ thread_args.node_name = NoText
    /\ thread_args' = [thread_args EXCEPT
           !.node_name = Current.text,
           !.args = <<Current.text>> \o (IF @ = <<>> THEN <<>> ELSE Append(Tail(@), NoText))]
    /\ Take(1)

\* Anything else is an argument.
Argument ==
    /\ Parsing
    /\ Current.text \notin OptionNames
    /\ thread_args.node_name # NoText \/ ~IsName(Current)
    /\ thread_args' = [thread_args EXCEPT !.args = Append(@, Current.text)]
    /\ Take(1)

\* Writing the log takes long: a test that is repeated needs a pause.
NeedsPause ==
    /\ thread_args.verbose = TB_VERB_OFF_LOG
    /\ thread_args.execution_dly_time = 0
    /\ thread_args.execution_time # 0 \/ thread_args.loops # 1

AllParsed ==
    /\ pc = "options" /\ at > Len(command)
    /\ IF NeedsPause \/ thread_args.node_name = NoText THEN Error
       ELSE pc' = "exec" /\ UNCHANGED <<command, at, thread_args, answer>>

ParseOptions ==
    /\ Option \/ Name \/ Argument \/ AllParsed
    /\ UNCHANGED <<verbose_level, stepVars, fileVars>>

\* exec_test_thread (module TestThreads), when it returns: a test that is waited for
\* has a verdict.
Exec ==
    /\ pc = "exec"
    /\ \/ Error
       \/ ~thread_args.wait /\ OK
       \/ thread_args.wait /\ (Reply("TESTBOX_PASS") \/ Reply("TESTBOX_FAIL"))
    /\ UNCHANGED <<verbose_level, stepVars, fileVars>>

----------------------------------------------------------------------------
StepRuns == /\ pc = "step" /\ RunNext
            /\ UNCHANGED <<commandVars, verbose_level, fileVars>>
StepUser == /\ pc = "step" /\ User
            /\ UNCHANGED <<commandVars, verbose_level, fileVars>>
StepQuit == /\ pc = "step" /\ PressEnd
            /\ UNCHANGED <<commandVars, verbose_level, fileVars>>
FileRead == /\ pc \in {"startup", "file"} /\ FileStep
            /\ UNCHANGED <<commandVars, verbose_level, stepVars>>

\* What the thread does without waiting for anyone.
Parser ==
    \/ Serve
    \/ Informs
    \/ MayFail
    \/ Looks
    \/ SetVerboseLevel
    \/ Step
    \/ GroupFromFile
    \/ UtilityEnds
    \/ ParseOptions
    \/ FileRead

Next ==
    \/ Parser
    \/ Exec
    \/ StepRuns
    \/ StepUser
    \/ StepQuit
    \/ pc = "idle" /\ \E cmd \in Commands : Receive(cmd)

Spec == Init /\ [][Next]_vars

(***************************************************************************)
(* Fairness: the socket thread is scheduled while it parses.  Nothing is   *)
(* assumed of the tests it runs, of the user of step mode or of stdin.     *)
(***************************************************************************)
FairSpec == Spec /\ WF_vars(Parser)

----------------------------------------------------------------------------
(* Properties.                                                             *)

\* The values the variables range over; a request has a positive number of loops,
\* times that fit an int, and the name of what it runs in front of its arguments.
CommandTypeOK ==
    /\ StepTypeOK /\ FileTypeOK
    /\ pc \in PC
    /\ answer \in {"none", "TESTBOX_OK", "TESTBOX_ERROR", "TESTBOX_PASS", "TESTBOX_FAIL"}
    /\ verbose_level \in Levels
    /\ at \in 0..(Len(command) + 2)
    /\ thread_args.verbose \in Levels
    /\ thread_args.loops \in 1..MaxInt
    /\ {thread_args.max_timeout, thread_args.execution_time, thread_args.execution_dly_time}
          \subseteq 0..MaxInt
    /\ pc = "exec" => thread_args.node_name \in DOMAIN Names \cap {thread_args.args[1]}

\* A test is waited for exactly if its output is shown, in whatever order
\* --verbose and --wait are given and whatever the default level is: no test
\* prints to a client that has been answered, and no client waits in silence.
VerbosityMatchesWait == thread_args.wait <=> thread_args.verbose \notin Silent

\* The positions of the values of options, and of the options themselves.
TakesValue == {"--verbose", "--loop", "--exe_time", "--exe_dly_time"}
ValuesIn(cmd) ==
    LET isValue[j \in 0..Len(cmd)] ==
            j > 1 /\ ~isValue[j - 1] /\ cmd[j - 1].text \in TakesValue
    IN {j \in DOMAIN cmd : isValue[j]}

\* The options of some names in front of an index, and the last of them.
GivenBefore(upto, options) ==
    {j \in DOMAIN command \ ValuesIn(command) : j < upto /\ command[j].text \in options}
LastBefore(upto, options) == Max(GivenBefore(upto, options) \cup {0})

\* The number behind the last of the options, if it was written at all.
Says(upto, value, option, default) ==
    LET j == LastBefore(upto, {option})
    IN IF j = 0 THEN value = default
       ELSE j < Len(command) => value = command[j + 1].number

\* The request is what the options in front of an index say.
LoopsCount(upto) ==
    IF LastBefore(upto, {"--exe_time"}) > LastBefore(upto, {"--loop"})
    THEN thread_args.loops = MaxInt
    ELSE Says(upto, thread_args.loops, "--loop", 1)

OutputCounts(upto) ==
    LET wait == LastBefore(upto, {"--wait"})
        verb == LastBefore(upto, {"--verbose"})
    IN /\ \/ /\ wait > verb /\ thread_args.verbose = TB_VERB_RESP
             /\ IF verb = 0 THEN verbose_level \in Silent ELSE command[verb + 1].number \in Silent
          \/ Says(upto, thread_args.verbose, "--verbose", verbose_level)
       /\ wait > verb => thread_args.wait

OthersCount(upto) ==
    /\ Says(upto, thread_args.max_timeout, "--maxtmo", 0)
    /\ thread_args.stop_on_fail <=> GivenBefore(upto, {"--stoponfail"}) # {}
    /\ thread_args.extended <=> GivenBefore(upto, {"--extend", "--extended"}) # {}

\* What is run is what the last option of each kind says: options that set the
\* same field (--loop and --exe_time; --verbose and --wait) count in their order.
LastOptionCounts ==
    pc = "exec" =>
        LET end == Len(command) + 1
        IN LoopsCount(end) /\ OutputCounts(end) /\ OthersCount(end)

\* The tokens in front of an index that are neither options nor their values, and
\* how many of them there are up to a place.
PlainBefore(upto) ==
    {j \in DOMAIN command \ ValuesIn(command) : j < upto /\ command[j].text \notin OptionNames}
Rank(j, places) == Cardinality({p \in places : p <= j})

\* They are the arguments, all of them and in order.
Forwards(upto) ==
    LET plain == PlainBefore(upto)
    IN /\ Len(thread_args.args) = Cardinality(plain)
       /\ \A j \in plain : thread_args.args[Rank(j, plain)] = command[j].text

\* Tokens that are neither options nor their values are "forwarded to test
\* function", where the name of the test comes first.  (--maxtmo is left out here:
\* its value is forwarded too.)
ForwardsTheRest ==
    LET end == Len(command) + 1
        first == Min(PlainBefore(end))
    IN pc = "exec" /\ GivenBefore(end, {"--maxtmo"}) = {}
          /\ command[first].text = thread_args.node_name => Forwards(end)

\* A time that is written as the usage says is taken as it is meant.
TimeCounts(upto, option, seconds) ==
    LET j == LastBefore(upto, {option})
    IN \A w \in Widths :
          j \in 1..(Len(command) - 1) /\ IsTime(command[j + 1].chars, w) =>
             seconds = MeantSeconds(command[j + 1].chars, w)

TimesAreMeant ==
    pc = "exec" =>
        LET end == Len(command) + 1
        IN /\ TimeCounts(end, "--exe_time", thread_args.execution_time)
           /\ TimeCounts(end, "--exe_dly_time", thread_args.execution_dly_time)

\* Parsing ends, whatever the tokens and the lines of the files are: the loops over
\* argv, over the lines of three nested parsers and over the replacements in a path
\* all advance, until the command is answered, a test or step mode is started (which
\* may not end), or a null pointer has taken the daemon down.
ParsingEnds ==
    pc \in {"utility", "options", "file"} ~> pc \in {"idle", "exec", "step"} \/ level = "crashed"

=============================================================================
