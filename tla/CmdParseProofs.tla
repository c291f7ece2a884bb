--------------------------- MODULE CmdParseProofs ---------------------------
(***************************************************************************)
(* Theorems about CmdParse for commands of any length, any tokens, any     *)
(* contents of the memory behind argv, suites of any size and files of any *)
(* length.                                                                 *)
(***************************************************************************)
EXTENDS CmdParse, StepModeProofs, GroupFileProofs

\* The two fields of the request that must agree.
OutputInv ==
    /\ {"verbose", "wait"} \subseteq DOMAIN thread_args
    /\ thread_args.wait \in BOOLEAN
    /\ VerbosityMatchesWait

LEMMA DefaultArgsAgree ==
  ASSUME NEW default, thread_args' = DefaultArgs(default)
  PROVE  OutputInv'
  BY DEF OutputInv, VerbosityMatchesWait, DefaultArgs

LEMMA ReplyAgrees ==
  ASSUME NEW a, Reply(a)
  PROVE  OutputInv'
  BY DefaultArgsAgree DEF Reply, NoArgs

LEMMA SameArgsAgree ==
  ASSUME OutputInv, UNCHANGED thread_args
  PROVE  OutputInv'
  BY DEF OutputInv, VerbosityMatchesWait

\* An option that sets another field.
LEMMA OtherFieldAgrees ==
  ASSUME OutputInv, NEW f, f \notin {"verbose", "wait"}, NEW v,
         thread_args' = [thread_args EXCEPT ![f] = v]
  PROVE  OutputInv'
  <1>1. /\ DOMAIN thread_args' = DOMAIN thread_args
        /\ thread_args'.verbose = thread_args.verbose /\ thread_args'.wait = thread_args.wait
    BY DEF OutputInv
  <1> QED BY <1>1 DEF OutputInv, VerbosityMatchesWait

----------------------------------------------------------------------------
LEMMA VerboseAgrees ==
  ASSUME OutputInv, NEW t, Verbose(t)
  PROVE  OutputInv'
  <1>1. CASE t.number \in Levels
    <2>1. thread_args' = [thread_args EXCEPT !.verbose = t.number, !.wait = t.number \notin Silent]
      BY <1>1 DEF Verbose
    <2>2. /\ DOMAIN thread_args' = DOMAIN thread_args
          /\ thread_args'.verbose = t.number
          /\ thread_args'.wait = (t.number \notin Silent)
      BY <2>1 DEF OutputInv
    <2> QED BY <2>2 DEF OutputInv, VerbosityMatchesWait
  <1>2. CASE t.number \notin Levels
    BY <1>2, ReplyAgrees DEF Verbose, Error
  <1> QED BY <1>1, <1>2

LEMMA WaitAgrees ==
  ASSUME OutputInv, Wait
  PROVE  OutputInv'
  <1>1. /\ DOMAIN thread_args' = DOMAIN thread_args
        /\ thread_args'.verbose = IF thread_args.verbose \in Silent THEN TB_VERB_RESP
                                  ELSE thread_args.verbose
        /\ thread_args'.wait = TRUE
    BY DEF OutputInv, Wait
  <1>2. TB_VERB_RESP \notin Silent BY DEF TB_VERB_RESP, Silent, TB_VERB_OFF, TB_VERB_OFF_LOG
  <1>3. thread_args'.verbose \notin Silent BY <1>1, <1>2
  <1> QED BY <1>1, <1>3 DEF OutputInv, VerbosityMatchesWait

LEMMA OptionAgrees ==
  ASSUME OutputInv, Option
  PROVE  OutputInv'
  <1>1. ASSUME NEW t, Loop(t)
        PROVE  OutputInv'
    BY <1>1, OtherFieldAgrees, ReplyAgrees DEF Loop, Error
  <1>2. ASSUME NEW t, MaxTmo(t)
        PROVE  OutputInv'
    BY <1>2, OtherFieldAgrees, ReplyAgrees DEF MaxTmo, Error
  <1>3. ASSUME NEW t, ExeTime(t)
        PROVE  OutputInv'
    <2>1. PICK sec \in SecondsOf(t.chars) :
             \/ thread_args' = [thread_args EXCEPT !.execution_time = sec, !.loops = MaxInt]
             \/ Error
      BY <1>3 DEF ExeTime
    <2>2. CASE thread_args' = [thread_args EXCEPT !.execution_time = sec, !.loops = MaxInt]
      <3>1. /\ DOMAIN thread_args' = DOMAIN thread_args
            /\ thread_args'.verbose = thread_args.verbose /\ thread_args'.wait = thread_args.wait
        BY <2>2 DEF OutputInv
      <3> QED BY <3>1 DEF OutputInv, VerbosityMatchesWait
    <2> QED BY <2>1, <2>2, ReplyAgrees DEF Error
  <1>4. ASSUME NEW t, ExeDlyTime(t)
        PROVE  OutputInv'
    BY <1>4, OtherFieldAgrees, ReplyAgrees DEF ExeDlyTime, Error
  <1>5. ASSUME \/ thread_args' = [thread_args EXCEPT !.extended = TRUE]
               \/ thread_args' = [thread_args EXCEPT !.xml = TRUE]
               \/ thread_args' = [thread_args EXCEPT !.stop_on_fail = TRUE]
        PROVE  OutputInv'
    BY <1>5, OtherFieldAgrees
  <1> QED BY <1>1, <1>2, <1>3, <1>4, <1>5, VerboseAgrees, WaitAgrees DEF Option

LEMMA ParseOptionsAgrees ==
  ASSUME OutputInv, ParseOptions
  PROVE  OutputInv'
  <1>1. CASE Name
    <2>1. /\ DOMAIN thread_args' = DOMAIN thread_args
          /\ thread_args'.verbose = thread_args.verbose /\ thread_args'.wait = thread_args.wait
      BY <1>1 DEF Name, OutputInv
    <2> QED BY <2>1 DEF OutputInv, VerbosityMatchesWait
  <1>2. CASE Argument BY <1>2, OtherFieldAgrees DEF Argument
  <1>3. CASE AllParsed BY <1>3, ReplyAgrees, SameArgsAgree DEF AllParsed, Error
  <1> QED BY <1>1, <1>2, <1>3, OptionAgrees DEF ParseOptions

\* The other steps leave the request alone or end the command.
LEMMA UtilityAgrees ==
  ASSUME OutputInv,
         \/ Serve \/ Informs \/ MayFail \/ Looks \/ SetVerboseLevel \/ Step \/ GroupFromFile
         \/ UtilityEnds \/ Exec \/ StepRuns \/ StepUser \/ StepQuit \/ FileRead
  PROVE  OutputInv'
  <1>1. UNCHANGED thread_args \/ \E a : Reply(a)
    <2>1. Serve \/ StepRuns \/ StepUser \/ StepQuit \/ FileRead => UNCHANGED thread_args
      BY DEF Serve, StepRuns, StepUser, StepQuit, FileRead, commandVars
    <2>2. Informs \/ MayFail \/ Looks \/ SetVerboseLevel \/ UtilityEnds \/ Exec => \E a : Reply(a)
      BY DEF Informs, MayFail, Looks, SetVerboseLevel, UtilityEnds, Exec, OK, Error
    <2>3. Step \/ GroupFromFile => UNCHANGED thread_args \/ \E a : Reply(a)
      BY DEF Step, GroupFromFile, Error
    <2> QED BY <2>1, <2>2, <2>3
  <1> QED BY <1>1, ReplyAgrees, SameArgsAgree

----------------------------------------------------------------------------
\* Whatever the order of --verbose, --wait and all other tokens, and whatever the
\* default level, a request is waited for exactly if its output is shown.
THEOREM VerbosityAgrees == Spec => []VerbosityMatchesWait
  <1>1. ASSUME Init PROVE OutputInv
    <2>1. thread_args = DefaultArgs(TB_VERB_OFF) BY <1>1 DEF Init, NoArgs
    <2> QED BY <2>1 DEF DefaultArgs, OutputInv, VerbosityMatchesWait
  <1>2. ASSUME OutputInv, [Next]_vars
        PROVE  OutputInv'
    <2>1. CASE UNCHANGED vars BY <1>2, <2>1, SameArgsAgree DEF vars, commandVars
    <2>2. ASSUME NEW cmd \in Commands, Receive(cmd)
          PROVE  OutputInv'
      BY <1>2, <2>2, SameArgsAgree, DefaultArgsAgree DEF Receive
    <2> QED BY <1>2, <2>1, <2>2, ParseOptionsAgrees, UtilityAgrees DEF Next, Parser
  <1>3. OutputInv => VerbosityMatchesWait BY DEF OutputInv
  <1> QED BY <1>1, <1>2, <1>3, PTL DEF Spec

----------------------------------------------------------------------------
(* Step mode and the files, as the socket thread uses them.                *)

\* Files are read at startup and by one command only.
LevelInv == pc \notin {"startup", "file"} => level = "none"

PartsInv == StepInv /\ FileInv /\ MeansInv /\ LevelInv

LEMMA ReplyParts == ASSUME NEW a, Reply(a) PROVE pc' = "idle"
  BY DEF Reply

LEMMA InitParts == Init => PartsInv
  <1>1. FileInit => MeansInv BY DEF FileInit, MeansInv, NoFile
  <1> QED BY <1>1, StepInitInv, FileInitInv DEF Init, PartsInv, LevelInv

\* Most steps leave both alone and begin or end where no file is read.
LEMMA SameParts ==
  ASSUME PartsInv, UNCHANGED <<stepVars, fileVars>>,
         pc' \in {"startup", "file"} => pc' = pc,
         pc \in {"startup", "file"} /\ pc' # pc => level = "none"
  PROVE  PartsInv'
  <1>1. LevelInv' BY DEF PartsInv, LevelInv, fileVars
  <1> QED BY <1>1, StepStutterInv, FileStutterInv, FileStutterMeans DEF PartsInv

LEMMA QuietParts ==
  ASSUME PartsInv,
         \/ Serve \/ Informs \/ MayFail \/ Looks \/ SetVerboseLevel \/ UtilityEnds \/ Exec
         \/ (\E cmd \in Commands : pc = "idle" /\ Receive(cmd))
  PROVE  PartsInv'
  <1>1. UNCHANGED <<stepVars, fileVars>>
    BY DEF Serve, Informs, MayFail, Looks, SetVerboseLevel, UtilityEnds, Exec, Receive
  <1>2. pc' \notin {"startup", "file"}
    BY DEF Serve, Informs, MayFail, Looks, SetVerboseLevel, UtilityEnds, Exec, Receive, OK, Error, Reply
  <1>3. pc \in {"startup", "file"} => level = "none"
    BY DEF Serve, Informs, MayFail, Looks, SetVerboseLevel, UtilityEnds, Exec, Receive, UtilityIs
  <1> QED BY <1>1, <1>2, <1>3, SameParts

LEMMA OptionParts == ASSUME PartsInv, ParseOptions PROVE PartsInv'
  <1>1. UNCHANGED <<stepVars, fileVars>> BY DEF ParseOptions
  <1>2. pc = "options" BY DEF ParseOptions, Option, Name, Argument, AllParsed, OptionIs, Parsing
  <1>3. pc' \in {"options", "exec", "idle"}
    <2>1. Option \/ Name \/ Argument => pc' = pc \/ pc' = "idle"
      BY DEF Option, Name, Argument, Verbose, Wait, Loop, MaxTmo, ExeTime, ExeDlyTime, Take, Error, Reply
    <2>2. AllParsed => pc' \in {"exec", "idle"} BY DEF AllParsed, Error, Reply
    <2> QED BY <1>2, <2>1, <2>2 DEF ParseOptions
  <1> QED BY <1>1, <1>2, <1>3, SameParts

LEMMA StepModeParts ==
  ASSUME PartsInv, Step \/ StepRuns \/ StepUser \/ StepQuit
  PROVE  PartsInv'
  <1>1. UNCHANGED fileVars /\ pc \notin {"startup", "file"} /\ pc' \notin {"startup", "file"}
    BY DEF Step, StepRuns, StepUser, StepQuit, UtilityIs, commandVars, Error, Reply
  <1>2. LevelInv' BY <1>1 DEF PartsInv, LevelInv, fileVars
  <1>3. StepInv'
    <2>1. CASE Step
      <3>1. UNCHANGED stepVars \/ \E size \in SuiteSizes : BeginStepping(size) BY <2>1 DEF Step
      <3>2. SuiteSizes \subseteq Nat BY CommandAssumption
      <3> QED BY <3>1, <3>2, BeginInv, StepStutterInv DEF PartsInv
    <2>2. CASE StepRuns BY <2>2, RunNextInv DEF StepRuns, PartsInv
    <2>3. CASE StepUser BY <2>3, UserInv DEF StepUser, PartsInv
    <2>4. CASE StepQuit BY <2>4, StepResetInv DEF StepQuit, PressEnd
    <2> QED BY <2>1, <2>2, <2>3, <2>4
  <1> QED BY <1>1, <1>2, <1>3, FileStutterInv, FileStutterMeans DEF PartsInv

LEMMA FileParts == ASSUME PartsInv, FileRead \/ GroupFromFile PROVE PartsInv'
  <1>1. CASE FileRead
    <2>1. FileStep /\ UNCHANGED stepVars /\ UNCHANGED pc /\ pc \in {"startup", "file"}
      BY <1>1 DEF FileRead, commandVars
    <2> QED BY <2>1, FileStepInv, FileStepMeans, StepStutterInv DEF PartsInv, LevelInv
  <1>2. CASE GroupFromFile
    <2>1. UNCHANGED stepVars /\ pc = "utility" BY <1>2 DEF GroupFromFile, UtilityIs
    <2>2. CASE OpenFile /\ UNCHANGED pathVars /\ pc' = "file"
      <3>1. level = "none" /\ NoFile /\ conf # "libs" /\ Blank
        BY <2>1 DEF PartsInv, LevelInv, FileInv, NoFile
      <3>2. PathTypeOK' BY <2>2, FileInvFacts DEF PartsInv, PathTypeOK, pathVars
      <3>3. FileInv' BY <2>2, <3>1, <3>2, OpenFileInv DEF PartsInv
      <3>4. MeansInv' BY <2>2, <3>1, FileAssumption, OpenMeans DEF OpenFile, parseVars, Blank
      <3> QED BY <2>1, <2>2, <3>3, <3>4, StepStutterInv DEF PartsInv, LevelInv
    <2>3. CASE Error /\ UNCHANGED fileVars
      BY <2>1, <2>3, SameParts DEF Error, Reply
    <2> QED BY <1>2, <2>2, <2>3 DEF GroupFromFile
  <1> QED BY <1>1, <1>2

LEMMA NextParts == ASSUME PartsInv, [Next]_vars PROVE PartsInv'
  <1>1. CASE UNCHANGED vars
    BY <1>1, SameParts DEF vars, commandVars
  <1> QED BY <1>1, QuietParts, OptionParts, StepModeParts, FileParts DEF Next, Parser

\* A group file that keeps to the grammar is understood as it is written, however
\* many groups, suites and lines it has, at startup and by --group_from_file.
THEOREM FilesAreMeant == Spec => []FileMeansGroups
  <1>1. PartsInv => FileMeansGroups BY FileIsMeant DEF PartsInv
  <1> QED BY <1>1, InitParts, NextParts, PTL DEF Spec

\* Whatever the value of the variable, which does not name the variable itself, and
\* however often a path names it: when replace_string returns, every occurrence is
\* replaced, as if all had been at once.
THEOREM PathsExpanded == Spec => []PathFullyExpanded
  <1>1. Init => ReplacesInv BY DEF Init, FileInit, ReplacesInv
  <1>2. ASSUME ReplacesInv, [Next]_vars PROVE ReplacesInv'
    <2>1. CASE FileRead BY <1>2, <2>1, FileStepReplaces DEF FileRead
    <2>2. CASE GroupFromFile
      <3>1. UNCHANGED fileVars \/ level' = "group" BY <2>2 DEF GroupFromFile, OpenFile
      <3>2. level' = "group" => ReplacesInv' BY DEF ReplacesInv
      <3> QED BY <1>2, <3>1, <3>2, FileStutterReplaces
    <2>3. CASE \/ UNCHANGED vars \/ Serve \/ Informs \/ MayFail \/ Looks \/ SetVerboseLevel \/ Step
               \/ UtilityEnds \/ ParseOptions \/ Exec \/ StepRuns \/ StepUser \/ StepQuit
               \/ \E cmd \in Commands : Receive(cmd)
      <3>1. UNCHANGED fileVars
        BY <2>3 DEF vars, Serve, Informs, MayFail, Looks, SetVerboseLevel, Step, UtilityEnds, ParseOptions,
                    Exec, StepRuns, StepUser, StepQuit, Receive
      <3> QED BY <1>2, <3>1, FileStutterReplaces
    <2> QED BY <1>2, <2>1, <2>2, <2>3 DEF Next, Parser
  <1> QED BY <1>1, <1>2, PathIsExpanded, PTL DEF Spec

\* Every key does what the help of step mode says, in suites of any size and after
\* any keys.
THEOREM StepsKeepHelp == Spec => StepsAsHelpSays
  <1>1. ASSUME PartsInv, [Next]_vars,
               k > 0, key' # "other", session \in {"key", "running"}, session' = "key",
               ~UNCHANGED stepVars
        PROVE  ran' = HelpRuns(key', prompt) /\ prompt' = HelpShows(key', prompt)
    <2>1. Step \/ StepRuns \/ StepUser \/ StepQuit
      BY <1>1 DEF Next, Parser, vars, Serve, Informs, MayFail, Looks, SetVerboseLevel, GroupFromFile,
                  UtilityEnds, ParseOptions, Exec, FileRead, Receive
    <2>2. ~Step BY <1>1 DEF Step, BeginStepping
    <2>3. ~StepQuit BY <1>1 DEF StepQuit, PressEnd, StepReset
    <2>4. User \/ RunNext BY <2>1, <2>2, <2>3 DEF StepRuns, StepUser
    <2> QED BY <1>1, <2>4, UserHelps DEF PartsInv, HelpKept
  <1>2. PartsInv /\ [Next]_vars =>
           [k > 0 /\ key' # "other" /\ session \in {"key", "running"} /\ session' = "key" =>
               /\ ran' = HelpRuns(key', prompt)
               /\ prompt' = HelpShows(key', prompt)]_stepVars
    BY <1>1
  <1> QED BY <1>2, InitParts, NextParts, PTL DEF Spec, StepsAsHelpSays

----------------------------------------------------------------------------
(* The command and the request.                                            *)

Int32Pos == 0..MaxInt
Text == STRING \cup {NoText}
Request == [verbose : Levels, wait : BOOLEAN, loops : 1..MaxInt, stop_on_fail : BOOLEAN,
            extended : BOOLEAN, xml : BOOLEAN, max_timeout : Int32Pos, execution_time : Int32Pos,
            execution_dly_time : Int32Pos, node_name : Text, args : Seq(Text)]

\* What is run has a name, and that is the first argument.
RequestInv(r) ==
    /\ r \in Request
    /\ r.node_name # NoText => /\ r.node_name \in DOMAIN Names
                          /\ r.args # <<>> /\ r.args[1] = r.node_name

ArgvInv ==
    /\ pc \in PC
    /\ answer \in {"none", "TESTBOX_OK", "TESTBOX_ERROR", "TESTBOX_PASS", "TESTBOX_FAIL"}
    /\ verbose_level \in Levels
    /\ command \in Seq(Token) /\ at \in 0..(Len(command) + 2)
    /\ pc = "options" => at > 0
    /\ RequestInv(thread_args)
    /\ pc = "exec" => thread_args.node_name # NoText

LEMMA MaxIntBound == MaxInt \in Nat /\ MaxInt > 10000000
  BY DEF MaxInt

LEMMA SmallInts == 0 \in Int32Pos /\ 1 \in 1..MaxInt
  <1>1. 0 \in Int32Pos BY SMT, MaxIntBound DEF Int32Pos
  <1>2. 1 \in 1..MaxInt BY SMT, MaxIntBound
  <1> QED BY <1>1, <1>2

\* Seconds fit an int whatever the buffer of the conversion held before.
LEMMA AtoiBound == ASSUME NEW tmp PROVE Atoi(tmp) \in 0..99
  <1> DEFINE x == tmp[1]
             y == tmp[2]
  <1>1. \/ Atoi(tmp) = 0
        \/ x \in Digits /\ Atoi(tmp) = x
        \/ x \in Digits /\ y \in Digits /\ Atoi(tmp) = 10 * x + y
    BY Zenon DEF Atoi
  <1> HIDE DEF x, y
  <1> QED BY <1>1, SMT DEF Digits

LEMMA SecondsBound ==
  ASSUME NEW t, NEW sec \in SecondsOf(t)
  PROVE  sec \in Int32Pos
  <1>1. CASE TimeTooShort(t) BY <1>1, MaxIntBound DEF SecondsOf, Int32Pos
  <1>2. CASE ~TimeTooShort(t)
    <2>1. PICK tmp \in Stack : sec = TimeStrToSec(t, tmp) BY <1>2 DEF SecondsOf
    <2> DEFINE d == ColonAfter(t, -1)
               h == IF d < 0 THEN -1 ELSE ColonAfter(t, d)
               m == IF h < 0 THEN -1 ELSE ColonAfter(t, h)
               dd == IF d > 0 THEN Copy(t, -1, d, tmp) ELSE tmp
               hh == IF h - d > 1 THEN Copy(t, d, h, dd) ELSE dd
               mm == IF m - h > 1 THEN Copy(t, h, m, hh) ELSE hh
               ss == Copy(t, m, Len(t), mm)
               long == Len(t) > 3
    <2>2. sec = (IF d > 0 THEN Atoi(dd) * 86400 ELSE 0)
                  + (IF h - d > 1 THEN Atoi(hh) * 3600 ELSE 0)
                  + (IF m - h > 1 THEN Atoi(mm) * 60 ELSE 0)
                  + (IF long THEN Atoi(ss) ELSE 0)
      BY <2>1 DEF TimeStrToSec
    <2>3. /\ Atoi(dd) \in 0..99 /\ Atoi(hh) \in 0..99
          /\ Atoi(mm) \in 0..99 /\ Atoi(ss) \in 0..99
      BY AtoiBound
    <2> HIDE DEF d, h, m, dd, hh, mm, ss, long
    <2> DEFINE D == IF d > 0 THEN Atoi(dd) * 86400 ELSE 0
               H == IF h - d > 1 THEN Atoi(hh) * 3600 ELSE 0
               M == IF m - h > 1 THEN Atoi(mm) * 60 ELSE 0
               S == IF long THEN Atoi(ss) ELSE 0
    <2>4. D \in Nat /\ D <= 8553600 BY <2>3
    <2>5. H \in Nat /\ H <= 356400 BY <2>3
    <2>6. M \in Nat /\ M <= 5940 BY <2>3
    <2>7. S \in Nat /\ S <= 99 BY <2>3
    <2>8. sec = D + H + M + S BY <2>2
    <2> HIDE DEF D, H, M, S
    <2>9. sec \in Nat /\ sec <= 10000000 BY <2>4, <2>5, <2>6, <2>7, <2>8
    <2> QED BY <2>9, MaxIntBound DEF Int32Pos
  <1> QED BY <1>1, <1>2

LEMMA DefaultRequest ==
  ASSUME NEW default \in Levels
  PROVE  RequestInv(DefaultArgs(default)) /\ DefaultArgs(default).node_name = NoText
  <1>1. <<>> \in Seq(Text) OBVIOUS
  <1>2. DefaultArgs(default) \in Request /\ DefaultArgs(default).node_name = NoText
    BY <1>1, SmallInts DEF DefaultArgs, Request, Text
  <1> QED BY <1>2 DEF RequestInv

LEMMA ReplyInv ==
  ASSUME ArgvInv, verbose_level' \in Levels,
         NEW a \in {"TESTBOX_OK", "TESTBOX_ERROR", "TESTBOX_PASS", "TESTBOX_FAIL"}, Reply(a)
  PROVE  ArgvInv'
  <1>1. RequestInv(NoArgs)
    BY DefaultRequest DEF NoArgs, Levels, TB_VERB_OFF, TB_VERB_OFF_LOG
  <1>2. /\ pc' = "idle" /\ answer' = a /\ command' = <<>> /\ at' = 0 /\ thread_args' = NoArgs
        /\ <<>> \in Seq(Token) /\ Len(<<>>) = 0
    BY DEF Reply
  <1> QED BY <1>1, <1>2 DEF ArgvInv, PC, RequestInv

LEMMA SameArgv ==
  ASSUME ArgvInv, UNCHANGED <<command, at, thread_args, answer, verbose_level>>,
         pc' \in PC, pc' = "options" => at > 0, pc' = "exec" => thread_args.node_name # NoText
  PROVE  ArgvInv'
  BY DEF ArgvInv, RequestInv

\* The first utility is a place in the command, or there is none.
LEMMA UtilityPlace ==
  ASSUME NEW cmd \in Seq(Token)
  PROVE  FirstUtility(cmd) \in 0..Len(cmd)
  <1> DEFINE I == {j \in 1..Len(cmd) : cmd[j].text \in Utilities}
  <1>1. FirstUtility(cmd) = IF I # {} THEN Min(I) ELSE 0 BY DEF FirstUtility, SelectInSeq
  <1>2. I \in SUBSET Nat OBVIOUS
  <1>3. 0 \in 0..Len(cmd) /\ \A j \in I : j \in 0..Len(cmd) OBVIOUS
  <1> HIDE DEF I
  <1>4. CASE I = {} BY <1>1, <1>3, <1>4
  <1>5. CASE I # {}
    <2>1. Min(I) \in I BY <1>2, <1>5, SmallestExists
    <2>2. Min(I) \in 0..Len(cmd) BY <1>3, <2>1
    <2> QED BY <1>1, <1>5, <2>2
  <1> QED BY <1>4, <1>5

LEMMA ReceiveArgv == ASSUME ArgvInv, NEW cmd \in Commands, Receive(cmd) PROVE ArgvInv'
  <1>1. cmd \in Seq(Token) /\ command' = cmd /\ answer' = "none" /\ verbose_level' = verbose_level
    BY CommandAssumption DEF Receive
  <1>2. CASE pc' = "utility" /\ at' = FirstUtility(cmd) /\ UNCHANGED thread_args
    <2>1. FirstUtility(cmd) \in 0..Len(cmd) BY <1>1, UtilityPlace
    <2>2. at' \in 0..(Len(command') + 2) BY <1>1, <1>2, <2>1
    <2>3. RequestInv(thread_args)' BY <1>2 DEF ArgvInv, RequestInv
    <2> QED BY <1>1, <1>2, <2>2, <2>3 DEF ArgvInv, PC
  <1>3. CASE pc' = "options" /\ at' = 1 /\ thread_args' = DefaultArgs(verbose_level)
    <2>1. verbose_level \in Levels BY DEF ArgvInv
    <2>2. RequestInv(DefaultArgs(verbose_level)) BY <2>1, DefaultRequest
    <2>3. at' \in 0..(Len(command') + 2) /\ at' > 0 BY <1>1, <1>3
    <2>4. RequestInv(thread_args)' BY <1>3, <2>2 DEF RequestInv
    <2> QED BY <1>1, <1>3, <2>1, <2>3, <2>4 DEF ArgvInv, PC
  <1> QED BY <1>2, <1>3 DEF Receive

\* What is found behind an index of argv is a token.
LEMMA AfterType ==
  ASSUME ArgvInv, NEW j \in Nat, NEW t \in After(j)
  PROVE  t \in Token
  <1>1. command \in Seq(Token) /\ Unwritten \subseteq Token
    BY CommandAssumption DEF ArgvInv
  <1>2. CASE j < Len(command) BY <1>1, <1>2 DEF After
  <1>3. CASE ~(j < Len(command)) BY <1>1, <1>3 DEF After
  <1> QED BY <1>2, <1>3

\* The fields an option sets.
LEMMA SetFields ==
  ASSUME RequestInv(thread_args), NEW n \in 1..MaxInt, NEW sec \in Int32Pos, NEW v \in Levels,
         NEW w \in BOOLEAN,
         \/ thread_args' = [thread_args EXCEPT !.verbose = v, !.wait = w]
         \/ thread_args' = [thread_args EXCEPT !.loops = n]
         \/ thread_args' = [thread_args EXCEPT !.max_timeout = sec]
         \/ thread_args' = [thread_args EXCEPT !.execution_dly_time = sec]
         \/ thread_args' = [thread_args EXCEPT !.execution_time = sec, !.loops = n]
         \/ thread_args' = [thread_args EXCEPT !.extended = TRUE]
         \/ thread_args' = [thread_args EXCEPT !.xml = TRUE]
         \/ thread_args' = [thread_args EXCEPT !.stop_on_fail = TRUE]
  PROVE  RequestInv(thread_args')
  <1>1. /\ thread_args \in Request /\ thread_args' \in Request
        /\ thread_args'.node_name = thread_args.node_name /\ thread_args'.args = thread_args.args
    BY DEF RequestInv, Request
  <1> QED BY <1>1 DEF RequestInv

LEMMA TakeInv ==
  ASSUME ArgvInv, Parsing, NEW n \in {1, 2}, Take(n), RequestInv(thread_args'),
         UNCHANGED verbose_level
  PROVE  ArgvInv'
  <1>1. /\ pc' = "options" /\ command' = command /\ answer' = answer /\ at' = at + n
        /\ at \in 1..Len(command) /\ command \in Seq(Token)
    BY DEF ArgvInv, Parsing, Take
  <1>2. at' \in 0..(Len(command') + 2) /\ at' > 0 BY <1>1
  <1>3. RequestInv(thread_args)' BY DEF RequestInv
  <1> QED BY <1>1, <1>2, <1>3 DEF ArgvInv, PC

LEMMA ErrorInv == ASSUME ArgvInv, Error, UNCHANGED verbose_level PROVE ArgvInv'
  BY ReplyInv DEF Error, ArgvInv

LEMMA IntTypes ==
  ASSUME NEW t \in Token, t.number > 0
  PROVE  t.number \in 1..MaxInt /\ t.number \in Int32Pos
  <1>1. t.number \in (-MaxInt - 1)..MaxInt BY DEF Token
  <1> QED BY <1>1, MaxIntBound, SMT DEF Int32Pos

LEMMA OptionArgv ==
  ASSUME ArgvInv, Option, UNCHANGED verbose_level
  PROVE  ArgvInv'
  <1>1. Parsing /\ at \in Nat /\ RequestInv(thread_args)
    BY DEF Option, OptionIs, ArgvInv
  <1>2. 1 \in 1..MaxInt /\ 0 \in Int32Pos /\ TB_VERB_RESP \in Levels /\ TRUE \in BOOLEAN
    BY SmallInts DEF Levels, TB_VERB_RESP, TB_VERB_OFF, TB_VERB_OFF_LOG
  <1>3. ASSUME NEW t \in After(at), Verbose(t) PROVE ArgvInv'
    <2>1. CASE t.number \in Levels
      <3>1. /\ thread_args' = [thread_args EXCEPT !.verbose = t.number, !.wait = t.number \notin Silent]
            /\ Take(2)
        BY <1>3, <2>1 DEF Verbose
      <3>2. (t.number \notin Silent) \in BOOLEAN OBVIOUS
      <3>3. RequestInv(thread_args') BY <1>1, <1>2, <2>1, <3>1, <3>2, SetFields
      <3> QED BY <1>1, <3>1, <3>3, TakeInv
    <2>2. CASE t.number \notin Levels BY <1>3, <2>2, ErrorInv DEF Verbose
    <2> QED BY <2>1, <2>2
  <1>4. ASSUME Wait PROVE ArgvInv'
    <2> DEFINE v == IF thread_args.verbose \in Silent THEN TB_VERB_RESP ELSE thread_args.verbose
    <2>1. v \in Levels BY <1>1, <1>2 DEF RequestInv, Request
    <2>2. thread_args' = [thread_args EXCEPT !.verbose = v, !.wait = TRUE] /\ Take(1)
      BY <1>1, <1>4 DEF Wait, RequestInv, Request
    <2> HIDE DEF v
    <2>3. RequestInv(thread_args') BY <1>1, <1>2, <2>1, <2>2, SetFields
    <2> QED BY <1>1, <2>2, <2>3, TakeInv
  <1>5. ASSUME NEW t \in After(at), Loop(t) PROVE ArgvInv'
    <2>1. CASE t.number > 0
      <3>1. thread_args' = [thread_args EXCEPT !.loops = t.number] /\ Take(2) BY <1>5, <2>1 DEF Loop
      <3>2. t.number \in 1..MaxInt BY <1>1, <2>1, AfterType, IntTypes
      <3>3. RequestInv(thread_args') BY <1>1, <1>2, <3>1, <3>2, SetFields
      <3> QED BY <1>1, <3>1, <3>3, TakeInv
    <2>2. CASE ~(t.number > 0) BY <1>5, <2>2, ErrorInv DEF Loop
    <2> QED BY <2>1, <2>2
  <1>6. ASSUME NEW t \in After(at), MaxTmo(t) PROVE ArgvInv'
    <2>1. CASE t.number > 0
      <3>1. thread_args' = [thread_args EXCEPT !.max_timeout = t.number] /\ Take(1) BY <1>6, <2>1 DEF MaxTmo
      <3>2. t.number \in Int32Pos BY <1>1, <2>1, AfterType, IntTypes
      <3>3. RequestInv(thread_args') BY <1>1, <1>2, <3>1, <3>2, SetFields
      <3> QED BY <1>1, <3>1, <3>3, TakeInv
    <2>2. CASE ~(t.number > 0) BY <1>6, <2>2, ErrorInv DEF MaxTmo
    <2> QED BY <2>1, <2>2
  <1>7. ASSUME NEW t \in After(at), ExeTime(t) PROVE ArgvInv'
    <2>1. PICK sec \in SecondsOf(t.chars) :
             \/ /\ thread_args' = [thread_args EXCEPT !.execution_time = sec, !.loops = MaxInt]
                /\ Take(2)
             \/ Error
      BY <1>7 DEF ExeTime
    <2>2. sec \in Int32Pos BY SecondsBound
    <2>3. MaxInt \in 1..MaxInt BY SMT, MaxIntBound
    <2>4. ASSUME thread_args' = [thread_args EXCEPT !.execution_time = sec, !.loops = MaxInt]
          PROVE  RequestInv(thread_args')
      BY <1>1, <1>2, <2>2, <2>3, <2>4, SetFields
    <2> QED BY <1>1, <2>1, <2>4, TakeInv, ErrorInv
  <1>8. ASSUME NEW t \in After(at), ExeDlyTime(t) PROVE ArgvInv'
    <2>1. PICK sec \in SecondsOf(t.chars) :
             \/ /\ thread_args' = [thread_args EXCEPT !.execution_dly_time = sec]
                /\ Take(2)
             \/ Error
      BY <1>8 DEF ExeDlyTime
    <2>2. sec \in Int32Pos BY SecondsBound
    <2>3. ASSUME thread_args' = [thread_args EXCEPT !.execution_dly_time = sec]
          PROVE  RequestInv(thread_args')
      BY <1>1, <1>2, <2>2, <2>3, SetFields
    <2> QED BY <1>1, <2>1, <2>3, TakeInv, ErrorInv
  <1>9. ASSUME \/ thread_args' = [thread_args EXCEPT !.extended = TRUE]
               \/ thread_args' = [thread_args EXCEPT !.xml = TRUE]
               \/ thread_args' = [thread_args EXCEPT !.stop_on_fail = TRUE],
               Take(1)
        PROVE  ArgvInv'
    <2>1. RequestInv(thread_args') BY <1>1, <1>2, <1>9, SetFields
    <2> QED BY <1>1, <1>9, <2>1, TakeInv
  <1> QED BY <1>3, <1>4, <1>5, <1>6, <1>7, <1>8, <1>9 DEF Option

LEMMA CurrentText ==
  ASSUME command \in Seq(Token), at \in 1..Len(command)
  PROVE  Current.text \in Text
  <1>1. Current \in Token BY DEF Current
  <1>2. \A t \in Token : t.text \in STRING BY DEF Token
  <1> QED BY <1>1, <1>2 DEF Text

\* The name of what to run goes in front of the arguments.
LEMMA NameArgv ==
  ASSUME ArgvInv, Name, UNCHANGED verbose_level
  PROVE  ArgvInv'
  <1>1. /\ Parsing /\ Take(1) /\ IsName(Current) /\ thread_args \in Request
        /\ at \in 1..Len(command) /\ command \in Seq(Token)
    BY DEF Name, Parsing, ArgvInv, RequestInv
  <1>2. Current.text \in Text BY <1>1, CurrentText
  <1> DEFINE old == thread_args.args
             new == <<Current.text>> \o (IF old = <<>> THEN <<>> ELSE Append(Tail(old), NoText))
  <1>3. thread_args' = [thread_args EXCEPT !.node_name = Current.text, !.args = new]
    BY <1>1 DEF Name, Request
  <1>4. new \in Seq(Text) /\ new # <<>> /\ new[1] = Current.text
    <2>1. old \in Seq(Text) BY <1>1 DEF Request
    <2>2. NoText \in Text BY DEF Text
    <2> DEFINE rest == IF old = <<>> THEN <<>> ELSE Append(Tail(old), NoText)
    <2>3. rest \in Seq(Text)
      <3>1. CASE old = <<>> BY <3>1
      <3>2. CASE old # <<>>
        <4>1. Tail(old) \in Seq(Text) BY <2>1, <3>2
        <4>2. Append(Tail(old), NoText) \in Seq(Text) BY <4>1, <2>2
        <4> QED BY <3>2, <4>2
      <3> QED BY <3>1, <3>2
    <2>4. <<Current.text>> \in Seq(Text) /\ Len(<<Current.text>>) = 1 BY <1>2
    <2> HIDE DEF rest
    <2>5. <<Current.text>> \o rest \in Seq(Text) BY <2>3, <2>4
    <2>6. Len(<<Current.text>> \o rest) > 0 /\ (<<Current.text>> \o rest)[1] = Current.text
      BY <2>3, <2>4
    <2>7. <<Current.text>> \o rest # <<>> BY <2>6
    <2> QED BY <2>5, <2>6, <2>7 DEF rest
  <1> HIDE DEF new, old
  <1>5. thread_args' \in Request /\ thread_args'.node_name = Current.text /\ thread_args'.args = new
    BY <1>1, <1>2, <1>3, <1>4 DEF Request
  <1>6. RequestInv(thread_args') BY <1>1, <1>4, <1>5 DEF RequestInv, IsName
  <1> QED BY <1>1, <1>6, TakeInv

LEMMA ArgumentArgv ==
  ASSUME ArgvInv, Argument, UNCHANGED verbose_level
  PROVE  ArgvInv'
  <1>1. /\ Parsing /\ Take(1) /\ thread_args \in Request /\ RequestInv(thread_args)
        /\ at \in 1..Len(command) /\ command \in Seq(Token)
    BY DEF Argument, Parsing, ArgvInv, RequestInv
  <1>2. Current.text \in Text BY <1>1, CurrentText
  <1> DEFINE old == thread_args.args
             new == Append(old, Current.text)
  <1>3. thread_args' = [thread_args EXCEPT !.args = new] BY <1>1 DEF Argument, Request
  <1>4. old \in Seq(Text) /\ new \in Seq(Text) BY <1>1, <1>2 DEF Request
  <1>5. old # <<>> => new # <<>> /\ new[1] = old[1] BY <1>2, <1>4
  <1> HIDE DEF new
  <1>6. thread_args' \in Request /\ thread_args'.node_name = thread_args.node_name /\ thread_args'.args = new
    BY <1>1, <1>3, <1>4 DEF Request
  <1>7. RequestInv(thread_args') BY <1>1, <1>5, <1>6 DEF RequestInv
  <1> QED BY <1>1, <1>7, TakeInv

LEMMA ParseOptionsArgv == ASSUME ArgvInv, ParseOptions PROVE ArgvInv'
  <1>1. CASE AllParsed
    <2>1. CASE Error BY <2>1, ErrorInv DEF ParseOptions
    <2>2. CASE pc' = "exec" /\ UNCHANGED <<command, at, thread_args, answer>> /\ thread_args.node_name # NoText
      BY <2>2, SameArgv DEF ParseOptions, PC
    <2> QED BY <1>1, <2>1, <2>2 DEF AllParsed
  <1> QED BY <1>1, OptionArgv, NameArgv, ArgumentArgv DEF ParseOptions

LEMMA UtilityArgv ==
  ASSUME ArgvInv,
         \/ Serve \/ Informs \/ MayFail \/ Looks \/ SetVerboseLevel \/ Step \/ GroupFromFile
         \/ UtilityEnds \/ Exec \/ StepRuns \/ StepUser \/ StepQuit \/ FileRead
  PROVE  ArgvInv'
  <1>1. CASE Serve \/ StepRuns \/ StepUser \/ StepQuit \/ FileRead
    <2>1. /\ UNCHANGED <<command, at, thread_args, answer, verbose_level>>
          /\ pc' \in {"idle", "step"} \/ (pc' = pc /\ pc \in {"startup", "file"})
      BY <1>1 DEF Serve, StepRuns, StepUser, StepQuit, FileRead, commandVars
    <2> QED BY <2>1, SameArgv DEF PC
  <1>2. CASE Informs \/ MayFail \/ Looks \/ UtilityEnds \/ Exec
    <2>1. /\ UNCHANGED verbose_level
          /\ \E a \in {"TESTBOX_OK", "TESTBOX_ERROR", "TESTBOX_PASS", "TESTBOX_FAIL"} : Reply(a)
      BY <1>2 DEF Informs, MayFail, Looks, UtilityEnds, Exec, OK, Error
    <2>2. verbose_level' \in Levels BY <2>1 DEF ArgvInv
    <2> QED BY <2>1, <2>2, ReplyInv
  <1>3. CASE SetVerboseLevel
    <2>1. /\ verbose_level' \in Levels \/ UNCHANGED verbose_level
          /\ \E a \in {"TESTBOX_OK", "TESTBOX_ERROR", "TESTBOX_PASS", "TESTBOX_FAIL"} : Reply(a)
      BY <1>3 DEF SetVerboseLevel, OK, Error
    <2>2. verbose_level' \in Levels BY <2>1 DEF ArgvInv
    <2> QED BY <2>1, <2>2, ReplyInv
  <1>4. CASE Step \/ GroupFromFile
    <2>1. /\ UNCHANGED verbose_level
          /\ Error \/ (pc' \in {"step", "file"} /\ UNCHANGED <<command, at, thread_args, answer>>)
      BY <1>4 DEF Step, GroupFromFile
    <2>2. CASE Error BY <2>1, <2>2, ErrorInv
    <2>3. CASE pc' \in {"step", "file"} /\ UNCHANGED <<command, at, thread_args, answer>>
      BY <2>1, <2>3, SameArgv DEF PC
    <2> QED BY <2>1, <2>2, <2>3
  <1> QED BY <1>1, <1>2, <1>3, <1>4

LEMMA NextArgv == ASSUME ArgvInv, [Next]_vars PROVE ArgvInv'
  <1>1. CASE UNCHANGED vars
    <2>1. UNCHANGED <<pc, command, at, thread_args, answer, verbose_level>>
      BY <1>1 DEF vars, commandVars
    <2> QED BY <2>1, SameArgv DEF ArgvInv
  <1> QED BY <1>1, ParseOptionsArgv, UtilityArgv, ReceiveArgv DEF Next, Parser

LEMMA InitArgv == ASSUME Init PROVE ArgvInv
  <1>1. TB_VERB_OFF \in Levels BY DEF Levels, TB_VERB_OFF, TB_VERB_OFF_LOG
  <1>2. RequestInv(thread_args) BY <1>1, DefaultRequest DEF Init, NoArgs
  <1>3. command \in Seq(Token) /\ Len(command) = 0 /\ at = 0 BY DEF Init
  <1>4. verbose_level \in Levels BY CommandAssumption DEF Init
  <1> QED BY <1>2, <1>3, <1>4 DEF Init, ArgvInv, PC

\* Every request has a positive number of loops, times that fit an int and the name
\* of what it runs in front of its arguments, whatever was written; the cursor of
\* step mode and the parsers of files stay inside what they read.
THEOREM CommandTyped == Spec => []CommandTypeOK
  <1>1. ASSUME ArgvInv, PartsInv PROVE CommandTypeOK
    <2>1. StepTypeOK /\ FileTypeOK BY <1>1 DEF PartsInv, StepInv, FileInv
    <2>2. /\ thread_args.verbose \in Levels /\ thread_args.loops \in 1..MaxInt
          /\ {thread_args.max_timeout, thread_args.execution_time, thread_args.execution_dly_time}
                \subseteq 0..MaxInt
      BY <1>1 DEF ArgvInv, RequestInv, Request, Int32Pos
    <2>3. pc = "exec" => thread_args.node_name \in DOMAIN Names \cap {thread_args.args[1]}
      BY <1>1 DEF ArgvInv, RequestInv
    <2> QED BY <1>1, <2>1, <2>2, <2>3 DEF ArgvInv, CommandTypeOK
  <1> QED BY <1>1, InitArgv, NextArgv, InitParts, NextParts, PTL DEF Spec

=============================================================================
