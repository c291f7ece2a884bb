--------------------------- MODULE GroupFileProofs ---------------------------
(***************************************************************************)
(* Lemmas about GroupFile, for files of any length, any number of lines in *)
(* the configuration files and paths of any length.  CmdParse reads files  *)
(* with these actions, and CmdParseProofs draws the conclusions for its    *)
(* specification.                                                          *)
(***************************************************************************)
EXTENDS GroupFile, WellFoundedInduction, SequenceTheorems, TLAPS

----------------------------------------------------------------------------
(* Smallest and largest elements of sets of numbers.                      *)

\* A set of natural numbers has a smallest element.
LEMMA SmallestExists ==
  ASSUME NEW S \in SUBSET Nat, S # {}
  PROVE  Min(S) \in S /\ \A y \in S : Min(S) <= y
  <1> DEFINE Less == {ij \in Nat \X Nat : ij[1] < ij[2]}
  <1>1. IsWellFoundedOn(Less, Nat)
    BY NatLessThanWellFounded DEF OpToRel
  <1>2. PICK x \in S : \A y \in S : ~(<<y, x>> \in Less)
    <2> HIDE DEF Less
    <2> QED BY <1>1, WFMin
  <1>3. ASSUME NEW y \in S PROVE x <= y
    <2>1. <<y, x>> \in Nat \X Nat /\ ~(<<y, x>> \in Less) BY <1>2
    <2>2. ~(y < x) BY <2>1
    <2> QED BY <2>2
  <1> QED BY <1>3 DEF Min

\* Numbers that are bounded have a largest one.
LEMMA LargestExists ==
  ASSUME NEW n \in Nat, NEW S \in SUBSET (0..n), S # {}
  PROVE  Max(S) \in S /\ \A y \in S : y <= Max(S)
  <1> DEFINE T == {n - y : y \in S}
  <1>1. T \in SUBSET Nat /\ T # {}
    <2>1. \A y \in S : n - y \in Nat OBVIOUS
    <2>2. T # {} OBVIOUS
    <2> QED BY <2>1, <2>2
  <1>2. Min(T) \in T BY <1>1, SmallestExists
  <1>3. \A t \in T : Min(T) <= t BY <1>1, SmallestExists
  <1>4. PICK x \in S : Min(T) = n - x BY <1>2
  <1>5. \A y \in S : y <= x
    <2> TAKE y \in S
    <2>1. n - y \in T OBVIOUS
    <2>2. n - x <= n - y BY <1>3, <1>4, <2>1
    <2> QED BY <2>2
  <1>6. \E z \in S : \A y \in S : z >= y BY <1>5
  <1> QED BY <1>6 DEF Max

----------------------------------------------------------------------------
(* Where the parsers stand.                                               *)

\* No group file is read, or one is read by the innermost parser.
NoFile == level \in {"conf", "none"} \/ (level \in {"env", "crashed"} /\ pos = 0)
InCase == level = "case" \/ (level = "env" /\ pos > 0)

Blank == file = <<>> /\ pos = 0 /\ group = 0 /\ suite = 0 /\ members = {} /\ tests = {} /\ descr = {}

\* Nothing is left over between two files; a suite is read inside a group, cases
\* inside a suite that was added; files are read after the libraries.
FileInv ==
    /\ FileTypeOK
    /\ NoFile => Blank
    /\ level = "suite" => group > 0
    /\ InCase => group > 0 /\ suite > 0 /\ <<group, suite>> \in members
    /\ conf = "libs" => NoFile
    /\ level = "none" => conf = "none"

LEMMA FileInitInv == FileInit => FileInv
  BY DEF FileInit, FileInv, FileTypeOK, NoFile, InCase, Blank

LEMMA FileStutterInv == ASSUME FileInv, UNCHANGED fileVars PROVE FileInv'
  BY DEF fileVars, parseVars, FileInv, FileTypeOK, NoFile, InCase, Blank

----------------------------------------------------------------------------
(* Paths.                                                                  *)

PathTypeOK == orig_path \in Seq(PathParts) /\ path \in Seq(PathParts) /\ envpath \in Seq(PathParts)

\* The first of the places where a variable is named.
LEMMA FirstVarPlace ==
  ASSUME NEW p \in Seq(PathParts), Mentions(p, Var)
  PROVE  FirstVar(p) \in 1..Len(p)
  <1> DEFINE I == {j \in 1..Len(p) : p[j] = Var}
  <1>1. I # {} BY DEF Mentions, Range
  <1>2. FirstVar(p) = Min(I) BY <1>1 DEF FirstVar, SelectInSeq
  <1>3. I \in SUBSET Nat OBVIOUS
  <1>4. Min(I) \in I BY <1>1, <1>3, SmallestExists
  <1> QED BY <1>2, <1>4

\* What is put together from a path and a value is a path.
LEMMA ReplacedIsPath ==
  ASSUME NEW p \in Seq(PathParts), NEW v \in Seq(PathParts), Mentions(p, Var)
  PROVE  ReplaceFirst(p, v) \in Seq(PathParts)
  <1>1. FirstVar(p) \in 1..Len(p) BY FirstVarPlace
  <1>2. /\ SubSeq(p, 1, FirstVar(p) - 1) \in Seq(PathParts)
        /\ SubSeq(p, FirstVar(p) + 1, Len(p)) \in Seq(PathParts)
    BY <1>1
  <1> QED BY <1>2 DEF ReplaceFirst

LEMMA ReadPathType == ASSUME NEW p \in Paths, ReadPath(p) PROVE PathTypeOK'
  <1>1. Unset \in Seq(PathParts) BY DEF Unset, PathParts
  <1>2. Values \subseteq Seq(PathParts) BY FileAssumption
  <1> QED BY <1>1, <1>2, FileAssumption DEF ReadPath, PathTypeOK

LEMMA PathUsedType == ASSUME PathUsed PROVE PathTypeOK'
  BY DEF PathUsed, PathTypeOK

----------------------------------------------------------------------------
(* FileInv, by the action.                                                 *)

\* What FileInv says of the lines read so far.
LEMMA FileInvFacts ==
  ASSUME FileInv
  PROVE  /\ file \in Seq(LineKinds) /\ pos \in Nat /\ Len(file) \in Nat /\ pos <= Len(file)
         /\ group \in 0..pos /\ suite \in 0..pos
         /\ conf \in {"libs", "groups", "none"}
         /\ PathTypeOK
  BY DEF FileInv, FileTypeOK, PathTypeOK

\* A path is read, changed or used; the file stays.
LEMMA ReplaceInv == ASSUME FileInv, Replace PROVE FileInv'
  <1>1. path' \in Seq(PathParts)
    <2>1. Mentions(path, Var) /\ path \in Seq(PathParts) /\ envpath \in Seq(PathParts)
      BY FileInvFacts DEF Replace, Expanding, PathTypeOK
    <2> QED BY <2>1, ReplacedIsPath DEF Replace
  <1> QED BY <1>1 DEF Replace, parseVars, FileInv, FileTypeOK, NoFile, InCase, Blank

LEMMA ConfInv ==
  ASSUME FileInv,
         (\E p \in Paths : ConfLine(p)) \/ ConfEnd \/ LoadLib
  PROVE  FileInv'
  <1>1. CASE \E p \in Paths : ConfLine(p)
    <2>1. PathTypeOK' BY <1>1, ReadPathType DEF ConfLine
    <2>2. level = "conf" /\ level' = "env" /\ UNCHANGED <<conf, file, pos, parseVars>>
      BY <1>1 DEF ConfLine, ReadPath
    <2> QED BY <2>1, <2>2 DEF parseVars, FileInv, FileTypeOK, PathTypeOK, NoFile, InCase, Blank
  <1>2. CASE ConfEnd
    BY <1>2 DEF ConfEnd, parseVars, pathVars, FileInv, FileTypeOK, NoFile, InCase, Blank
  <1>3. CASE LoadLib
    <2>1. PathTypeOK' BY <1>3, PathUsedType DEF LoadLib
    <2>2. level = "env" /\ level' = "conf" /\ conf = "libs" /\ UNCHANGED <<conf, file, pos, parseVars>>
      BY <1>3 DEF LoadLib, Expanded
    <2> QED BY <2>1, <2>2 DEF parseVars, FileInv, FileTypeOK, PathTypeOK, NoFile, InCase, Blank
  <1> QED BY <1>1, <1>2, <1>3

\* A file is opened where none is read.
LEMMA OpenFileInv ==
  ASSUME FileInv, NoFile, conf # "libs", OpenFile, PathTypeOK'
  PROVE  FileInv'
  BY FileAssumption DEF OpenFile, parseVars, FileInv, FileTypeOK, PathTypeOK, NoFile, InCase, Blank

LEMMA ConfFileInv == ASSUME FileInv, ConfFile PROVE FileInv'
  <1>1. /\ NoFile /\ conf = "groups" /\ level = "env" /\ PathTypeOK'
    BY PathUsedType DEF ConfFile, Expanded, NoFile
  <1>2. CASE OpenFile
    BY <1>1, <1>2, OpenFileInv
  <1>3. CASE level' = "conf" /\ UNCHANGED <<conf, file, pos, parseVars>>
    BY <1>1, <1>3 DEF parseVars, FileInv, FileTypeOK, PathTypeOK, NoFile, InCase, Blank
  <1> QED BY <1>2, <1>3 DEF ConfFile

\* The parser goes on to the next line.
LEMMA LineFacts ==
  ASSUME FileInv, NEW l \in {"group", "suite", "case"}, NEW kinds, AtLine(l, kinds)
  PROVE  /\ level = l /\ pos' = pos + 1 /\ pos' \in 1..Len(file) /\ Line \in kinds
         /\ ~NoFile /\ conf # "libs"
  BY FileInvFacts DEF AtLine, FileInv, FileTypeOK, NoFile

LEMMA GroupLineInv == ASSUME FileInv, GroupLine PROVE FileInv'
  <1>1. /\ level = "group" /\ pos' = pos + 1 /\ pos' \in 1..Len(file) /\ ~NoFile /\ conf # "libs"
    BY LineFacts DEF GroupLine
  <1>2. /\ level' = "suite" /\ group' = pos' /\ suite' = 0
        /\ UNCHANGED <<conf, file, members, tests, descr, orig_path, envpath, path>>
    BY DEF GroupLine, LevelGoes, pathVars
  <1>3. \A s \in members : s \in (1..pos') \X (1..pos') BY <1>1 DEF FileInv, FileTypeOK
  <1> QED BY <1>1, <1>2, <1>3 DEF FileInv, FileTypeOK, NoFile, InCase, Blank

LEMMA FileEndInv == ASSUME FileInv, FileEnd PROVE FileInv'
  BY DEF FileEnd, AtEnd, pathVars, FileInv, FileTypeOK, NoFile, InCase, Blank

\* A line that changes neither group nor suite, read where the parser for it stays
\* or goes outside.
LEMMA PlainLineInv ==
  ASSUME FileInv, NEW l \in {"group", "suite", "case"}, NEW kinds, AtLine(l, kinds),
         NEW m \in {"group", "suite", "case", "crashed"}, LevelGoes(m),
         UNCHANGED <<group, suite, members>>,
         \A t \in tests' : t \in tests \/ t = <<suite, pos'>>,
         l = "case" \/ tests' = tests,
         m = "suite" => l \in {"suite", "case"}, m = "case" => l = "case"
  PROVE  FileInv'
  <1>1. /\ level = l /\ pos' = pos + 1 /\ pos' \in 1..Len(file) /\ ~NoFile /\ conf # "libs"
    BY LineFacts
  <1>2. /\ level' = m /\ UNCHANGED <<conf, file, orig_path, envpath, path>>
    BY DEF LevelGoes, pathVars
  <1>3. \A s \in members : s \in (1..pos') \X (1..pos') BY <1>1 DEF FileInv, FileTypeOK
  <1>4. \A t \in tests' : t[1] \in {s[2] : s \in members}
    <2>1. l = "case" => suite \in {s[2] : s \in members} BY <1>1 DEF FileInv, InCase
    <2> QED BY <2>1 DEF FileInv, FileTypeOK
  <1> QED BY <1>1, <1>2, <1>3, <1>4 DEF FileInv, FileTypeOK, NoFile, InCase, Blank

LEMMA SuiteLineInv == ASSUME FileInv, SuiteLine PROVE FileInv'
  <1>1. /\ level = "suite" /\ pos' = pos + 1 /\ pos' \in 1..Len(file) /\ ~NoFile /\ conf # "libs"
    BY LineFacts DEF SuiteLine
  <1>2. /\ suite' = (IF Line = "SUITE" THEN pos' ELSE suite) /\ suite' \in 0..pos'
        /\ group' = group /\ group \in 1..pos /\ tests' = tests
    BY <1>1 DEF SuiteLine, FileInv, FileTypeOK
  <1>3. \A s \in members : s \in (1..pos') \X (1..pos') BY <1>1 DEF FileInv, FileTypeOK
  <1>4. CASE suite' # 0 /\ LevelGoes("case") /\ members' = members \cup {<<group, suite'>>}
    <2>1. level' = "case" /\ UNCHANGED <<conf, file, orig_path, envpath, path>>
      BY <1>4 DEF LevelGoes, pathVars
    <2>2. \A s \in members' : s \in (1..pos') \X (1..pos')
      <3>1. suite' \in 1..pos' /\ group \in 1..pos' BY <1>1, <1>2, <1>4, FileInvFacts
      <3>2. <<group, suite'>> \in (1..pos') \X (1..pos') BY <3>1
      <3> QED BY <1>3, <1>4, <3>2
    <2>3. \A t \in tests : t[1] \in {s[2] : s \in members'}
      BY <1>4 DEF FileInv, FileTypeOK
    <2> QED BY <1>1, <1>2, <1>4, <2>1, <2>2, <2>3 DEF FileInv, FileTypeOK, NoFile, InCase, Blank
  <1>5. CASE suite' = 0 /\ LevelGoes("group") /\ UNCHANGED members
    <2>1. level' = "group" /\ UNCHANGED <<conf, file, orig_path, envpath, path>>
      BY <1>5 DEF LevelGoes, pathVars
    <2> QED BY <1>1, <1>2, <1>3, <1>5, <2>1 DEF FileInv, FileTypeOK, NoFile, InCase, Blank
  <1> QED BY <1>4, <1>5 DEF SuiteLine

LEMMA ExecLineInv == ASSUME FileInv, NEW p \in Paths, ExecLine(p) PROVE FileInv'
  <1>1. /\ level = "case" /\ pos' = pos + 1 /\ pos' \in 1..Len(file) /\ ~NoFile /\ conf # "libs"
    BY LineFacts DEF ExecLine
  <1>2. PathTypeOK' BY ReadPathType DEF ExecLine
  <1>3. /\ level' = "env" /\ UNCHANGED <<conf, file, group, suite, members, tests, descr>>
    BY DEF ExecLine, ReadPath, parseVars
  <1>4. \A s \in members : s \in (1..pos') \X (1..pos') BY <1>1 DEF FileInv, FileTypeOK
  <1> QED BY <1>1, <1>2, <1>3, <1>4 DEF FileInv, FileTypeOK, PathTypeOK, NoFile, InCase, Blank

LEMMA AddExecInv == ASSUME FileInv, AddExec PROVE FileInv'
  <1>1. /\ level = "env" /\ pos > 0 /\ level' = "case"
        /\ UNCHANGED <<conf, file, pos, group, suite, members, descr>>
        /\ tests' = tests \/ tests' = tests \cup {<<suite, pos>>}
    BY DEF AddExec, Expanded
  <1>2. PathTypeOK' BY PathUsedType DEF AddExec
  <1>3. InCase /\ InCase' /\ ~NoFile /\ ~NoFile' BY <1>1, FileInvFacts DEF InCase, NoFile
  <1>4. <<group, suite>> \in members BY <1>3 DEF FileInv
  <1>5. \A t \in tests' : t[1] \in {s[2] : s \in members'}
    BY <1>1, <1>4 DEF FileInv, FileTypeOK
  <1> QED BY <1>1, <1>2, <1>3, <1>5 DEF FileInv, FileTypeOK, PathTypeOK

\* The program has no directory in front of its name.
LEMMA NoSlashInv == ASSUME FileInv, NoSlash PROVE FileInv'
  <1>1. /\ level = "env" /\ pos > 0 /\ level' = "crashed"
        /\ UNCHANGED <<conf, file, pos, group, suite, members, tests, descr>>
    BY DEF NoSlash, Expanded, parseVars
  <1>2. PathTypeOK' BY PathUsedType DEF NoSlash
  <1>3. ~InCase' /\ ~NoFile /\ ~NoFile' BY <1>1, FileInvFacts DEF InCase, NoFile
  <1> QED BY <1>1, <1>2, <1>3 DEF FileInv, FileTypeOK, PathTypeOK

LEMMA EndInsideInv == ASSUME FileInv, EndInside PROVE FileInv'
  BY DEF EndInside, AtEnd, LevelGoes, pathVars, parseVars, FileInv, FileTypeOK, NoFile, InCase, Blank

\* Reading files keeps the invariant, whatever is in them.
LEMMA FileStepInv == ASSUME FileInv, FileStep PROVE FileInv'
  <1>1. CASE GroupEnds
    BY <1>1, PlainLineInv DEF GroupEnds, parseVars
  <1>2. CASE DescrLine
    BY <1>2, PlainLineInv DEF DescrLine
  <1>3. CASE TestLine
    BY <1>3, PlainLineInv DEF TestLine
  <1>4. CASE SuiteEnds
    BY <1>4, PlainLineInv DEF SuiteEnds, parseVars
  <1>5. CASE Skip
    <2>1. PICK l \in {"group", "suite", "case"} :
              AtLine(l, LineKinds \ Known[l]) /\ LevelGoes(l) /\ UNCHANGED parseVars
      BY <1>5 DEF Skip, Known
    <2> QED BY <2>1, PlainLineInv DEF parseVars
  <1>6. CASE Unclosed
    <2>1. PICK l \in {"group", "suite", "case"} :
              AtLine(l, {"unclosed"}) /\ LevelGoes("crashed") /\ UNCHANGED parseVars
      BY <1>6 DEF Unclosed, Known
    <2> QED BY <2>1, PlainLineInv DEF parseVars
  <1>7. CASE \E p \in Paths : ConfLine(p) \/ ExecLine(p)
    BY <1>7, ConfInv, ExecLineInv
  <1>8. CASE NoTest
    BY <1>8, PlainLineInv DEF NoTest, parseVars
  <1> QED
    BY <1>1, <1>2, <1>3, <1>4, <1>5, <1>6, <1>7, <1>8, ReplaceInv, ConfInv, ConfFileInv, GroupLineInv,
       FileEndInv, SuiteLineInv, AddExecInv, NoSlashInv, EndInsideInv DEF FileStep

----------------------------------------------------------------------------
(* What a file means that keeps to the grammar.                            *)

\* Line j is the last before line p + 1 that is no comment, and is of these kinds.
LastIn(kinds, p) == \E j \in 1..p : file[j] \in kinds /\ Follows(j, p + 1)

\* Line o is the last of its kind before line p + 1.
Open(o, outer, p) == o \in 1..p /\ file[o] = outer /\ \A y \in (o + 1)..p : file[y] # outer

\* The part of a relation between lines that is known after line p; of several
\* second lines the latest.
Upto(S, p) == {d \in S : d[2] <= p}
LastDescr(S) == {d \in S : \A e \in S : e[1] = d[1] => e[2] <= d[2]}

SuiteLines == {"SUITE", "DESCR", "TC", "EXEC"}

\* Each parser is called where the grammar expects its lines, for the group and the
\* suite that are open.
LevelMeans(l, p, g, s) ==
    LET inCase == l = "case" \/ (l = "env" /\ p > 0)
    IN /\ l # "crashed"
       /\ l = "group" => Follows(0, p + 1) \/ LastIn({"END_GROUP"}, p)
       /\ l = "suite" => LastIn({"GROUP", "END_SUITE"}, p)
       /\ inCase => LastIn(SuiteLines, p)
       /\ l = "env" /\ p > 0 => file[p] = "EXEC"
       /\ l = "suite" \/ inCase => Open(g, "GROUP", p)
       /\ inCase => Open(s, "SUITE", p)

\* What was added is what the lines so far mean; a program when its path is known.
AddedMeans(l, p, m, t, d) ==
    /\ m = Upto(Inside({"SUITE"}, "GROUP"), p)
    /\ t = Upto(Inside({"TC", "EXEC"}, "SUITE"), IF l = "env" THEN p - 1 ELSE p)
    /\ d = LastDescr(Upto(Inside({"DESCR"}, "SUITE"), p))

Means == /\ LevelMeans(level, pos, group, suite)
         /\ AddedMeans(level, pos, members, tests, descr)

MeansInv == WellFormedFile /\ ~NoFile => Means

\* A comment changes nothing.
LEMMA OtherLine ==
  ASSUME file \in Seq(LineKinds), NEW p \in Nat, file[p + 1] = "other"
  PROVE  /\ Follows(0, p + 1) => Follows(0, p + 2)
         /\ \A kinds : LastIn(kinds, p) => LastIn(kinds, p + 1)
         /\ \A o, outer : Open(o, outer, p) /\ outer # "other" => Open(o, outer, p + 1)
  <1>1. ASSUME NEW j \in 0..p, Follows(j, p + 1) PROVE Follows(j, p + 2)
    BY <1>1 DEF Follows
  <1>2. ASSUME NEW kinds, LastIn(kinds, p) PROVE LastIn(kinds, p + 1)
    <2>1. PICK j \in 1..p : file[j] \in kinds /\ Follows(j, p + 1) BY <1>2 DEF LastIn
    <2>2. Follows(j, p + 2) BY <1>1, <2>1
    <2>3. j \in 1..(p + 1) /\ (p + 1) + 1 = p + 2 OBVIOUS
    <2> QED BY <2>1, <2>2, <2>3 DEF LastIn
  <1> QED BY <1>1, <1>2 DEF Open

\* Any other line is the last.
LEMMA NewLast ==
  ASSUME NEW p \in Nat, NEW kinds, file[p + 1] \in kinds
  PROVE  LastIn(kinds, p + 1)
  <1>1. Follows(p + 1, (p + 1) + 1) BY DEF Follows
  <1> QED BY <1>1 DEF LastIn

\* What the grammar says of the next line, given the last one.
LEMMA NextFits ==
  ASSUME WellFormedFile, file \in Seq(LineKinds), NEW p \in Nat, p < Len(file),
         file[p + 1] # "other", NEW kinds, LastIn(kinds, p), "other" \notin kinds
  PROVE  \E kind \in kinds : kind \in DOMAIN MayFollow /\ file[p + 1] \in MayFollow[kind]
  <1>1. PICK j \in 1..p : file[j] \in kinds /\ Follows(j, p + 1) BY DEF LastIn
  <1>2. p + 1 \in DOMAIN file /\ j \in DOMAIN file /\ j \in 1..((p + 1) - 1) OBVIOUS
  <1>3. file[j] \in DOMAIN MayFollow BY <1>1, <1>2 DEF WellFormedFile
  <1>4. file[p + 1] \in MayFollow[file[j]] BY <1>1, <1>2 DEF WellFormedFile
  <1> QED BY <1>1, <1>3, <1>4

\* At the end of the file the last line ends a group.
LEMMA EndFits ==
  ASSUME WellFormedFile, file \in Seq(LineKinds), NEW kinds, LastIn(kinds, Len(file)),
         "other" \notin kinds
  PROVE  "END_GROUP" \in kinds
  BY DEF LastIn, WellFormedFile

----------------------------------------------------------------------------
(* The relations between lines, one line on.                               *)

LEMMA InsideSame ==
  ASSUME file \in Seq(LineKinds), NEW p \in Nat, NEW kinds, NEW outer, file[p + 1] \notin kinds
  PROVE  Upto(Inside(kinds, outer), p + 1) = Upto(Inside(kinds, outer), p)
  BY DEF Upto, Inside

LEMMA InsideNew ==
  ASSUME file \in Seq(LineKinds), NEW p \in Nat, p < Len(file), NEW kinds, NEW outer,
         file[p + 1] \in kinds, NEW o, Open(o, outer, p)
  PROVE  Upto(Inside(kinds, outer), p + 1) = Upto(Inside(kinds, outer), p) \cup {<<o, p + 1>>}
  <1> DEFINE I == Inside(kinds, outer)
  <1>1. o \in 1..p /\ p + 1 \in DOMAIN file /\ o \in DOMAIN file BY DEF Open
  <1>2. <<o, p + 1>> \in I BY <1>1 DEF Open, Inside
  <1>3. ASSUME NEW d \in I, d[2] = p + 1 PROVE d = <<o, p + 1>>
    <2>1. /\ d \in (DOMAIN file) \X (DOMAIN file) /\ d[1] < p + 1 /\ file[d[1]] = outer
          /\ \A y \in (d[1] + 1)..p : file[y] # outer
      BY <1>3 DEF Inside
    <2>2. d[1] \in 1..p BY <2>1
    <2>3. ~(o < d[1]) BY <1>1, <2>1, <2>2 DEF Open
    <2>4. ~(d[1] < o) BY <1>1, <2>1, <2>2 DEF Open
    <2>5. d[1] = o BY <1>1, <2>2, <2>3, <2>4
    <2> QED BY <1>3, <2>1, <2>5
  <1>4. \A d \in I : d[2] \in Nat BY DEF Inside
  <1>5. \A d \in I : d[2] <= p + 1 <=> d[2] <= p \/ d[2] = p + 1 BY <1>4
  <1> HIDE DEF I
  <1>6. ASSUME NEW d \in Upto(I, p + 1) PROVE d \in Upto(I, p) \cup {<<o, p + 1>>}
    BY <1>3, <1>5, <1>6 DEF Upto
  <1>7. ASSUME NEW d \in Upto(I, p) PROVE d \in Upto(I, p + 1)
    BY <1>5, <1>7 DEF Upto
  <1>8. <<o, p + 1>> \in Upto(I, p + 1) BY <1>2, <1>5 DEF Upto
  <1>9. Upto(I, p + 1) = Upto(I, p) \cup {<<o, p + 1>>} BY <1>6, <1>7, <1>8
  <1> QED BY <1>9 DEF I

LEMMA InsideAll ==
  ASSUME file \in Seq(LineKinds), NEW kinds, NEW outer
  PROVE  Upto(Inside(kinds, outer), Len(file)) = Inside(kinds, outer)
  BY DEF Upto, Inside

LEMMA InsideNone ==
  ASSUME NEW kinds, NEW outer, file \in Seq(LineKinds)
  PROVE  Upto(Inside(kinds, outer), 0) = {}
  BY DEF Upto, Inside

\* The later description of a suite replaces the one before.
Redescribed(L, s, q) == {d \in L : d[1] # s} \cup {<<s, q>>}

LEMMA LatestNew ==
  ASSUME NEW S, NEW s, NEW q \in Nat,
         \A d \in S : d = <<d[1], d[2]>> /\ d[2] \in Nat /\ d[2] < q
  PROVE  LastDescr(S \cup {<<s, q>>}) = Redescribed(LastDescr(S), s, q)
  <1> DEFINE n == <<s, q>>
  <1>1. n \in LastDescr(S \cup {n}) BY DEF LastDescr
  <1>2. ASSUME NEW d \in LastDescr(S \cup {n}) PROVE d = n \/ (d \in LastDescr(S) /\ d[1] # s)
    <2>1. CASE d \in S
      <3>1. n \in S \cup {n} /\ n[1] = s /\ n[2] = q OBVIOUS
      <3>2. s = d[1] => q <= d[2] BY <1>2, <3>1 DEF LastDescr
      <3>3. d[2] \in Nat /\ d[2] < q BY <2>1
      <3>4. d[1] # s BY <3>2, <3>3
      <3> QED BY <1>2, <2>1, <3>4 DEF LastDescr
    <2> QED BY <1>2, <2>1 DEF LastDescr
  <1>3. ASSUME NEW d \in LastDescr(S), d[1] # s PROVE d \in LastDescr(S \cup {n})
    BY <1>3 DEF LastDescr
  <1> QED BY <1>1, <1>2, <1>3 DEF Redescribed

----------------------------------------------------------------------------
(* MeansInv, by the action.                                                *)

MeansNext == /\ LevelMeans(level', pos', group', suite')
             /\ AddedMeans(level', pos', members', tests', descr')

\* The meaning of a file does not change while it is read.
LEMMA SameFile ==
  ASSUME file' = file, WellFormedFile => MeansNext
  PROVE  MeansInv'
  BY DEF MeansInv, Means, MeansNext, LevelMeans, AddedMeans, LastIn, Open, Follows, Inside, WellFormedFile

\* Nothing is read yet.
LEMMA OpenMeans ==
  ASSUME file' \in Seq(LineKinds), level' = "group", pos' = 0,
         members' = {}, tests' = {}, descr' = {}
  PROVE  MeansInv'
  BY DEF MeansInv, Means, LevelMeans, AddedMeans, LastIn, Open, Follows, Inside, Upto, LastDescr

\* A line that adds nothing.
LEMMA SameAdded ==
  ASSUME file \in Seq(LineKinds), pos \in Nat, AddedMeans(level, pos, members, tests, descr),
         Line \notin {"SUITE", "TC", "EXEC", "DESCR"}, level # "env",
         NEW l, l # "env"
  PROVE  AddedMeans(l, pos + 1, members, tests, descr)
  <1>1. file[pos + 1] \notin {"SUITE"} /\ file[pos + 1] \notin {"TC", "EXEC"} /\ file[pos + 1] \notin {"DESCR"}
    BY DEF Line
  <1> QED BY <1>1, InsideSame DEF AddedMeans

\* The line that is read is one the parser at its level knows.
LEMMA LineFits ==
  ASSUME FileInv, WellFormedFile, Means, NEW l \in {"group", "suite", "case"}, NEW kinds, AtLine(l, kinds)
  PROVE  Line = "other" \/ (Line \in Known[l] /\ Line \in DOMAIN MayFollow)
  <1>1. /\ level = l /\ pos + 1 \in 1..Len(file) /\ pos \in Nat /\ file \in Seq(LineKinds)
    BY LineFacts, FileInvFacts
  <1>2. Line # "other" => Line \in DOMAIN MayFollow BY <1>1 DEF WellFormedFile, Line
  <1>3. CASE l = "group"
    <2>1. CASE Follows(0, pos + 1)
      BY <1>1, <1>2, <1>3, <2>1 DEF WellFormedFile, Line, Known
    <2>2. CASE LastIn({"END_GROUP"}, pos)
      <3>1. Line # "other" => Line \in MayFollow["END_GROUP"]
        BY <1>1, <2>2, NextFits DEF Line
      <3> QED BY <1>2, <1>3, <3>1 DEF MayFollow, Known
    <2> QED BY <1>1, <1>3, <2>1, <2>2 DEF Means, LevelMeans
  <1>4. CASE l = "suite"
    <2>1. LastIn({"GROUP", "END_SUITE"}, pos) BY <1>1, <1>4 DEF Means, LevelMeans
    <2>2. Line # "other" => Line \in MayFollow["GROUP"] \/ Line \in MayFollow["END_SUITE"]
      BY <1>1, <2>1, NextFits DEF Line
    <2> QED BY <1>2, <1>4, <2>2 DEF MayFollow, Known
  <1>5. CASE l = "case"
    <2>1. LastIn(SuiteLines, pos) /\ "other" \notin SuiteLines
      BY <1>1, <1>5 DEF Means, LevelMeans, SuiteLines
    <2>2. Line # "other" => \E kind \in SuiteLines : Line \in MayFollow[kind]
      BY <1>1, <2>1, NextFits DEF Line
    <2>3. \A kind \in SuiteLines : MayFollow[kind] = SuiteParts BY DEF SuiteLines, MayFollow
    <2>4. SuiteParts \subseteq Known["case"] BY DEF SuiteParts, Known
    <2> QED BY <1>2, <1>5, <2>2, <2>3, <2>4
  <1> QED BY <1>3, <1>4, <1>5

LEMMA GroupLineMeans ==
  ASSUME FileInv, WellFormedFile, Means, GroupLine
  PROVE  MeansNext
  <1>1. /\ level = "group" /\ pos' = pos + 1 /\ pos \in Nat /\ file \in Seq(LineKinds) /\ Line = "GROUP"
    BY LineFacts, FileInvFacts DEF GroupLine
  <1>2. level' = "suite" /\ group' = pos + 1 /\ UNCHANGED <<members, tests, descr>>
    BY <1>1 DEF GroupLine, LevelGoes
  <1>3. LastIn({"GROUP", "END_SUITE"}, pos + 1) BY <1>1, NewLast DEF Line
  <1>4. Open(pos + 1, "GROUP", pos + 1) BY <1>1 DEF Open, Line
  <1>5. AddedMeans("suite", pos + 1, members, tests, descr) BY <1>1, SameAdded DEF Means
  <1> QED BY <1>1, <1>2, <1>3, <1>4, <1>5 DEF MeansNext, LevelMeans

\* A line of another kind leaves what is open as it is.
LEMMA StaysOpen ==
  ASSUME pos \in Nat, NEW o, NEW outer, Open(o, outer, pos), Line # outer
  PROVE  Open(o, outer, pos + 1)
  BY DEF Open, Line

LEMMA SuiteLineMeans ==
  ASSUME FileInv, WellFormedFile, Means, SuiteLine
  PROVE  MeansNext
  <1>1. /\ level = "suite" /\ pos' = pos + 1 /\ pos \in Nat /\ pos < Len(file)
        /\ file \in Seq(LineKinds) /\ Line = "SUITE"
    <2>1. Line \in {"SUITE", "SUITE()"} /\ Line \in DOMAIN MayFollow
      BY LineFacts, LineFits DEF SuiteLine
    <2>2. Line = "SUITE" BY <2>1 DEF MayFollow
    <2> QED BY <2>2, LineFacts, FileInvFacts DEF SuiteLine, AtLine
  <1>2. /\ level' = "case" /\ suite' = pos + 1 /\ members' = members \cup {<<group, pos + 1>>}
        /\ UNCHANGED <<group, tests, descr>>
    BY <1>1 DEF SuiteLine, LevelGoes
  <1>3. LastIn(SuiteLines, pos + 1) BY <1>1, NewLast DEF Line, SuiteLines
  <1>4. Open(group, "GROUP", pos) BY <1>1 DEF Means, LevelMeans
  <1>5. Open(group, "GROUP", pos + 1) BY <1>1, <1>4, StaysOpen
  <1>6. Open(pos + 1, "SUITE", pos + 1) BY <1>1 DEF Open, Line
  <1>7. AddedMeans("case", pos + 1, members', tests, descr)
    <2>1. file[pos + 1] \in {"SUITE"} /\ file[pos + 1] \notin {"TC", "EXEC"} /\ file[pos + 1] \notin {"DESCR"}
      BY <1>1 DEF Line
    <2>2. Upto(Inside({"SUITE"}, "GROUP"), pos + 1) =
             Upto(Inside({"SUITE"}, "GROUP"), pos) \cup {<<group, pos + 1>>}
      BY <1>1, <1>4, <2>1, InsideNew
    <2> QED BY <1>1, <1>2, <2>1, <2>2, InsideSame DEF Means, AddedMeans
  <1> QED BY <1>1, <1>2, <1>3, <1>5, <1>6, <1>7 DEF MeansNext, LevelMeans

LEMMA GroupEndsMeans ==
  ASSUME FileInv, WellFormedFile, Means, GroupEnds
  PROVE  MeansNext
  <1>1. /\ level = "suite" /\ pos' = pos + 1 /\ pos \in Nat /\ file \in Seq(LineKinds) /\ Line = "END_GROUP"
    BY LineFacts, FileInvFacts DEF GroupEnds
  <1>2. level' = "group" /\ UNCHANGED <<members, tests, descr>>
    BY DEF GroupEnds, LevelGoes, parseVars
  <1>3. LastIn({"END_GROUP"}, pos + 1) BY <1>1, NewLast DEF Line
  <1>4. AddedMeans("group", pos + 1, members, tests, descr) BY <1>1, SameAdded DEF Means
  <1> QED BY <1>1, <1>2, <1>3, <1>4 DEF MeansNext, LevelMeans

LEMMA SuiteEndsMeans ==
  ASSUME FileInv, WellFormedFile, Means, SuiteEnds
  PROVE  MeansNext
  <1>1. /\ level = "case" /\ pos' = pos + 1 /\ pos \in Nat /\ file \in Seq(LineKinds) /\ Line = "END_SUITE"
    BY LineFacts, FileInvFacts DEF SuiteEnds
  <1>2. level' = "suite" /\ group' = group /\ UNCHANGED <<members, tests, descr>>
    BY DEF SuiteEnds, LevelGoes, parseVars
  <1>3. LastIn({"GROUP", "END_SUITE"}, pos + 1) BY <1>1, NewLast DEF Line
  <1>4. Open(group, "GROUP", pos) BY <1>1 DEF Means, LevelMeans
  <1>5. Open(group, "GROUP", pos + 1) BY <1>1, <1>4, StaysOpen
  <1>6. AddedMeans("suite", pos + 1, members, tests, descr) BY <1>1, SameAdded DEF Means
  <1> QED BY <1>1, <1>2, <1>3, <1>5, <1>6 DEF MeansNext, LevelMeans

\* A description, a test case or a program: both stay open.
LEMMA CaseLineOpen ==
  ASSUME pos \in Nat, Means, level = "case", Line \in {"DESCR", "TC", "EXEC"}
  PROVE  /\ LastIn(SuiteLines, pos + 1)
         /\ Open(group, "GROUP", pos + 1) /\ Open(suite, "SUITE", pos + 1)
         /\ Open(suite, "SUITE", pos)
  <1>1. Open(group, "GROUP", pos) /\ Open(suite, "SUITE", pos) BY DEF Means, LevelMeans
  <1>2. LastIn(SuiteLines, pos + 1) BY NewLast DEF Line, SuiteLines
  <1> QED BY <1>1, <1>2, StaysOpen

LEMMA DescrLineMeans ==
  ASSUME FileInv, WellFormedFile, Means, DescrLine
  PROVE  MeansNext
  <1>1. /\ level = "case" /\ pos' = pos + 1 /\ pos \in Nat /\ pos < Len(file)
        /\ file \in Seq(LineKinds) /\ Line = "DESCR"
    BY LineFacts, FileInvFacts DEF DescrLine, AtLine
  <1>2. /\ level' = "case" /\ descr' = {d \in descr : d[1] # suite} \cup {<<suite, pos + 1>>}
        /\ UNCHANGED <<group, suite, members, tests>>
    BY <1>1 DEF DescrLine, LevelGoes
  <1> DEFINE D == Inside({"DESCR"}, "SUITE")
  <1>3. file[pos + 1] \notin {"SUITE"} /\ file[pos + 1] \notin {"TC", "EXEC"} /\ file[pos + 1] \in {"DESCR"}
    BY <1>1 DEF Line
  <1>4. Upto(D, pos + 1) = Upto(D, pos) \cup {<<suite, pos + 1>>}
    BY <1>1, <1>3, InsideNew, CaseLineOpen
  <1>5. \A d \in Upto(D, pos) : d = <<d[1], d[2]>> /\ d[2] \in Nat /\ d[2] < pos + 1
    BY <1>1 DEF Upto, Inside
  <1>6. LastDescr(Upto(D, pos + 1)) = {d \in LastDescr(Upto(D, pos)) : d[1] # suite} \cup {<<suite, pos + 1>>}
    <2> DEFINE S == Upto(D, pos)
               q == pos + 1
    <2>1. q \in Nat /\ \A d \in S : d = <<d[1], d[2]>> /\ d[2] \in Nat /\ d[2] < q BY <1>1, <1>5
    <2>2. Upto(D, q) = S \cup {<<suite, q>>} BY <1>4
    <2> HIDE DEF S, q, D
    <2>3. LastDescr(S \cup {<<suite, q>>}) = Redescribed(LastDescr(S), suite, q)
      BY <2>1, LatestNew
    <2> QED BY <2>2, <2>3 DEF S, q, Redescribed
  <1>7. AddedMeans("case", pos + 1, members, tests, descr')
    BY <1>1, <1>2, <1>3, <1>6, InsideSame DEF Means, AddedMeans
  <1> QED BY <1>1, <1>2, <1>7, CaseLineOpen DEF MeansNext, LevelMeans

LEMMA TestLineMeans ==
  ASSUME FileInv, WellFormedFile, Means, TestLine
  PROVE  MeansNext
  <1>1. /\ level = "case" /\ pos' = pos + 1 /\ pos \in Nat /\ pos < Len(file)
        /\ file \in Seq(LineKinds) /\ Line = "TC"
    BY LineFacts, FileInvFacts DEF TestLine, AtLine
  <1>2. /\ level' = "case" /\ tests' = tests \cup {<<suite, pos + 1>>}
        /\ UNCHANGED <<group, suite, members, descr>>
    BY <1>1 DEF TestLine, LevelGoes
  <1>3. file[pos + 1] \notin {"SUITE"} /\ file[pos + 1] \in {"TC", "EXEC"} /\ file[pos + 1] \notin {"DESCR"}
    BY <1>1 DEF Line
  <1>4. Upto(Inside({"TC", "EXEC"}, "SUITE"), pos + 1) =
           Upto(Inside({"TC", "EXEC"}, "SUITE"), pos) \cup {<<suite, pos + 1>>}
    BY <1>1, <1>3, InsideNew, CaseLineOpen
  <1>5. AddedMeans("case", pos + 1, members, tests', descr)
    BY <1>1, <1>2, <1>3, <1>4, InsideSame DEF Means, AddedMeans
  <1> QED BY <1>1, <1>2, <1>5, CaseLineOpen DEF MeansNext, LevelMeans

\* The program is added when its path is known.
LEMMA ExecLineMeans ==
  ASSUME FileInv, WellFormedFile, Means, NEW p \in Paths, ExecLine(p)
  PROVE  MeansNext
  <1>1. /\ level = "case" /\ pos' = pos + 1 /\ pos \in Nat /\ pos < Len(file)
        /\ file \in Seq(LineKinds) /\ Line = "EXEC"
    <2> DEFINE kinds == {"EXEC", "EXEC bare", "EXEC?"}
    <2>1. AtLine("case", kinds) BY DEF ExecLine
    <2>2. Line \in kinds /\ "other" \notin kinds BY <2>1, LineFacts
    <2>3. Line = "other" \/ Line \in DOMAIN MayFollow BY <2>1, LineFits
    <2>4. Line = "EXEC" BY <2>2, <2>3 DEF MayFollow
    <2> QED BY <2>1, <2>4, LineFacts, FileInvFacts DEF AtLine
  <1>2. level' = "env" /\ UNCHANGED <<group, suite, members, tests, descr>>
    BY DEF ExecLine, ReadPath, parseVars
  <1>3. file[pos + 1] \notin {"SUITE"} /\ file[pos + 1] = "EXEC" /\ file[pos + 1] \notin {"DESCR"}
    BY <1>1 DEF Line
  <1>4. (pos + 1) - 1 = pos /\ pos + 1 > 0 BY <1>1
  <1>5. AddedMeans("env", pos + 1, members, tests, descr)
    BY <1>1, <1>3, <1>4, InsideSame DEF Means, AddedMeans
  <1> QED BY <1>1, <1>2, <1>3, <1>5, CaseLineOpen DEF MeansNext, LevelMeans

LEMMA AddExecMeans ==
  ASSUME FileInv, WellFormedFile, Means, AddExec
  PROVE  MeansNext
  <1>1. /\ level = "env" /\ pos > 0 /\ pos \in Nat /\ pos <= Len(file) /\ file \in Seq(LineKinds)
    BY FileInvFacts DEF AddExec, Expanded
  <1>2. /\ file[pos] = "EXEC" /\ LastIn(SuiteLines, pos)
        /\ Open(group, "GROUP", pos) /\ Open(suite, "SUITE", pos)
    BY <1>1 DEF Means, LevelMeans
  <1>3. /\ level' = "case" /\ tests' = tests \cup {<<suite, pos>>}
        /\ UNCHANGED <<pos, group, suite, members, descr>>
    BY <1>2 DEF AddExec
  <1>4. PICK q \in Nat : q + 1 = pos BY <1>1
  <1>5. Open(suite, "SUITE", q) BY <1>2, <1>4 DEF Open
  <1>6. file[q + 1] \in {"TC", "EXEC"} /\ q < Len(file) BY <1>1, <1>2, <1>4
  <1>7. Upto(Inside({"TC", "EXEC"}, "SUITE"), q + 1) =
           Upto(Inside({"TC", "EXEC"}, "SUITE"), q) \cup {<<suite, q + 1>>}
    BY <1>1, <1>5, <1>6, InsideNew
  <1>8. tests = Upto(Inside({"TC", "EXEC"}, "SUITE"), q) BY <1>1, <1>4 DEF Means, AddedMeans
  <1>9. AddedMeans("case", pos, members, tests', descr)
    BY <1>3, <1>4, <1>7, <1>8 DEF Means, AddedMeans
  <1> QED BY <1>2, <1>3, <1>9 DEF MeansNext, LevelMeans

LEMMA SkipMeans ==
  ASSUME FileInv, WellFormedFile, Means, Skip
  PROVE  MeansNext
  <1>1. PICK l \in {"group", "suite", "case"} :
            AtLine(l, LineKinds \ Known[l]) /\ LevelGoes(l) /\ UNCHANGED parseVars
    BY DEF Skip, Known
  <1>2. Line = "other" BY <1>1, LineFacts, LineFits
  <1>3. /\ level = l /\ pos' = pos + 1 /\ pos \in Nat /\ file \in Seq(LineKinds)
        /\ level' = l /\ UNCHANGED <<group, suite, members, tests, descr>>
    BY <1>1, LineFacts, FileInvFacts DEF LevelGoes, parseVars
  <1>4. AddedMeans(l, pos + 1, members, tests, descr) BY <1>2, <1>3, SameAdded DEF Means
  <1>5. file[pos + 1] = "other" /\ (pos + 1) + 1 = pos + 2 BY <1>2, <1>3 DEF Line
  <1>6. LevelMeans(l, pos + 1, group, suite) BY <1>3, <1>5, OtherLine DEF Means, LevelMeans
  <1> QED BY <1>3, <1>4, <1>6 DEF MeansNext

\* The file does not end inside a group, every bracket is closed, and every test and
\* program has its name.
LEMMA NoFormatError ==
  ASSUME FileInv, WellFormedFile, Means
  PROVE  ~EndInside /\ ~Unclosed /\ ~NoTest /\ ~NoSlash
  <1>1. ASSUME EndInside PROVE FALSE
    <2>1. pos = Len(file) /\ level \in {"suite", "case"} /\ file \in Seq(LineKinds)
      BY <1>1, FileInvFacts DEF EndInside, AtEnd
    <2>2. \E kinds \in {{"GROUP", "END_SUITE"}, SuiteLines} : LastIn(kinds, Len(file))
      BY <2>1 DEF Means, LevelMeans
    <2> QED BY <2>1, <2>2, EndFits DEF SuiteLines
  <1>2. ASSUME Unclosed PROVE FALSE
    <2>1. PICK l \in {"group", "suite", "case"} : AtLine(l, {"unclosed"})
      BY <1>2 DEF Unclosed, Known
    <2>2. Line = "unclosed" /\ Line \in DOMAIN MayFollow BY <2>1, LineFacts, LineFits
    <2> QED BY <2>2 DEF MayFollow
  <1>3. ASSUME NoTest PROVE FALSE
    <2>1. Line = "TC()" /\ Line \in DOMAIN MayFollow BY <1>3, LineFacts, LineFits DEF NoTest
    <2> QED BY <2>1 DEF MayFollow
  <1>4. ASSUME NoSlash PROVE FALSE
    <2>1. level = "env" /\ pos > 0 /\ file[pos] = "EXEC bare" BY <1>4 DEF NoSlash, Expanded
    <2> QED BY <2>1 DEF Means, LevelMeans
  <1> QED BY <1>1, <1>2, <1>3, <1>4

\* Reading files keeps to their meaning.
LEMMA FileStepMeans ==
  ASSUME FileInv, MeansInv, FileStep
  PROVE  MeansInv'
  <1>1. ASSUME NoFile' PROVE MeansInv' BY <1>1 DEF MeansInv
  <1>2. ASSUME OpenFile, NoFile, pos = 0 PROVE MeansInv'
    <2>1. Blank BY <1>2 DEF FileInv
    <2> QED BY <1>2, <2>1, FileAssumption, OpenMeans DEF OpenFile, parseVars, Blank
  <1>3. ASSUME (\E p \in Paths : ConfLine(p)) \/ ConfEnd \/ LoadLib PROVE NoFile'
    <2>1. level \in {"conf", "env"} => NoFile \/ (level = "env" /\ pos > 0)
      BY FileInvFacts DEF NoFile
    <2>2. level = "conf" \/ conf = "libs" => Blank BY DEF FileInv, NoFile
    <2> QED BY <1>3, <2>1, <2>2 DEF ConfLine, ReadPath, ConfEnd, LoadLib, NoFile, Blank
  <1>4. ASSUME ConfFile PROVE MeansInv'
    <2>1. NoFile /\ pos = 0 BY <1>4 DEF ConfFile, Expanded, NoFile
    <2>2. OpenFile \/ level' = "conf" BY <1>4 DEF ConfFile
    <2> QED BY <1>1, <1>2, <2>1, <2>2 DEF NoFile
  <1>5. ASSUME FileEnd PROVE NoFile' BY <1>5 DEF FileEnd, NoFile
  <1>6. ASSUME Replace PROVE MeansInv'
    <2>1. UNCHANGED <<level, file, pos, group, suite, members, tests, descr>>
      BY <1>6 DEF Replace, parseVars
    <2>2. CASE NoFile BY <1>1, <2>1, <2>2 DEF NoFile
    <2>3. CASE ~NoFile BY <2>1, <2>3, SameFile DEF MeansInv, Means, MeansNext
    <2> QED BY <2>2, <2>3
  <1>7. ASSUME \/ GroupLine \/ SuiteLine \/ GroupEnds \/ DescrLine \/ TestLine
               \/ (\E p \in Paths : ExecLine(p))
               \/ AddExec \/ NoSlash \/ SuiteEnds \/ Skip \/ EndInside \/ Unclosed \/ NoTest
        PROVE  MeansInv'
    <2>1. file' = file
      BY <1>7 DEF GroupLine, SuiteLine, GroupEnds, DescrLine, TestLine, ExecLine, AddExec, NoSlash,
                  SuiteEnds, Skip, EndInside, Unclosed, NoTest, LevelGoes
    <2>2. level \in {"group", "suite", "case"} \/ (level = "env" /\ pos > 0)
      BY <1>7 DEF GroupLine, SuiteLine, GroupEnds, DescrLine, TestLine, ExecLine, AddExec, NoSlash,
                  SuiteEnds, Skip, EndInside, Unclosed, NoTest, AtLine, AtEnd, Expanded, Known
    <2>3. ~NoFile BY <2>2, FileInvFacts DEF NoFile
    <2>4. ASSUME WellFormedFile PROVE MeansNext
      <3>1. Means BY <2>3, <2>4 DEF MeansInv
      <3> QED BY <1>7, <2>4, <3>1, GroupLineMeans, SuiteLineMeans, GroupEndsMeans, DescrLineMeans,
                 TestLineMeans, ExecLineMeans, AddExecMeans, SuiteEndsMeans, SkipMeans, NoFormatError
    <2> QED BY <2>1, <2>4, SameFile
  <1>8. CASE \E p \in Paths : ConfLine(p) \/ ExecLine(p) BY <1>1, <1>3, <1>7, <1>8
  <1> QED BY <1>1, <1>3, <1>4, <1>5, <1>6, <1>7, <1>8 DEF FileStep

LEMMA FileStutterMeans == ASSUME MeansInv, UNCHANGED fileVars PROVE MeansInv'
  <1>1. UNCHANGED <<level, file, pos, group, suite, members, tests, descr>>
    BY DEF fileVars, parseVars
  <1>2. CASE NoFile BY <1>1, <1>2 DEF MeansInv, NoFile
  <1>3. CASE ~NoFile BY <1>1, <1>3, SameFile DEF MeansInv, Means, MeansNext
  <1> QED BY <1>2, <1>3

\* The end of the file is reached: everything it means was added.
LEMMA FileIsMeant == ASSUME FileInv, MeansInv PROVE FileMeansGroups
  <1>1. SUFFICES ASSUME AtEnd("group"), WellFormedFile PROVE FileMeansGroups
    BY DEF FileMeansGroups
  <1>2. level = "group" /\ pos = Len(file) /\ file \in Seq(LineKinds) /\ ~NoFile
    BY <1>1, FileInvFacts DEF AtEnd, NoFile
  <1>3. AddedMeans("group", Len(file), members, tests, descr) BY <1>1, <1>2 DEF MeansInv, Means
  <1> QED BY <1>2, <1>3, InsideAll DEF AddedMeans, FileMeansGroups, LastDescr

----------------------------------------------------------------------------
(* replace_string: the first occurrence is replaced until there is none.   *)

\* F lists what FlattenSeq puts together, sequence by sequence.
PartialConcats(e, S, F) ==
    /\ F \in [0..Len(e) -> Seq(S)]
    /\ F[0] = <<>>
    /\ \A m \in 1..Len(e) : F[m] = F[m - 1] \o e[m]

LEMMA FlattenedByPrefix ==
  ASSUME NEW S, NEW e \in Seq(Seq(S))
  PROVE  \E F : PartialConcats(e, S, F) /\ FlattenSeq(e) = F[Len(e)]
  <1> DEFINE L == Len(e)
             PartialOf(f, n) == /\ f \in [1..n -> Seq(S)]
                                /\ \A m \in 1..n : f[m] = IF m = 1 THEN e[m] ELSE f[m - 1] \o e[m]
             Is(f) == f = [m \in 1..L |-> IF m = 1 THEN e[m] ELSE f[m - 1] \o e[m]]
             flatten == CHOOSE f : Is(f)
  <1>1. L \in Nat /\ \A m \in 1..L : e[m] \in Seq(S) OBVIOUS
  <1>2. \E f : PartialOf(f, L)
    <2> DEFINE Missing == {n \in 0..L : ~ \E f : PartialOf(f, n)}
    <2> SUFFICES ASSUME Missing # {} PROVE FALSE
      <3>1. L \in 0..L BY <1>1
      <3> QED BY <3>1
    <2> DEFINE n == Min(Missing)
    <2>1. n \in Missing /\ \A y \in Missing : n <= y
      <3>1. Missing \in SUBSET Nat BY <1>1
      <3> HIDE DEF Missing
      <3> QED BY <3>1, SmallestExists
    <2> HIDE DEF n
    <2>2. n \in 0..L /\ ~ \E f : PartialOf(f, n) BY <2>1
    <2>3. n # 0
      <3>1. PartialOf([m \in 1..0 |-> <<>>], 0) OBVIOUS
      <3> HIDE DEF PartialOf
      <3> QED BY <2>2, <3>1
    <2>4. PICK f : PartialOf(f, n - 1)
      <3>1. n - 1 \in 0..L /\ ~(n <= n - 1) BY <1>1, <2>2, <2>3
      <3>2. n - 1 \notin Missing BY <2>1, <3>1
      <3> HIDE DEF PartialOf
      <3> QED BY <3>1, <3>2
    <2> DEFINE new == IF n = 1 THEN e[1] ELSE f[n - 1] \o e[n]
               g == [m \in 1..n |-> IF m = n THEN new ELSE f[m]]
    <2>5. new \in Seq(S)
      <3>1. n \in 1..L BY <2>2, <2>3
      <3>2. n # 1 => f[n - 1] \in Seq(S) BY <2>4, <3>1
      <3> QED BY <1>1, <3>1, <3>2
    <2>6. g \in [1..n -> Seq(S)]
      <3> HIDE DEF new
      <3> QED BY <1>1, <2>2, <2>4, <2>5
    <2>7. ASSUME NEW m \in 1..n PROVE g[m] = IF m = 1 THEN e[m] ELSE g[m - 1] \o e[m]
      <3>1. m > 1 => m - 1 \in 1..n /\ m - 1 # n BY <2>2
      <3>2. m > 1 => g[m - 1] = f[m - 1] BY <3>1
      <3>3. CASE m = n BY <2>2, <3>2, <3>3
      <3>4. CASE m # n
        <4>1. m \in 1..(n - 1) BY <2>2, <3>4
        <4>2. g[m] = f[m] BY <3>4
        <4>3. f[m] = IF m = 1 THEN e[m] ELSE f[m - 1] \o e[m] BY <2>4, <4>1
        <4>4. m = 1 \/ m > 1 BY <4>1
        <4> HIDE DEF g
        <4> QED BY <3>2, <4>2, <4>3, <4>4
      <3> QED BY <3>3, <3>4
    <2>8. PartialOf(g, n)
      <3> HIDE DEF g
      <3> QED BY <2>6, <2>7
    <2> HIDE DEF PartialOf
    <2> QED BY <2>2, <2>8
  <1>3. Is(flatten)
    <2>1. PICK f : PartialOf(f, L) BY <1>2
    <2>2. Is(f) BY <2>1
    <2> HIDE DEF Is
    <2> QED BY <2>2
  <1> HIDE DEF flatten
  <1>4. \A m \in 1..L : flatten[m] = IF m = 1 THEN e[m] ELSE flatten[m - 1] \o e[m] BY <1>3
  <1>5. \A m \in 1..L : flatten[m] \in Seq(S)
    <2> DEFINE Other == {m \in 1..L : flatten[m] \notin Seq(S)}
    <2> SUFFICES ASSUME Other # {} PROVE FALSE OBVIOUS
    <2> DEFINE n == Min(Other)
    <2>1. n \in Other /\ \A y \in Other : n <= y
      <3>1. Other \in SUBSET Nat BY <1>1
      <3> HIDE DEF Other
      <3> QED BY <3>1, SmallestExists
    <2> HIDE DEF n
    <2>2. n \in 1..L /\ flatten[n] \notin Seq(S) BY <2>1
    <2>3. n # 1 BY <1>1, <1>4, <2>2
    <2>4. n - 1 \in 1..L /\ ~(n <= n - 1) BY <1>1, <2>2, <2>3
    <2>5. flatten[n - 1] \in Seq(S) BY <2>1, <2>4
    <2>6. flatten[n] = flatten[n - 1] \o e[n] BY <1>4, <2>2, <2>3
    <2> QED BY <1>1, <2>2, <2>5, <2>6
  <1> DEFINE F == [m \in 0..L |-> IF m = 0 THEN <<>> ELSE flatten[m]]
  <1>6. F \in [0..L -> Seq(S)]
    <2>1. <<>> \in Seq(S) OBVIOUS
    <2> QED BY <1>1, <1>5, <2>1
  <1>7. ASSUME NEW m \in 1..L PROVE F[m] = F[m - 1] \o e[m]
    <2>1. F[m] = flatten[m] /\ m - 1 \in 0..L OBVIOUS
    <2>2. CASE m = 1
      <3>1. F[m - 1] = <<>> /\ F[m] = e[m] BY <1>4, <2>1, <2>2
      <3>2. e[m] \in Seq(S) BY <1>1
      <3> HIDE DEF F
      <3> QED BY <3>1, <3>2, ConcatEmptySeq
    <2>3. CASE m # 1
      <3>1. F[m - 1] = flatten[m - 1] BY <2>1, <2>3
      <3> HIDE DEF F
      <3> QED BY <1>4, <2>1, <2>3, <3>1
    <2> QED BY <2>2, <2>3
  <1>8. FlattenSeq(e) = F[L]
    <2>1. CASE L = 0
      <3>1. FlattenSeq(e) = e /\ e = <<>> BY <2>1 DEF FlattenSeq
      <3> QED BY <2>1, <3>1
    <2>2. CASE L # 0
      <3>1. FlattenSeq(e) = flatten[L] BY <2>2 DEF FlattenSeq, flatten
      <3> QED BY <1>1, <2>2, <3>1
    <2> QED BY <2>1, <2>2
  <1>9. F[0] = <<>> BY <1>1
  <1> HIDE DEF F
  <1> QED BY <1>6, <1>7, <1>8, <1>9 DEF PartialConcats

\* A path with every occurrence of the variable replaced by v at once.
Replaced(o, v) == [j \in DOMAIN o |-> IF o[j] = Var THEN v ELSE <<o[j]>>]

\* The path p while o is expanded: the first m parts are done, the rest is not.
Halfway(o, v, F, p, m) ==
    /\ p = F[m] \o SubSeq(o, m + 1, Len(o))
    /\ v # Unset => \A q \in DOMAIN F[m] : F[m][q] # Var
ReplacedSoFar(o, v, p) ==
    \E F : /\ PartialConcats(Replaced(o, v), PathParts, F)
           /\ FlattenSeq(Replaced(o, v)) = F[Len(o)]
           /\ \E m \in 0..Len(o) : Halfway(o, v, F, p, m)

EnvValues == Seq(PathParts \ {Var}) \cup {Unset}

LEMMA EnvIsPath ==
  ASSUME NEW v \in EnvValues
  PROVE  v \in Seq(PathParts) /\ (v # Unset => \A q \in DOMAIN v : v[q] # Var)
  <1>1. Unset \in Seq(PathParts) BY DEF Unset, PathParts
  <1>2. ASSUME v \in Seq(PathParts \ {Var})
        PROVE  v \in Seq(PathParts) /\ \A q \in DOMAIN v : v[q] # Var
    <2>1. \A q \in DOMAIN v : v[q] \in PathParts \ {Var} BY <1>2
    <2>2. v \in Seq(PathParts) BY <1>2, SeqMonotonic
    <2> QED BY <2>1, <2>2
  <1> QED BY <1>1, <1>2 DEF EnvValues

LEMMA ReplacedIsSeq ==
  ASSUME NEW o \in Seq(PathParts), NEW v \in EnvValues
  PROVE  Replaced(o, v) \in Seq(Seq(PathParts)) /\ Len(Replaced(o, v)) = Len(o)
  <1>1. DOMAIN o = 1..Len(o) /\ Len(o) \in Nat OBVIOUS
  <1>2. \A j \in 1..Len(o) : Replaced(o, v)[j] \in Seq(PathParts)
    BY <1>1, EnvIsPath DEF Replaced
  <1>3. DOMAIN Replaced(o, v) = 1..Len(o) BY <1>1 DEF Replaced
  <1>4. Replaced(o, v) \in [1..Len(o) -> Seq(PathParts)] BY <1>1, <1>2, <1>3 DEF Replaced
  <1> QED BY <1>1, <1>4

\* At first nothing is replaced.
LEMMA ReplacedFirst ==
  ASSUME NEW o \in Seq(PathParts), NEW v \in EnvValues
  PROVE  ReplacedSoFar(o, v, o)
  <1>1. PICK F : PartialConcats(Replaced(o, v), PathParts, F) /\ FlattenSeq(Replaced(o, v)) = F[Len(o)]
    BY ReplacedIsSeq, FlattenedByPrefix
  <1>2. F[0] = <<>> BY <1>1 DEF PartialConcats
  <1>3. SubSeq(o, 1, Len(o)) = o BY SubSeqFull
  <1>4. <<>> \o o = o BY ConcatEmptySeq
  <1>5. Halfway(o, v, F, o, 0) BY <1>2, <1>3, <1>4 DEF Halfway
  <1>6. 0 \in 0..Len(o) OBVIOUS
  <1> QED BY <1>1, <1>5, <1>6 DEF ReplacedSoFar

\* As many parts as possible count as done: the next one, if there is one, is an
\* occurrence that must be replaced.
LEMMA FurthestReplaced ==
  ASSUME NEW o \in Seq(PathParts), NEW v \in EnvValues, NEW F, NEW p,
         PartialConcats(Replaced(o, v), PathParts, F), \E m \in 0..Len(o) : Halfway(o, v, F, p, m)
  PROVE  \E m \in 0..Len(o) : /\ Halfway(o, v, F, p, m)
                              /\ m = Len(o) \/ (o[m + 1] = Var /\ v # Unset)
  <1> DEFINE S == {m \in 0..Len(o) : Halfway(o, v, F, p, m)}
             m == Max(S)
  <1>1. m \in S /\ \A y \in S : y <= m
    <2>1. S \in SUBSET (0..Len(o)) /\ S # {} /\ Len(o) \in Nat OBVIOUS
    <2> HIDE DEF S
    <2> QED BY <2>1, LargestExists
  <1> HIDE DEF m
  <1>2. m \in 0..Len(o) /\ Halfway(o, v, F, p, m) BY <1>1
  <1>3. ASSUME m # Len(o), o[m + 1] # Var \/ v = Unset PROVE FALSE
    <2>1. m + 1 \in 1..Len(o) /\ m + 1 \in 0..Len(o) /\ DOMAIN o = 1..Len(o) /\ Len(o) \in Nat
      BY <1>2, <1>3
    <2>2. Replaced(o, v)[m + 1] = <<o[m + 1]>> BY <1>3, <2>1 DEF Replaced, Unset
    <2>3. /\ F \in [0..Len(o) -> Seq(PathParts)]
          /\ F[m + 1] = F[m] \o <<o[m + 1]>>
      <3>1. Len(Replaced(o, v)) = Len(o) BY ReplacedIsSeq
      <3>2. \A x \in 1..Len(o) : F[x] = F[x - 1] \o Replaced(o, v)[x] BY <3>1 DEF PartialConcats
      <3>3. \A x \in 1..Len(o) : x = m + 1 => x - 1 = m BY <1>2
      <3>4. F[m + 1] = F[m] \o Replaced(o, v)[m + 1]
        <4> DEFINE x == m + 1
        <4>1. x \in 1..Len(o) /\ x - 1 = m BY <2>1, <3>3
        <4> HIDE DEF x
        <4>2. F[x] = F[m] \o Replaced(o, v)[x] BY <3>2, <4>1
        <4> QED BY <4>2 DEF x
      <3> QED BY <2>2, <3>1, <3>4 DEF PartialConcats
    <2>4. SubSeq(o, m + 1, Len(o)) = <<o[m + 1]>> \o SubSeq(o, m + 1 + 1, Len(o))
      <3>1. Len(o) \in (m + 1)..Len(o) BY <2>1
      <3> QED BY <2>1, <3>1, SubSeqRecursiveFirst
    <2>5. /\ F[m] \in Seq(PathParts) /\ <<o[m + 1]>> \in Seq(PathParts)
          /\ SubSeq(o, m + 1 + 1, Len(o)) \in Seq(PathParts)
      <3>1. o[m + 1] \in PathParts BY <2>1
      <3>2. \A q \in (m + 1 + 1)..Len(o) : o[q] \in PathParts BY <2>1
      <3>3. SubSeq(o, m + 1 + 1, Len(o)) \in Seq(PathParts) BY <2>1, <3>2, SubSeqProperties
      <3> QED BY <1>2, <2>3, <3>1, <3>3
    <2>6. p = F[m + 1] \o SubSeq(o, m + 1 + 1, Len(o))
      <3> DEFINE rest == SubSeq(o, m + 1 + 1, Len(o))
      <3>1. p = F[m] \o (<<o[m + 1]>> \o rest) BY <1>2, <2>4 DEF Halfway
      <3>2. (F[m] \o <<o[m + 1]>>) \o rest = F[m] \o (<<o[m + 1]>> \o rest)
        <4> DEFINE a == F[m]
                   b == <<o[m + 1]>>
        <4>1. a \in Seq(PathParts) /\ b \in Seq(PathParts) /\ rest \in Seq(PathParts) BY <2>5
        <4> HIDE DEF a, b, rest
        <4>2. (a \o b) \o rest = a \o (b \o rest) BY <4>1, ConcatAssociative
        <4> QED BY <4>2 DEF a, b
      <3> QED BY <2>3, <3>1, <3>2, Zenon
    <2>7. v # Unset => \A q \in DOMAIN F[m + 1] : F[m + 1][q] # Var
      <3> SUFFICES ASSUME v # Unset, NEW q \in DOMAIN F[m + 1] PROVE F[m + 1][q] # Var OBVIOUS
      <3>1. \A x \in DOMAIN F[m] : F[m][x] # Var BY <1>2 DEF Halfway
      <3>2. /\ Len(F[m + 1]) = Len(F[m]) + 1 /\ Len(F[m]) \in Nat
            /\ q \in 1..(Len(F[m]) + 1)
            /\ F[m + 1][q] = IF q <= Len(F[m]) THEN F[m][q] ELSE <<o[m + 1]>>[q - Len(F[m])]
        BY <2>3, <2>5, ConcatProperties
      <3>3. CASE q <= Len(F[m])
        <4>1. q \in DOMAIN F[m] BY <2>5, <3>2, <3>3
        <4> QED BY <3>1, <3>2, <3>3, <4>1
      <3>4. CASE ~(q <= Len(F[m]))
        <4>1. q - Len(F[m]) = 1 BY <3>2, <3>4
        <4>2. <<o[m + 1]>>[q - Len(F[m])] = o[m + 1] BY <4>1
        <4> QED BY <1>3, <3>2, <3>4, <4>2
      <3> QED BY <3>3, <3>4
    <2>8. m + 1 \in S BY <2>1, <2>6, <2>7 DEF Halfway
    <2> QED BY <1>1, <1>2, <2>8
  <1> QED BY <1>2, <1>3

\* Without an occurrence left, all of them are replaced.
LEMMA AllReplaced ==
  ASSUME NEW o \in Seq(PathParts), NEW v \in EnvValues, NEW p,
         ReplacedSoFar(o, v, p), v # Unset => \A q \in DOMAIN p : p[q] # Var
  PROVE  p = FlattenSeq(Replaced(o, v))
  <1>1. PICK F : /\ PartialConcats(Replaced(o, v), PathParts, F)
                 /\ FlattenSeq(Replaced(o, v)) = F[Len(o)]
                 /\ \E m \in 0..Len(o) : Halfway(o, v, F, p, m)
    BY DEF ReplacedSoFar
  <1>2. PICK m \in 0..Len(o) : /\ Halfway(o, v, F, p, m)
                               /\ m = Len(o) \/ (o[m + 1] = Var /\ v # Unset)
    BY <1>1, FurthestReplaced
  <1>3. \A x \in 0..Len(o) : F[x] \in Seq(PathParts)
    BY <1>1, ReplacedIsSeq DEF PartialConcats
  <1> DEFINE a == F[m]
             rest == SubSeq(o, m + 1, Len(o))
  <1>4. /\ p = a \o rest /\ a \in Seq(PathParts) /\ rest \in Seq(PathParts)
        /\ Len(rest) = IF m + 1 <= Len(o) THEN Len(o) - (m + 1) + 1 ELSE 0
        /\ \A q \in 1..(Len(o) - (m + 1) + 1) : rest[q] = o[m + 1 + q - 1]
    <2>1. \A q \in (m + 1)..Len(o) : o[q] \in PathParts OBVIOUS
    <2> QED BY <1>2, <1>3, <2>1, SubSeqProperties DEF Halfway
  <1> HIDE DEF a, rest
  <1>5. CASE m = Len(o)
    <2>1. rest = <<>> BY <1>4, <1>5
    <2>2. p = a BY <1>4, <2>1, ConcatEmptySeq
    <2> QED BY <1>1, <1>5, <2>2 DEF a
  <1>6. CASE m # Len(o)
    <2>1. Len(rest) > 0 /\ rest[1] = Var
      <3>1. 1 \in 1..(Len(o) - (m + 1) + 1) /\ m + 1 + 1 - 1 = m + 1 BY <1>2, <1>6
      <3>2. rest[1] = o[m + 1] BY <1>4, <3>1
      <3> QED BY <1>2, <1>4, <1>6, <3>1, <3>2
    <2> DEFINE q == Len(a) + 1
    <2>2. q \in 1..(Len(a) + Len(rest)) /\ Len(a) \in Nat /\ q - Len(a) = 1 /\ ~(q <= Len(a))
      BY <1>4, <2>1
    <2> HIDE DEF q
    <2>3. p[q] = rest[q - Len(a)] /\ q \in DOMAIN p BY <1>4, <2>2, ConcatProperties
    <2>4. p[q] = Var BY <2>1, <2>2, <2>3
    <2> QED BY <1>2, <1>6, <2>3, <2>4
  <1> QED BY <1>5, <1>6

\* One turn of the loop replaces the next one.
LEMMA NextReplaced ==
  ASSUME NEW o \in Seq(PathParts), NEW v \in EnvValues, NEW p \in Seq(PathParts),
         ReplacedSoFar(o, v, p), v # Unset, Mentions(p, Var)
  PROVE  ReplacedSoFar(o, v, ReplaceFirst(p, v))
  <1>1. PICK F : /\ PartialConcats(Replaced(o, v), PathParts, F)
                 /\ FlattenSeq(Replaced(o, v)) = F[Len(o)]
                 /\ \E m \in 0..Len(o) : Halfway(o, v, F, p, m)
    BY DEF ReplacedSoFar
  <1>2. PICK m \in 0..Len(o) : /\ Halfway(o, v, F, p, m)
                               /\ m = Len(o) \/ (o[m + 1] = Var /\ v # Unset)
    BY <1>1, FurthestReplaced
  <1>3. \A x \in 0..Len(o) : F[x] \in Seq(PathParts)
    BY <1>1, ReplacedIsSeq DEF PartialConcats
  <1> DEFINE a == F[m]
             rest == SubSeq(o, m + 1, Len(o))
             last == SubSeq(o, m + 1 + 1, Len(o))
             n == Len(a) + 1
  <1>4. /\ p = a \o rest /\ a \in Seq(PathParts) /\ rest \in Seq(PathParts)
        /\ Len(rest) = IF m + 1 <= Len(o) THEN Len(o) - (m + 1) + 1 ELSE 0
    <2>1. \A q \in (m + 1)..Len(o) : o[q] \in PathParts OBVIOUS
    <2> QED BY <1>2, <1>3, <2>1, SubSeqProperties DEF Halfway
  <1>5. \A q \in 1..Len(a) : a[q] # Var
    <2>1. DOMAIN a = 1..Len(a) BY <1>4
    <2> QED BY <1>2, <2>1 DEF Halfway
  <1>6. m # Len(o)
    <2> SUFFICES ASSUME m = Len(o) PROVE FALSE OBVIOUS
    <2> HIDE DEF a, rest
    <2>1. rest = <<>> BY <1>4
    <2>2. p = a BY <1>4, <2>1, ConcatEmptySeq
    <2> QED BY <1>4, <1>5, <2>2 DEF Mentions, Range
  <1>7. m + 1 \in 1..Len(o) /\ o[m + 1] = Var /\ Len(o) \in Nat BY <1>2, <1>6
  <1>8. rest = <<Var>> \o last
    <2>1. Len(o) \in (m + 1)..Len(o) BY <1>7
    <2> QED BY <1>7, <2>1, SubSeqRecursiveFirst
  <1>9. last \in Seq(PathParts) /\ <<Var>> \in Seq(PathParts)
    <2>1. \A q \in (m + 1 + 1)..Len(o) : o[q] \in PathParts BY <1>7
    <2>2. Var \in PathParts BY DEF PathParts
    <2> QED BY <1>7, <2>1, <2>2, SubSeqProperties
  <1>10. v \in Seq(PathParts) /\ \A q \in DOMAIN v : v[q] # Var BY EnvIsPath
  <1>11. F[m + 1] = a \o v
    <2>1. Len(Replaced(o, v)) = Len(o) BY ReplacedIsSeq
    <2>2. \A x \in 1..Len(o) : F[x] = F[x - 1] \o Replaced(o, v)[x] BY <1>1, <2>1 DEF PartialConcats
    <2>3. \A x \in 1..Len(o) : x = m + 1 => x - 1 = m BY <1>2
    <2> DEFINE x == m + 1
    <2>4. x \in 1..Len(o) /\ x - 1 = m /\ o[x] = Var BY <1>7, <2>3
    <2> HIDE DEF x
    <2>5. F[x] = F[m] \o Replaced(o, v)[x] BY <2>2, <2>4
    <2>6. Replaced(o, v)[x] = v BY <2>4 DEF Replaced
    <2> QED BY <2>5, <2>6 DEF x
  <1> HIDE DEF a, rest, last
  <1>12. /\ Len(p) = n + Len(last) /\ Len(last) \in Nat /\ Len(a) \in Nat /\ n \in 1..Len(p)
         /\ \A q \in 1..Len(a) : p[q] = a[q]
         /\ p[n] = Var
         /\ \A q \in 1..Len(last) : p[n + q] = last[q]
    <2>1. /\ Len(rest) = 1 + Len(last) /\ rest[1] = Var
          /\ \A q \in 1..Len(last) : rest[1 + q] = last[q]
      <3>1. Len(<<Var>>) = 1 /\ <<Var>>[1] = Var OBVIOUS
      <3>2. /\ Len(rest) = 1 + Len(last)
            /\ \A q \in 1..(1 + Len(last)) : rest[q] = IF q <= 1 THEN <<Var>>[q] ELSE last[q - 1]
        BY <1>8, <1>9, <3>1, ConcatProperties
      <3>3. Len(last) \in Nat BY <1>9
      <3>4. rest[1] = Var BY <3>1, <3>2, <3>3
      <3>5. ASSUME NEW q \in 1..Len(last) PROVE rest[1 + q] = last[q]
        <4> DEFINE x == 1 + q
        <4>1. x \in 1..(1 + Len(last)) /\ ~(x <= 1) /\ x - 1 = q BY <3>3
        <4> HIDE DEF x
        <4>2. rest[x] = last[q] BY <3>2, <4>1
        <4> QED BY <4>2 DEF x
      <3> QED BY <3>2, <3>4, <3>5
    <2>2. Len(last) \in Nat /\ Len(a) \in Nat BY <1>4, <1>9
    <2>3. /\ Len(p) = Len(a) + Len(rest)
          /\ \A q \in 1..(Len(a) + Len(rest)) : p[q] = IF q <= Len(a) THEN a[q] ELSE rest[q - Len(a)]
      BY <1>4, ConcatProperties
    <2>4. \A q \in 1..Len(a) : p[q] = a[q] BY <2>1, <2>2, <2>3
    <2>5. ASSUME NEW q \in 1..Len(rest) PROVE p[Len(a) + q] = rest[q]
      <3> DEFINE x == Len(a) + q
      <3>1. x \in 1..(Len(a) + Len(rest)) /\ ~(x <= Len(a)) /\ x - Len(a) = q BY <2>1, <2>2
      <3> HIDE DEF x
      <3>2. p[x] = rest[q] BY <2>3, <3>1
      <3> QED BY <3>2 DEF x
    <2>6. p[n] = Var BY <2>1, <2>2, <2>5
    <2>7. ASSUME NEW q \in 1..Len(last) PROVE p[n + q] = last[q]
      <3>1. 1 + q \in 1..Len(rest) /\ Len(a) + (1 + q) = n + q BY <2>1, <2>2
      <3>2. p[Len(a) + (1 + q)] = rest[1 + q] BY <2>5, <3>1
      <3> QED BY <2>1, <3>1, <3>2
    <2> QED BY <2>1, <2>2, <2>3, <2>4, <2>6, <2>7
  <1> HIDE DEF n
  <1>13. FirstVar(p) = n
    <2> DEFINE I == {j \in 1..Len(p) : p[j] = Var}
    <2>1. n \in I BY <1>12
    <2>2. \A j \in I : j >= n
      <3> SUFFICES ASSUME NEW j \in 1..Len(p), p[j] = Var, j < n PROVE FALSE BY <1>12
      <3>1. j \in 1..Len(a) BY <1>12 DEF n
      <3> QED BY <1>5, <1>12, <3>1
    <2>3. I \in SUBSET Nat OBVIOUS
    <2>4. FirstVar(p) = Min(I) BY <2>1 DEF FirstVar, SelectInSeq
    <2> HIDE DEF I
    <2>5. Min(I) \in I /\ Min(I) <= n BY <2>1, <2>3, SmallestExists
    <2> QED BY <1>12, <2>2, <2>3, <2>4, <2>5
  <1>14. SubSeq(p, 1, n - 1) = a
    <2>1. n - 1 = Len(a) BY <1>12 DEF n
    <2>2. \A q \in 1..Len(a) : p[q] \in PathParts BY <1>4, <1>12
    <2>3. /\ SubSeq(p, 1, Len(a)) \in Seq(PathParts)
          /\ Len(SubSeq(p, 1, Len(a))) = IF 1 <= Len(a) THEN Len(a) - 1 + 1 ELSE 0
          /\ \A q \in 1..(Len(a) - 1 + 1) : SubSeq(p, 1, Len(a))[q] = p[1 + q - 1]
      BY <1>12, <2>2, SubSeqProperties
    <2>4. Len(SubSeq(p, 1, Len(a))) = Len(a) BY <1>12, <2>3
    <2>5. ASSUME NEW q \in 1..Len(a) PROVE SubSeq(p, 1, Len(a))[q] = a[q]
      <3>1. q \in 1..(Len(a) - 1 + 1) /\ 1 + q - 1 = q BY <1>12
      <3> QED BY <1>12, <2>3, <3>1
    <2>6. SubSeq(p, 1, Len(a)) = a BY <1>4, <2>3, <2>4, <2>5, SeqEqual
    <2> QED BY <2>1, <2>6
  <1>15. SubSeq(p, n + 1, Len(p)) = last
    <2> DEFINE s == SubSeq(p, n + 1, Len(p))
    <2>1. \A q \in (n + 1)..Len(p) : p[q] \in PathParts BY <1>12
    <2>2. /\ s \in Seq(PathParts)
          /\ Len(s) = IF n + 1 <= Len(p) THEN Len(p) - (n + 1) + 1 ELSE 0
          /\ \A q \in 1..(Len(p) - (n + 1) + 1) : s[q] = p[n + 1 + q - 1]
      BY <1>12, <2>1, SubSeqProperties
    <2> HIDE DEF s
    <2>3. Len(s) = Len(last) BY <1>12, <2>2
    <2>4. ASSUME NEW q \in 1..Len(s) PROVE s[q] = last[q]
      <3>1. q \in 1..(Len(p) - (n + 1) + 1) /\ n + 1 + q - 1 = n + q BY <1>12, <2>3
      <3>2. s[q] = p[n + q] BY <2>2, <3>1
      <3> QED BY <1>12, <2>3, <3>2
    <2>5. s = last BY <1>9, <2>2, <2>3, <2>4, SeqEqual
    <2> QED BY <2>5 DEF s
  <1>16. ReplaceFirst(p, v) = F[m + 1] \o last
    BY <1>11, <1>13, <1>14, <1>15 DEF ReplaceFirst
  <1>17. \A q \in DOMAIN F[m + 1] : F[m + 1][q] # Var
    <2> DEFINE b == a \o v
    <2>1. /\ Len(b) = Len(a) + Len(v) /\ b \in Seq(PathParts)
          /\ \A q \in 1..(Len(a) + Len(v)) : b[q] = IF q <= Len(a) THEN a[q] ELSE v[q - Len(a)]
      BY <1>4, <1>10, ConcatProperties
    <2> HIDE DEF b
    <2>2. ASSUME NEW q \in 1..(Len(a) + Len(v)) PROVE b[q] # Var
      <3>1. CASE q <= Len(a) BY <1>5, <1>12, <2>1, <3>1
      <3>2. CASE ~(q <= Len(a))
        <4>1. q - Len(a) \in DOMAIN v BY <1>10, <1>12, <3>2
        <4> QED BY <1>10, <2>1, <3>2, <4>1
      <3> QED BY <3>1, <3>2
    <2>3. DOMAIN b = 1..(Len(a) + Len(v)) BY <2>1
    <2> QED BY <1>11, <2>2, <2>3 DEF b
  <1>18. Halfway(o, v, F, ReplaceFirst(p, v), m + 1)
    BY <1>16, <1>17 DEF Halfway, last
  <1>19. m + 1 \in 0..Len(o) BY <1>7
  <1> QED BY <1>1, <1>18, <1>19 DEF ReplacedSoFar

\* The invariant of replace_string, while a path is expanded.
ReplacesInv ==
    level = "env" =>
        \A o \in {orig_path}, v \in {envpath}, p \in {path} :
            /\ o \in Seq(PathParts) /\ v \in EnvValues /\ p \in Seq(PathParts)
            /\ ReplacedSoFar(o, v, p)

LEMMA ReadReplaces ==
  ASSUME NEW p \in Paths, ReadPath(p)
  PROVE  ReplacesInv'
  <1>1. p \in Seq(PathParts) /\ orig_path' = p /\ path' = p /\ envpath' \in Values \cup {Unset}
    BY FileAssumption DEF ReadPath
  <1>2. ASSUME NEW v, v = envpath' PROVE v \in EnvValues /\ ReplacedSoFar(p, v, p)
    <2>1. v \in EnvValues BY <1>1, <1>2, FileAssumption DEF EnvValues
    <2> QED BY <1>1, <2>1, ReplacedFirst
  <1> QED BY <1>1, <1>2 DEF ReplacesInv

LEMMA ReplaceReplaces ==
  ASSUME ReplacesInv, Replace
  PROVE  ReplacesInv'
  <1>1. /\ orig_path' = orig_path /\ envpath' = envpath /\ path' = ReplaceFirst(path, envpath)
        /\ level = "env" /\ envpath # Unset /\ Mentions(path, Var)
    BY DEF Replace, Expanding
  <1>2. /\ orig_path \in Seq(PathParts) /\ envpath \in EnvValues /\ path \in Seq(PathParts)
        /\ ReplacedSoFar(orig_path, envpath, path)
    BY <1>1 DEF ReplacesInv
  <1>3. ReplacedSoFar(orig_path, envpath, ReplaceFirst(path, envpath))
    BY <1>1, <1>2, NextReplaced
  <1>4. ReplaceFirst(path, envpath) \in Seq(PathParts)
    BY <1>1, <1>2, EnvIsPath, ReplacedIsPath
  <1> QED BY <1>1, <1>2, <1>3, <1>4 DEF ReplacesInv

LEMMA FileStepReplaces ==
  ASSUME ReplacesInv, FileStep
  PROVE  ReplacesInv'
  <1>1. ASSUME level' # "env" PROVE ReplacesInv' BY <1>1 DEF ReplacesInv
  <1>2. ASSUME NEW p \in Paths, ConfLine(p) \/ ExecLine(p) PROVE ReplacesInv'
    BY <1>2, ReadReplaces DEF ConfLine, ExecLine
  <1>3. ASSUME \/ ConfEnd \/ LoadLib \/ ConfFile \/ GroupLine \/ FileEnd \/ SuiteLine \/ GroupEnds
               \/ DescrLine \/ TestLine \/ AddExec \/ NoSlash \/ SuiteEnds \/ Skip \/ EndInside
               \/ Unclosed \/ NoTest
        PROVE  level' # "env"
    BY <1>3 DEF ConfEnd, LoadLib, ConfFile, OpenFile, GroupLine, FileEnd, SuiteLine, GroupEnds, DescrLine,
                TestLine, AddExec, NoSlash, SuiteEnds, Skip, Known, EndInside, Unclosed, NoTest, AtLine,
                AtEnd, LevelGoes
  <1> QED BY <1>1, <1>2, <1>3, ReplaceReplaces DEF FileStep

LEMMA FileStutterReplaces == ASSUME ReplacesInv, UNCHANGED fileVars PROVE ReplacesInv'
  BY DEF ReplacesInv, fileVars

\* When the loop has ended the path is what all replacements at once give.
LEMMA PathIsExpanded == ReplacesInv => PathFullyExpanded
  <1> SUFFICES ASSUME ReplacesInv, Expanded
               PROVE  path = FlattenSeq(Replaced(orig_path, envpath))
    BY DEF PathFullyExpanded, Replaced
  <1>1. /\ orig_path \in Seq(PathParts) /\ envpath \in EnvValues /\ path \in Seq(PathParts)
        /\ ReplacedSoFar(orig_path, envpath, path)
    BY DEF ReplacesInv, Expanded
  <1>2. envpath # Unset => ~Mentions(path, Var) BY DEF Expanded, Expanding
  <1>3. envpath # Unset => \A q \in DOMAIN path : path[q] # Var BY <1>1, <1>2 DEF Mentions, Range
  <1> QED BY <1>1, <1>3, AllReplaced

=============================================================================
