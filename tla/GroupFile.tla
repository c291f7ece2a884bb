------------------------------ MODULE GroupFile ------------------------------
(***************************************************************************)
(* The files read by dibd/testboxd_libs.c.                                 *)
(*                                                                         *)
(* Group files (add_group_from_file) are read by three nested parsers, of  *)
(* groups, suites and cases, that share one FILE: a line goes to the       *)
(* innermost one, which ignores what it does not know.  At startup two     *)
(* configuration files are read, of libraries to load and of group files.  *)
(* A path may begin with an environment variable; create_path_from_env     *)
(* and replace_string put its value in.  The directory of the              *)
(* configuration files comes from --config or TESTBOXDIR.                  *)
(*                                                                         *)
(* A line is its kind, and where a name is needed its number stands for    *)
(* it: names in one file are different.  A group or suite that the         *)
(* registry holds already is only warned of, and added all the same.  A    *)
(* path is a sequence of parts.                                            *)
(***************************************************************************)
EXTENDS Integers, SequencesExt

CONSTANTS
    Files,   \* group files: sequences of LineKinds
    Paths,   \* what stands in a configuration file or an EXEC line
    Values   \* values of the environment variable, a sequence of parts

\* "GROUP()", "SUITE()" and "TC()" have an empty name; "TC?" names no test case and
\* "EXEC?" no executable; the path of an "EXEC bare" has no slash; "unclosed" is the
\* keyword a parser looks for without its closing bracket; "other" is a comment, an
\* empty line or anything else.
LineKinds == {"GROUP", "GROUP()", "SUITE", "SUITE()", "DESCR", "TC", "TC()", "TC?",
              "EXEC", "EXEC bare", "EXEC?", "END_SUITE", "END_GROUP", "unclosed", "other"}

\* Var is the first variable of the path; OtherVar one that is named after it.
Var == "Var"
OtherVar == "OtherVar"
PathParts == {"text", Var, OtherVar}

\* replace_string does not end when the value names the variable itself.
ASSUME FileAssumption ==
    /\ Files \subseteq Seq(LineKinds)
    /\ Paths \subseteq Seq(PathParts)
    /\ Values \subseteq Seq(PathParts \ {Var})

VARIABLES
    level,    \* the parser that reads the next line; "env": a path is expanded;
              \* "crashed": a null pointer was used
    conf,     \* the configuration file that is read: "libs", "groups", "none"
    file,     \* the group file
    pos,      \* lines of it read
    group,    \* group_info: the line of the group
    suite,    \* suite_info: the line of the suite, 0 for null
    members,  \* suites that were added, with their groups
    tests,    \* test cases and executables that were added, with their suites
    descr,    \* descriptions, with the suites they are for
    orig_path, envpath, path  \* replace_string: its arguments and its result so far

parseVars == <<group, suite, members, tests, descr>>
fileVars == <<level, conf, file, pos, parseVars, orig_path, envpath, path>>
pathVars == <<orig_path, envpath, path>>

\* Without --config and TESTBOXDIR the path of the first file is copied from null.
FileInit ==
    /\ level \in {"conf", "crashed"} /\ conf = "libs"
    /\ file = <<>> /\ pos = 0
    /\ group = 0 /\ suite = 0
    /\ members = {} /\ tests = {} /\ descr = {}
    /\ orig_path = <<>> /\ envpath = <<>> /\ path = <<>>

----------------------------------------------------------------------------
(* Paths: create_path_from_env and replace_string.                         *)

Mentions(p, v) == v \in Range(p)

\* A variable that is not set stands for itself.
Unset == <<Var>>

\* A line with a path p was read: look the variable up, if there is one.
ReadPath(p) ==
    /\ level' = "env"
    /\ orig_path' = p /\ path' = p
    /\ envpath' \in (IF Mentions(p, Var) THEN Values \cup {Unset} ELSE {Unset})

FirstVar(p) == SelectInSeq(p, LAMBDA part : part = Var)

ReplaceDropsRest(p, v) == SubSeq(p, 1, FirstVar(p) - 1) \o v
ReplaceFirst(p, v) ==
    SubSeq(p, 1, FirstVar(p) - 1) \o v \o SubSeq(p, FirstVar(p) + 1, Len(p))

Expanding == level = "env" /\ envpath # Unset /\ Mentions(path, Var)
Expanded  == level = "env" /\ ~Expanding

\* One turn of the loop: the text is searched from its start each time.
Replace ==
    /\ Expanding
    /\ path' = ReplaceFirst(path, envpath)
    /\ UNCHANGED <<level, conf, file, pos, parseVars, orig_path, envpath>>

PathUsed == orig_path' = <<>> /\ envpath' = <<>> /\ path' = <<>>

----------------------------------------------------------------------------
(* The configuration files: find_libs_from_conf_file, then                 *)
(* find_groups_from_conf_file.  They may have any number of lines, or be   *)
(* missing.  What a library holds is the subject of LibRegistry.           *)

ConfLine(p) ==
    /\ level = "conf"
    /\ ReadPath(p)
    /\ UNCHANGED <<conf, file, pos, parseVars>>

ConfEnd ==
    /\ level = "conf"
    /\ \/ conf = "libs" /\ conf' = "groups" /\ UNCHANGED level
       \/ conf = "groups" /\ conf' = "none" /\ level' = "none"
    /\ UNCHANGED <<file, pos, parseVars, pathVars>>

LoadLib ==
    /\ Expanded /\ conf = "libs"
    /\ level' = "conf"
    /\ PathUsed
    /\ UNCHANGED <<conf, file, pos, parseVars>>

\* add_group_from_file opens a file and begins with the parser of groups.
OpenFile ==
    /\ level' = "group"
    /\ file' \in Files
    /\ UNCHANGED <<conf, pos, parseVars>>

ConfFile ==
    /\ Expanded /\ conf = "groups" /\ pos = 0
    /\ PathUsed
    /\ \/ OpenFile
       \/ level' = "conf" /\ UNCHANGED <<conf, file, pos, parseVars>>

----------------------------------------------------------------------------
(* The three parsers.                                                      *)

Line == file[pos + 1]
AtLine(l, kinds) == level = l /\ pos < Len(file) /\ Line \in kinds /\ pos' = pos + 1
AtEnd(l) == level = l /\ pos = Len(file)
LevelGoes(l) == level' = l /\ UNCHANGED <<conf, file, pathVars>>

\* add_group_from_file: a group with a name.
GroupLine ==
    /\ AtLine("group", {"GROUP"})
    /\ LevelGoes("suite")
    /\ group' = pos'
    /\ suite' = 0
    /\ UNCHANGED <<members, tests, descr>>

\* The end of the file: the result is TB_OK, whatever was in it.
FileEnd ==
    /\ AtEnd("group")
    /\ level' = IF conf = "none" THEN "none" ELSE "conf"
    /\ file' = <<>> /\ pos' = 0 /\ group' = 0 /\ suite' = 0
    /\ members' = {} /\ tests' = {} /\ descr' = {}
    /\ UNCHANGED <<conf, pathVars>>

\* add_suite_from_file: a suite with a name is added to the group.  One without is
\* the one before it, added again, or none, a format error.
SuiteLine ==
    /\ AtLine("suite", {"SUITE", "SUITE()"})
    /\ suite' = IF Line = "SUITE" THEN pos' ELSE suite
    /\ \/ suite' # 0 /\ LevelGoes("case") /\ members' = members \cup {<<group, suite'>>}
       \/ suite' = 0 /\ LevelGoes("group") /\ UNCHANGED members
    /\ UNCHANGED <<group, tests, descr>>

GroupEnds ==
    /\ AtLine("suite", {"END_GROUP"})
    /\ LevelGoes("group")
    /\ UNCHANGED parseVars

\* add_tc_from_file.
DescrLine ==
    /\ AtLine("case", {"DESCR"})
    /\ LevelGoes("case")
    /\ descr' = {d \in descr : d[1] # suite} \cup {<<suite, pos'>>}
    /\ UNCHANGED <<group, suite, members, tests>>

TestLine ==
    /\ AtLine("case", {"TC"})
    /\ LevelGoes("case")
    /\ tests' = tests \cup {<<suite, pos'>>}
    /\ UNCHANGED <<group, suite, members, descr>>

ExecLine(p) ==
    /\ AtLine("case", {"EXEC", "EXEC bare", "EXEC?"})
    /\ ReadPath(p)
    /\ UNCHANGED <<conf, file, parseVars>>

\* The path of an EXEC line is complete: add the program if it can be run.
AddExec ==
    /\ Expanded /\ pos > 0
    /\ level' = "case"
    /\ \/ file[pos] \in {"EXEC", "EXEC bare"} /\ tests' = tests \cup {<<suite, pos>>}
       \/ file[pos] # "EXEC" /\ UNCHANGED tests
    /\ PathUsed
    /\ UNCHANGED <<conf, file, pos, group, suite, members, descr>>

\* Without a slash strrchr gives null, and strtok goes on in the string it split
\* last: it finds a name there, or none, which is used, or has no string at all.
NoSlash ==
    /\ Expanded /\ pos > 0 /\ file[pos] = "EXEC bare"
    /\ level' = "crashed"
    /\ PathUsed
    /\ UNCHANGED <<conf, file, pos, parseVars>>

SuiteEndsGroup ==
    /\ AtLine("case", {"END_SUITE"})
    /\ LevelGoes("group")
    /\ UNCHANGED parseVars

SuiteEnds ==
    /\ AtLine("case", {"END_SUITE"})
    /\ LevelGoes("suite")
    /\ UNCHANGED parseVars

\* What each parser knows; anything else is skipped, and a test that is not found.
Known == [group |-> {"GROUP", "unclosed"},
          suite |-> {"SUITE", "SUITE()", "END_GROUP", "unclosed"},
          case  |-> {"DESCR", "TC", "EXEC", "EXEC bare", "EXEC?", "END_SUITE", "unclosed"}]

Skip ==
    \E l \in DOMAIN Known :
        /\ AtLine(l, LineKinds \ Known[l])
        /\ LevelGoes(l)
        /\ UNCHANGED parseVars

EndInsideSuiteOnly ==
    /\ AtEnd("suite") /\ LevelGoes("group")
    /\ UNCHANGED <<pos, parseVars>>

\* The file ends inside a group or suite: the parsers return a format error, which
\* the one outside ignores.
EndInside ==
    /\ \/ AtEnd("case") /\ LevelGoes("suite")
       \/ AtEnd("suite") /\ LevelGoes("group")
    /\ UNCHANGED <<pos, parseVars>>

\* The closing bracket is looked for, and written to where it is not.
Unclosed ==
    \E l \in DOMAIN Known :
        /\ AtLine(l, {"unclosed"})
        /\ LevelGoes("crashed")
        /\ UNCHANGED parseVars

\* strtok finds no name in TC(), and the lookup may use the null pointer.
NoTest ==
    /\ AtLine("case", {"TC()"})
    /\ LevelGoes("crashed")
    /\ UNCHANGED parseVars

FileStep ==
    \/ Replace
    \/ \E p \in Paths : ConfLine(p) \/ ExecLine(p)
    \/ ConfEnd
    \/ LoadLib
    \/ ConfFile
    \/ GroupLine
    \/ FileEnd
    \/ SuiteLine
    \/ GroupEnds
    \/ DescrLine
    \/ TestLine
    \/ AddExec
    \/ NoSlash
    \/ SuiteEnds
    \/ Skip
    \/ EndInside
    \/ Unclosed
    \/ NoTest

----------------------------------------------------------------------------
(* Properties.                                                             *)

FileTypeOK ==
    /\ level \in {"conf", "env", "group", "suite", "case", "none", "crashed"}
    /\ conf \in {"libs", "groups", "none"}
    /\ file \in Seq(LineKinds)
    /\ pos \in 0..Len(file)
    /\ group \in 0..pos /\ suite \in 0..pos
    /\ \A s \in members : s \in (1..pos) \X (1..pos)
    /\ \A t \in tests : t[1] \in {s[2] : s \in members}
    /\ {orig_path, path, envpath} \subseteq Seq(PathParts)

\* Every occurrence of the variable is replaced, as if all were at once.
PathFullyExpanded ==
    Expanded =>
        path = FlattenSeq([j \in DOMAIN orig_path |->
                              IF orig_path[j] = Var THEN envpath ELSE <<orig_path[j]>>])

\* The grammar of group files: which line may follow which, comments left out.
SuiteParts == {"DESCR", "TC", "EXEC", "END_SUITE"}
MayFollow == [GROUP |-> {"SUITE", "END_GROUP"}, END_GROUP |-> {"GROUP"},
              SUITE |-> SuiteParts, DESCR |-> SuiteParts, TC |-> SuiteParts, EXEC |-> SuiteParts,
              END_SUITE |-> {"SUITE", "END_GROUP"}]

\* Line j is the first after line i (0: the start of the file) that is none.
Follows(i, j) == i < j /\ \A x \in (i + 1)..(j - 1) : file[x] = "other"

WellFormedFile ==
    \A j \in DOMAIN file : file[j] # "other" =>
        /\ file[j] \in DOMAIN MayFollow
        /\ Follows(0, j) => file[j] = "GROUP"
        /\ \A i \in 1..(j - 1) : Follows(i, j) /\ file[i] # "other" => file[j] \in MayFollow[file[i]]
        /\ Follows(j, Len(file) + 1) => file[j] = "END_GROUP"

\* The lines of a kind, each with the last line of another kind before it.
Inside(kinds, outer) ==
    {d \in (DOMAIN file) \X (DOMAIN file) :
        /\ d[1] < d[2] /\ file[d[1]] = outer /\ file[d[2]] \in kinds
        /\ \A y \in (d[1] + 1)..(d[2] - 1) : file[y] # outer}

\* A group file that keeps to the grammar is understood: every suite goes to the
\* group it is written in, every test case and program to its suite, and the last
\* description of a suite counts.
FileMeansGroups ==
    AtEnd("group") /\ WellFormedFile =>
        /\ members = Inside({"SUITE"}, "GROUP")
        /\ tests = Inside({"TC", "EXEC"}, "SUITE")
        /\ descr = {d \in Inside({"DESCR"}, "SUITE") :
                       \A e \in Inside({"DESCR"}, "SUITE") : e[1] = d[1] => e[2] <= d[2]}

=============================================================================
