------------------------------ MODULE StepMode ------------------------------
(***************************************************************************)
(* stepmode of dibd/testboxd_args.c: the user of the daemon's terminal     *)
(* steps through the cases of a suite, one key at a time.                  *)
(*                                                                         *)
(* The cases of the suite are 0 .. k-1.  Each key is one action, except    *)
(* that r runs the remaining cases one by one.                             *)
(***************************************************************************)
EXTENDS Integers, Sequences

CONSTANTS
    NoCase,      \* the null result of the lookup
    EndOfInput   \* stdin is at its end, as a daemon's /dev/null always is

ASSUME StepAssumption == NoCase \notin Nat /\ EndOfInput \in BOOLEAN

VARIABLES
    session,  \* "off", waiting for a key, running the rest of the suite, or down
    key,      \* the last key
    i,        \* the cursor
    k,        \* the size of the suite, read once
    test,     \* the case looked up last
    prompt,   \* the case the user was asked about
    ran       \* the cases run for the last key, in order

stepVars == <<session, key, i, k, test, prompt, ran>>

RunKeys  == {"a", "b", "c"}
Keys     == RunKeys \cup {"n", "p", "h", "r", "other"}

LookupCase(j) == IF j \in 0..(k' - 1) THEN j ELSE NoCase

StepReset ==
    /\ session' = "off" /\ key' = "other"
    /\ i' = 0 /\ k' = 0
    /\ test' = NoCase /\ prompt' = NoCase
    /\ ran' = <<>>

StepInit ==
    /\ session = "off" /\ key = "other"
    /\ i = 0 /\ k = 0
    /\ test = NoCase /\ prompt = NoCase
    /\ ran = <<>>

\* Look the case at the cursor up and ask about it.  The name of a case that is
\* not there is read through a null pointer.
Ask ==
    /\ test' = LookupCase(i')
    /\ prompt' = test'
    /\ session' \in {"key"} \cup (IF test' = NoCase THEN {"crashed"} ELSE {})

BeginStepping(size) ==
    /\ session = "off"
    /\ k' = size /\ i' = 0
    /\ key' = "other" /\ ran' = <<>>
    /\ Ask

NextPastEnd(j) == j + 1
NextCase(j)    == IF j + 1 >= k THEN j ELSE j + 1
PrevCase(j)    == IF j - 1 <= -1 THEN 0 ELSE j - 1

Moved(c) == IF c \in {"a", "n"} THEN NextCase(i)
            ELSE IF c \in {"b", "p"} THEN PrevCase(i) ELSE i

\* a, b, c, n, p, h: run the current case or not, move, ask again.
Press(c) ==
    /\ session = "key" /\ ~EndOfInput
    /\ c \in {"a", "b", "c", "n", "p", "h"}
    /\ c \in RunKeys => test # NoCase
    /\ key' = c
    /\ ran' = IF c \in RunKeys THEN <<test>> ELSE <<>>
    /\ i' = Moved(c)
    /\ k' = k
    /\ Ask

\* A case that is not there is run.
PressWithoutCase ==
    /\ session = "key" /\ ~EndOfInput /\ test = NoCase
    /\ session' = "crashed"
    /\ UNCHANGED <<key, i, k, test, prompt, ran>>

\* Any other key, and the end of the input, do nothing.
PressOther ==
    /\ session = "key"
    /\ key' = "other" /\ ran' = <<>>
    /\ UNCHANGED <<session, i, k, test, prompt>>

\* r: nothing to run when the cursor is past the end already.
PressRun ==
    /\ session = "key" /\ ~EndOfInput
    /\ key' = "r" /\ ran' = <<>>
    /\ k' = k /\ i' = i
    /\ IF i < k THEN session' = "running" /\ UNCHANGED <<test, prompt>> ELSE Ask

\* Run one case; ask again about the last one at the end of the suite.
RunNext ==
    /\ session = "running"
    /\ ran' = Append(ran, test)
    /\ k' = k /\ key' = key
    /\ \/ i + 1 >= k /\ i' = i /\ Ask
       \/ i + 1 < k /\ i' = i + 1 /\ test' = LookupCase(i') /\ UNCHANGED <<session, prompt>>

\* e ends the session.
PressEnd == session = "key" /\ ~EndOfInput /\ StepReset

User == (\E c \in Keys : Press(c)) \/ PressWithoutCase \/ PressOther \/ PressRun

----------------------------------------------------------------------------
(* Properties.                                                             *)

StepTypeOK ==
    /\ session \in {"off", "key", "running", "crashed"}
    /\ key \in Keys
    /\ k \in Nat
    /\ i \in 0..k
    /\ test \in 0..(k - 1) \cup {NoCase}
    /\ prompt \in 0..(k - 1) \cup {NoCase}
    /\ \A j \in DOMAIN ran : ran[j] \in 0..(k - 1)

\* The cases a key runs, given the one the user was asked about.
HelpRuns(c, shown) ==
    IF c \in RunKeys THEN <<shown>>
    ELSE IF c = "r" THEN [j \in 1..(k - shown) |-> shown + j - 1] ELSE <<>>

\* The case a key leads to: the neighbour if there is one, the last after r.
HelpShows(c, shown) ==
    LET neighbour == IF c \in {"a", "n"} THEN shown + 1 ELSE shown - 1
    IN IF c = "r" THEN k - 1
       ELSE IF c \in {"c", "h"} \/ neighbour \notin 0..(k - 1) THEN shown ELSE neighbour

\* Every key does what the help of step mode says, to the case the user was
\* asked about ("Run current case and step to next case", ..., "Run until end of
\* suite"): what is looked up, shown and run never differ.
StepsAsHelpSays ==
    [][k > 0 /\ key' # "other" /\ session \in {"key", "running"} /\ session' = "key" =>
          /\ ran' = HelpRuns(key', prompt)
          /\ prompt' = HelpShows(key', prompt)]_stepVars

=============================================================================
