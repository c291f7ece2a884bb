--------------------------- MODULE StepModeProofs ---------------------------
(***************************************************************************)
(* Lemmas about StepMode, for suites of any size.  CmdParse performs these *)
(* actions while a socket thread is in step mode, and CmdParseProofs draws *)
(* the conclusion for its specification.                                   *)
(***************************************************************************)
EXTENDS StepMode, TLAPS

\* The cursor stays inside a suite that has cases, the case looked up is the one
\* at the cursor, and the user was asked about it; while r runs the rest of the
\* suite, the cases from the one asked about up to the cursor have been run.
CursorInv ==
    /\ session \in {"key", "running"} /\ k > 0 => i < k /\ test = i
    /\ session = "key" /\ k > 0 => prompt = i
    /\ session = "running" =>
          /\ key = "r" /\ k > 0
          /\ prompt \in 0..i
          /\ ran = [j \in 1..(i - prompt) |-> prompt + j - 1]

StepInv == StepTypeOK /\ ran \in Seq(0..(k - 1)) /\ CursorInv

----------------------------------------------------------------------------
\* The session has not begun, or has ended.
LEMMA StepInitInv == StepInit => StepInv
  BY DEF StepInit, StepInv, StepTypeOK, CursorInv, Keys

LEMMA StepResetInv == ASSUME StepReset PROVE StepInv'
  BY DEF StepReset, StepInv, StepTypeOK, CursorInv, Keys

LEMMA StepStutterInv == ASSUME StepInv, UNCHANGED stepVars PROVE StepInv'
  BY DEF stepVars, StepInv, StepTypeOK, CursorInv

LEMMA BelowSize ==
  ASSUME NEW j \in Int, NEW size \in Int, 0 <= j, j < size
  PROVE  j \in 0..(size - 1)
  OBVIOUS

\* Asking leaves the user with the case at the cursor, or without one.
LEMMA AskInv ==
  ASSUME Ask, k' \in Nat, i' \in 0..k', k' > 0 => i' < k',
         key' \in Keys, ran' \in Seq(0..(k' - 1))
  PROVE  StepInv'
  <1>1. /\ test' = (IF i' \in 0..(k' - 1) THEN i' ELSE NoCase) /\ prompt' = test'
        /\ session' \in {"key", "crashed"}
    BY DEF Ask, LookupCase
  <1>2. \A j \in DOMAIN ran' : ran'[j] \in 0..(k' - 1) OBVIOUS
  <1>3. StepTypeOK' BY <1>1, <1>2 DEF StepTypeOK
  <1>4. CursorInv'
    <2>1. ASSUME k' > 0 PROVE test' = i' /\ prompt' = i'
      <3>1. i' \in Int /\ k' \in Int /\ 0 <= i' /\ i' < k' BY <2>1
      <3>2. i' \in 0..(k' - 1) BY <3>1, BelowSize
      <3> QED BY <1>1, <3>2
    <2> QED BY <1>1, <2>1 DEF CursorInv
  <1> QED BY <1>3, <1>4 DEF StepInv

LEMMA BeginInv == ASSUME NEW size \in Nat, BeginStepping(size) PROVE StepInv'
  <1>1. k' = size /\ i' = 0 /\ key' \in Keys /\ ran' = <<>> /\ Ask
    BY DEF BeginStepping, Keys
  <1>2. ran' \in Seq(0..(k' - 1)) BY <1>1
  <1> QED BY <1>1, <1>2, AskInv

LEMMA PressInv == ASSUME StepInv, NEW c \in Keys, Press(c) PROVE StepInv'
  <1>1. /\ session = "key" /\ k' = k /\ k \in Nat /\ i \in 0..k /\ (k > 0 => i < k) /\ key' \in Keys
        /\ ran' = IF c \in RunKeys THEN <<test>> ELSE <<>>
        /\ c \in RunKeys => test \in 0..(k - 1)
        /\ i' = Moved(c) /\ Ask
    BY DEF Press, StepInv, StepTypeOK, CursorInv
  <1>2. i' \in 0..k /\ (k > 0 => i' < k) BY <1>1 DEF Moved, NextCase, PrevCase
  <1>3. ran' \in Seq(0..(k - 1))
    <2>1. ASSUME test \in 0..(k - 1) PROVE <<test>> \in Seq(0..(k - 1)) BY <2>1
    <2>2. <<>> \in Seq(0..(k - 1)) OBVIOUS
    <2> QED BY <1>1, <2>1, <2>2
  <1> QED BY <1>1, <1>2, <1>3, AskInv

LEMMA PressRunInv == ASSUME StepInv, PressRun PROVE StepInv'
  <1>1. /\ session = "key" /\ k' = k /\ i' = i /\ k \in Nat /\ i \in 0..k /\ (k > 0 => i < k)
        /\ key' = "r" /\ ran' = <<>> /\ ran' \in Seq(0..(k - 1))
    BY DEF PressRun, StepInv, StepTypeOK, CursorInv
  <1>2. CASE i < k
    <2>1. session' = "running" /\ test' = test /\ prompt' = prompt BY <1>2 DEF PressRun
    <2>2. test = i /\ prompt = i /\ k > 0 BY <1>1, <1>2 DEF StepInv, CursorInv
    <2>3. StepTypeOK' BY <1>1, <2>1 DEF StepInv, StepTypeOK, Keys
    <2>4. ran' = [j \in 1..(i' - prompt') |-> prompt' + j - 1] BY <1>1, <2>1, <2>2
    <2>5. CursorInv' BY <1>1, <1>2, <2>1, <2>2, <2>4 DEF CursorInv
    <2> QED BY <1>1, <2>3, <2>5 DEF StepInv
  <1>3. CASE ~(i < k)
    BY <1>1, <1>3, AskInv DEF PressRun, Keys
  <1> QED BY <1>2, <1>3

\* One more case of the rest of the suite has been run.
LEMMA RunNextRan ==
  ASSUME StepInv, RunNext
  PROVE  /\ session = "running" /\ key = "r" /\ i \in 0..(k - 1) /\ k \in Nat /\ k' = k /\ key' = key
         /\ test = i /\ prompt \in 0..i /\ ran' \in Seq(0..(k - 1))
         /\ ran' = [j \in 1..(i + 1 - prompt) |-> prompt + j - 1]
  <1>1. /\ session = "running" /\ key = "r" /\ i \in 0..(k - 1) /\ k \in Nat /\ k' = k /\ key' = key
        /\ test = i /\ prompt \in 0..i /\ ran \in Seq(0..(k - 1)) /\ ran' = Append(ran, i)
        /\ ran = [j \in 1..(i - prompt) |-> prompt + j - 1]
    BY DEF RunNext, StepInv, StepTypeOK, CursorInv
  <1>2. ran' \in Seq(0..(k - 1)) BY <1>1
  <1>3. Len(ran) = i - prompt BY <1>1
  <1>4. ran' = [j \in 1..(i + 1 - prompt) |-> prompt + j - 1] BY <1>1, <1>3
  <1> QED BY <1>1, <1>2, <1>4

LEMMA RunNextInv == ASSUME StepInv, RunNext PROVE StepInv'
  <1>1. /\ session = "running" /\ key' = "r" /\ k' = k /\ k \in Nat /\ i \in 0..(k - 1)
        /\ prompt \in 0..i /\ ran' \in Seq(0..(k - 1))
        /\ ran' = [j \in 1..(i + 1 - prompt) |-> prompt + j - 1]
    BY RunNextRan
  <1>2. CASE i' = i /\ Ask BY <1>1, <1>2, AskInv DEF Keys
  <1>3. CASE i + 1 < k /\ i' = i + 1 /\ test' = LookupCase(i') /\ UNCHANGED <<session, prompt>>
    <2>0. i' \in 0..(k' - 1) BY <1>1, <1>3
    <2>1. test' = i' /\ i' \in 0..(k - 1) BY <1>1, <1>3, <2>0 DEF LookupCase
    <2>2. StepTypeOK' BY <1>1, <1>3, <2>1 DEF StepTypeOK, Keys
    <2>3. CursorInv' BY <1>1, <1>3, <2>1 DEF CursorInv
    <2> QED BY <1>1, <2>2, <2>3 DEF StepInv
  <1> QED BY <1>2, <1>3 DEF RunNext

LEMMA UserInv == ASSUME StepInv, User PROVE StepInv'
  <1>1. CASE PressWithoutCase
    BY <1>1 DEF PressWithoutCase, StepInv, StepTypeOK, CursorInv
  <1>2. CASE PressOther
    <2>1. ran' = <<>> /\ ran' \in Seq(0..(k - 1)) /\ k' = k BY <1>2 DEF PressOther
    <2> QED BY <1>2, <2>1 DEF PressOther, StepInv, StepTypeOK, CursorInv, Keys
  <1> QED BY <1>1, <1>2, PressInv, PressRunInv DEF User

----------------------------------------------------------------------------
(* What the help promises of a key, by the key.                            *)

HelpKept == /\ ran' = HelpRuns(key', prompt)
            /\ prompt' = HelpShows(key', prompt)

LEMMA PressHelps ==
  ASSUME StepInv, k > 0, NEW c \in Keys, Press(c)
  PROVE  HelpKept
  <1>1. /\ k \in Nat /\ i \in 0..(k - 1) /\ test = i /\ prompt = i /\ key' = c /\ k' = k
        /\ c \in {"a", "b", "c", "n", "p", "h"}
        /\ ran' = IF c \in RunKeys THEN <<test>> ELSE <<>>
        /\ i' = Moved(c) /\ prompt' = LookupCase(i')
    BY DEF Press, Ask, StepInv, StepTypeOK, CursorInv
  <1>2. ran' = HelpRuns(c, prompt) BY <1>1 DEF HelpRuns
  <1>3. i' \in 0..(k - 1) BY <1>1 DEF Moved, NextCase, PrevCase
  <1>4. prompt' = i' BY <1>1, <1>3 DEF LookupCase
  <1>5. i' = HelpShows(c, i) BY <1>1 DEF Moved, NextCase, PrevCase, HelpShows
  <1> QED BY <1>1, <1>2, <1>4, <1>5 DEF HelpKept

LEMMA RunHelps ==
  ASSUME StepInv, RunNext, session' = "key"
  PROVE  HelpKept
  <1>1. /\ session = "running" /\ key' = "r" /\ k' = k /\ k \in Nat /\ i \in 0..(k - 1)
        /\ prompt \in 0..i /\ ran' = [j \in 1..(i + 1 - prompt) |-> prompt + j - 1]
    BY RunNextRan
  <1>2. i + 1 >= k /\ i' = i /\ Ask BY <1>1 DEF RunNext
  <1>3. i = k - 1 BY <1>1, <1>2
  <1>4. prompt' = k - 1 BY <1>1, <1>2, <1>3 DEF Ask, LookupCase
  <1>5. k - prompt = i + 1 - prompt BY <1>1, <1>3
  <1>6. ran' = HelpRuns("r", prompt) BY <1>1, <1>5 DEF HelpRuns, RunKeys
  <1> QED BY <1>1, <1>4, <1>6 DEF HelpKept, HelpShows

\* Whatever the user does, and while r runs on, the help of the key is kept.
LEMMA UserHelps ==
  ASSUME StepInv, User \/ RunNext, k > 0, key' # "other", session' = "key"
  PROVE  HelpKept
  <1>1. ~PressWithoutCase /\ ~PressOther BY DEF PressWithoutCase, PressOther
  <1>2. ~PressRun BY DEF PressRun, StepInv, StepTypeOK, CursorInv
  <1> QED BY <1>1, <1>2, PressHelps, RunHelps DEF User

=============================================================================
