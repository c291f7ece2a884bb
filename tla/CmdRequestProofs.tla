-------------------------- MODULE CmdRequestProofs --------------------------
(***************************************************************************)
(* What a request means, for commands of any length and any tokens: the    *)
(* options count as they are written, the rest is forwarded to the test,   *)
(* and times are what they say.                                            *)
(***************************************************************************)
EXTENDS CmdParseProofs, FiniteSetTheorems

----------------------------------------------------------------------------
(* Times.                                                                  *)

\* The first colon behind a place is the only one up to it.
LEMMA ColonIs ==
  ASSUME NEW t \in Seq(Chars), NEW p \in Int, p >= -1, NEW e \in Nat, p < e, e < Len(t),
         t[e + 1] = Colon, \A q \in (p + 1)..(e - 1) : t[q + 1] # Colon
  PROVE  ColonAfter(t, p) = e
  <1> DEFINE S == {q \in (p + 1)..(Len(t) - 1) : t[q + 1] = Colon}
  <1>1. e \in S OBVIOUS
  <1>2. S \in SUBSET Nat OBVIOUS
  <1>3. \A q \in S : q >= e OBVIOUS
  <1>4. ColonAfter(t, p) = Min(S) BY <1>1 DEF ColonAfter
  <1> HIDE DEF S
  <1>5. Min(S) \in S /\ Min(S) <= e BY <1>1, <1>2, SmallestExists
  <1>6. Min(S) \in Nat BY <1>2, <1>5
  <1> QED BY <1>3, <1>4, <1>5, <1>6

\* A field of one or two digits is converted to what it says.
LEMMA FieldIs ==
  ASSUME NEW t \in Seq(Chars), NEW from \in Int, NEW to \in 1..Len(t), NEW tmp,
         NEW width \in {1, 2}, to - from - 1 = width, from >= -1,
         t[to] \in Digits, width = 2 => t[to - 1] \in Digits
  PROVE  Atoi(Copy(t, from, to, tmp)) = IF width = 1 THEN t[to] ELSE 10 * t[to - 1] + t[to]
  <1> DEFINE s == SubSeq(t, to - width + 1, to)
  <1>1. Copy(t, from, to, tmp) = s BY DEF Copy
  <1>2. to - width + 1 >= 1 /\ to - width + 1 \in Int /\ to \in Int OBVIOUS
  <1>3. \A q \in (to - width + 1)..to : t[q] \in Chars BY <1>2
  <1>4. /\ Len(s) = width
        /\ \A q \in 1..width : s[q] = t[to - width + q]
    <2>1. /\ Len(s) = IF to - width + 1 <= to THEN to - (to - width + 1) + 1 ELSE 0
          /\ \A q \in 1..(to - (to - width + 1) + 1) : s[q] = t[to - width + 1 + q - 1]
      BY <1>2, <1>3, SubSeqProperties
    <2> QED BY <2>1
  <1> HIDE DEF s
  <1>5. s # <<>> BY <1>4
  <1>6. CASE width = 1
    <2>1. Len(s) = 1 /\ s[1] = t[to] BY <1>4, <1>6
    <2> QED BY <1>1, <1>5, <1>6, <2>1 DEF Atoi
  <1>7. CASE width = 2
    <2>1. Len(s) = 2 /\ s[1] = t[to - 1] /\ s[2] = t[to] BY <1>4, <1>7
    <2> QED BY <1>1, <1>5, <1>7, <2>1 DEF Atoi
  <1> QED BY <1>6, <1>7

\* A time of four fields is converted to what it means, whatever the buffer held.
LEMMA TimeIsMeant ==
  ASSUME NEW t \in Seq(Chars), NEW w \in Widths, IsTime(t, w), NEW stack
  PROVE  ~TimeTooShort(t) /\ TimeStrToSec(t, stack) = MeantSeconds(t, w)
  <1> DEFINE w1 == w[1]
             w2 == w[2]
             w3 == w[3]
             w4 == w[4]
             e1 == w1
             e2 == w1 + w2 + 1
             e3 == w1 + w2 + w3 + 2
             e4 == w1 + w2 + w3 + w4 + 3
  <1>1. /\ w1 \in Int /\ w2 \in Int /\ w3 \in Int /\ w4 \in Int
        /\ (w1 = 1 \/ w1 = 2) /\ (w2 = 1 \/ w2 = 2) /\ (w3 = 1 \/ w3 = 2) /\ (w4 = 1 \/ w4 = 2)
    <2>1. \A n \in 1..4 : w[n] = 1 \/ w[n] = 2 BY DEF Widths
    <2> QED BY <2>1
  <1>2. FieldEnds(w) = <<e1, e2, e3, e4>> BY DEF FieldEnds
  <1>3. Len(t) = e4 BY <1>2 DEF IsTime
  <1>4. t[e1 + 1] = Colon /\ t[e2 + 1] = Colon /\ t[e3 + 1] = Colon
    <2>1. e1 \in 0..(Len(t) - 1) /\ e2 \in 0..(Len(t) - 1) /\ e3 \in 0..(Len(t) - 1)
      <3> HIDE DEF w1, w2, w3, w4
      <3> QED BY <1>1, <1>3
    <2> HIDE DEF e1, e2, e3, e4
    <2> QED BY <1>2, <2>1 DEF IsTime
  <1>5. \A p \in 0..(Len(t) - 1) : p # e1 /\ p # e2 /\ p # e3 => t[p + 1] \in Digits
    <2> HIDE DEF e1, e2, e3, e4
    <2> QED BY <1>2 DEF IsTime
  <1>6. \A c \in Digits : c # Colon /\ c \in Int BY DEF Digits, Colon
  <1>7. /\ e1 \in Nat /\ e2 \in Nat /\ e3 \in Nat /\ e4 \in Nat
        /\ e1 = w1 /\ e2 = e1 + w2 + 1 /\ e3 = e2 + w3 + 1 /\ e4 = e3 + w4 + 1
        /\ e1 > 0
    <2> HIDE DEF w1, w2, w3, w4
    <2> QED BY <1>1
  <1> DEFINE v1 == FieldValue(t, w, 1)
             v2 == FieldValue(t, w, 2)
             v3 == FieldValue(t, w, 3)
             v4 == FieldValue(t, w, 4)
  <1>9. /\ v1 = IF w1 = 1 THEN t[e1] ELSE 10 * t[e1 - 1] + t[e1]
        /\ v2 = IF w2 = 1 THEN t[e2] ELSE 10 * t[e2 - 1] + t[e2]
        /\ v3 = IF w3 = 1 THEN t[e3] ELSE 10 * t[e3 - 1] + t[e3]
        /\ v4 = IF w4 = 1 THEN t[e4] ELSE 10 * t[e4 - 1] + t[e4]
    <2> HIDE DEF e1, e2, e3, e4
    <2> QED BY <1>2 DEF FieldValue
  <1> HIDE DEF w1, w2, w3, w4, e1, e2, e3, e4, v1, v2, v3, v4
  \* the colons
  <1>10. ColonAfter(t, -1) = e1
    <2>1. \A q \in 0..(e1 - 1) : t[q + 1] # Colon BY <1>1, <1>3, <1>5, <1>6, <1>7
    <2> QED BY <1>1, <1>3, <1>4, <1>7, <2>1, ColonIs
  <1>11. ColonAfter(t, e1) = e2
    <2>1. \A q \in (e1 + 1)..(e2 - 1) : t[q + 1] # Colon BY <1>1, <1>3, <1>5, <1>6, <1>7
    <2> QED BY <1>1, <1>3, <1>4, <1>7, <2>1, ColonIs
  <1>12. ColonAfter(t, e2) = e3
    <2>1. \A q \in (e2 + 1)..(e3 - 1) : t[q + 1] # Colon BY <1>1, <1>3, <1>5, <1>6, <1>7
    <2> QED BY <1>1, <1>3, <1>4, <1>7, <2>1, ColonIs
  \* the fields
  <1>13. \A p \in 1..Len(t) : p # e1 + 1 /\ p # e2 + 1 /\ p # e3 + 1 => t[p] \in Digits
    <2> TAKE p \in 1..Len(t)
    <2>1. p - 1 \in 0..(Len(t) - 1) /\ (p - 1) + 1 = p OBVIOUS
    <2>2. p # e1 + 1 /\ p # e2 + 1 /\ p # e3 + 1 => p - 1 # e1 /\ p - 1 # e2 /\ p - 1 # e3
      BY <1>7
    <2> QED BY <1>5, <2>1, <2>2
  <1>14. \A tmp : Atoi(Copy(t, -1, e1, tmp)) = v1
    <2>1. t[e1] \in Digits /\ (w1 = 2 => t[e1 - 1] \in Digits) BY <1>3, <1>1, <1>7, <1>13
    <2>2. e1 \in 1..Len(t) /\ e1 - (-1) - 1 = w1 BY <1>3, <1>1, <1>7
    <2> QED BY <1>1, <1>9, <2>1, <2>2, FieldIs
  <1>15. \A tmp : Atoi(Copy(t, e1, e2, tmp)) = v2
    <2>1. t[e2] \in Digits /\ (w2 = 2 => t[e2 - 1] \in Digits) BY <1>3, <1>1, <1>7, <1>13
    <2>2. e2 \in 1..Len(t) /\ e1 >= -1 BY <1>3, <1>1, <1>7
    <2> QED BY <1>1, <1>7, <1>9, <2>1, <2>2, FieldIs
  <1>16. \A tmp : Atoi(Copy(t, e2, e3, tmp)) = v3
    <2>1. t[e3] \in Digits /\ (w3 = 2 => t[e3 - 1] \in Digits) BY <1>3, <1>1, <1>7, <1>13
    <2>2. e3 \in 1..Len(t) /\ e2 >= -1 BY <1>3, <1>1, <1>7
    <2> QED BY <1>1, <1>7, <1>9, <2>1, <2>2, FieldIs
  <1>17. \A tmp : Atoi(Copy(t, e3, e4, tmp)) = v4
    <2>1. t[e4] \in Digits /\ (w4 = 2 => t[e4 - 1] \in Digits) BY <1>3, <1>1, <1>7, <1>13
    <2>2. e4 \in 1..Len(t) /\ e3 >= -1 BY <1>3, <1>1, <1>7
    <2> QED BY <1>1, <1>7, <1>9, <2>1, <2>2, FieldIs
  <1>18. v1 \in Int /\ v2 \in Int /\ v3 \in Int /\ v4 \in Int
    <2>1. ASSUME NEW tmp PROVE Atoi(tmp) \in Int
      <3>1. Atoi(tmp) \in 0..99 BY AtoiBound
      <3>2. \A x \in 0..99 : x \in Int OBVIOUS
      <3> QED BY <3>1, <3>2
    <2> QED BY <1>14, <1>15, <1>16, <1>17, <2>1
  <1>19. TimeStrToSec(t, stack) = v1 * 86400 + v2 * 3600 + v3 * 60 + v4
    <2> DEFINE d == ColonAfter(t, -1)
               h == IF d < 0 THEN -1 ELSE ColonAfter(t, d)
               m == IF h < 0 THEN -1 ELSE ColonAfter(t, h)
               dd == IF d > 0 THEN Copy(t, -1, d, stack) ELSE stack
               hh == IF h - d > 1 THEN Copy(t, d, h, dd) ELSE dd
               mm == IF m - h > 1 THEN Copy(t, h, m, hh) ELSE hh
               ss == Copy(t, m, Len(t), mm)
    <2>1. TimeStrToSec(t, stack)
            = (IF d > 0 THEN Atoi(dd) * 86400 ELSE 0)
                + (IF h - d > 1 THEN Atoi(hh) * 3600 ELSE 0)
                + (IF m - h > 1 THEN Atoi(mm) * 60 ELSE 0)
                + (IF Len(t) > 3 THEN Atoi(ss) ELSE 0)
      BY DEF TimeStrToSec
    <2>2. e1 > 0 /\ ~(e1 < 0) /\ ~(e2 < 0) /\ e2 - e1 > 1 /\ e3 - e2 > 1 /\ Len(t) > 3
      BY <1>1, <1>3, <1>7
    <2>3. d = e1 BY <1>10
    <2> HIDE DEF d
    <2>4. h = e2 BY <1>11, <2>2, <2>3
    <2> HIDE DEF h
    <2>5. m = e3 BY <1>12, <2>2, <2>4
    <2> HIDE DEF m
    <2>6. Atoi(dd) = v1 BY <1>14, <2>2, <2>3
    <2> HIDE DEF dd
    <2>7. Atoi(hh) = v2 BY <1>15, <2>2, <2>3, <2>4
    <2> HIDE DEF hh
    <2>8. Atoi(mm) = v3 BY <1>16, <2>2, <2>4, <2>5
    <2> HIDE DEF mm
    <2>9. Atoi(ss) = v4 BY <1>3, <1>17, <2>5
    <2> HIDE DEF ss
    <2> QED BY <1>18, <2>1, <2>2, <2>3, <2>4, <2>5, <2>6, <2>7, <2>8, <2>9
  <1>20. MeantSeconds(t, w) = ((v1 * 24 + v2) * 60 + v3) * 60 + v4 BY DEF MeantSeconds, v1, v2, v3, v4
  <1>21. Len(t) >= 3 BY <1>3, <1>1, <1>7
  <1>22. ~TimeTooShort(t) BY <1>21 DEF TimeTooShort
  <1> QED BY <1>18, <1>19, <1>20, <1>22

----------------------------------------------------------------------------
(* The tokens that are values.                                             *)

Takes(c, j) == c[j].text \in TakesValue

\* A place is a value if the options with values in front of it come in an odd
\* number: every second of them is the value of the one in front of it.
OddRun(c, j) ==
    \E s \in 1..(j - 1), n \in Nat :
        /\ j = s + 2 * n + 1
        /\ s = 1 \/ ~Takes(c, s - 1)
        /\ \A q \in s..(j - 1) : Takes(c, q)

LEMMA OddRunStep ==
  ASSUME NEW c, NEW j \in Nat
  PROVE  OddRun(c, j) <=> j > 1 /\ ~OddRun(c, j - 1) /\ Takes(c, j - 1)
  <1>1. ASSUME OddRun(c, j) PROVE j > 1 /\ ~OddRun(c, j - 1) /\ Takes(c, j - 1)
    <2>1. PICK s \in 1..(j - 1), n \in Nat :
             /\ j = s + 2 * n + 1
             /\ s = 1 \/ ~Takes(c, s - 1)
             /\ \A q \in s..(j - 1) : Takes(c, q)
      BY <1>1 DEF OddRun
    <2>2. j > 1 /\ j - 1 \in s..(j - 1) BY <2>1
    <2>3. ASSUME OddRun(c, j - 1) PROVE FALSE
      <3>1. PICK r \in 1..(j - 1 - 1), m \in Nat :
               /\ j - 1 = r + 2 * m + 1
               /\ r = 1 \/ ~Takes(c, r - 1)
               /\ \A q \in r..(j - 1 - 1) : Takes(c, q)
        BY <2>3 DEF OddRun
      <3>2. CASE r < s
        <4>1. s - 1 \in r..(j - 1 - 1) /\ s # 1 BY <2>1, <3>1, <3>2
        <4> QED BY <2>1, <3>1, <4>1
      <3>3. CASE s < r
        <4>1. r - 1 \in s..(j - 1) /\ r # 1 BY <2>1, <3>1, <3>3
        <4> QED BY <2>1, <3>1, <4>1
      <3>4. CASE s = r BY <2>1, <3>1, <3>4
      <3> QED BY <2>1, <3>1, <3>2, <3>3, <3>4
    <2> QED BY <2>1, <2>2, <2>3
  <1>2. ASSUME j > 1, ~OddRun(c, j - 1), Takes(c, j - 1) PROVE OddRun(c, j)
    <2> DEFINE S == {s \in 1..(j - 1) : \A q \in s..(j - 1) : Takes(c, q)}
    <2>1. j - 1 \in S
      <3>1. \A q \in (j - 1)..(j - 1) : q = j - 1 OBVIOUS
      <3> QED BY <1>2, <3>1
    <2>2. S \in SUBSET Nat OBVIOUS
    <2> DEFINE s == Min(S)
    <2>3. s \in S /\ \A y \in S : s <= y
      <3> HIDE DEF S
      <3> QED BY <2>1, <2>2, SmallestExists
    <2> HIDE DEF s
    <2>4. s \in 1..(j - 1) /\ \A q \in s..(j - 1) : Takes(c, q) BY <2>3
    <2>5. s = 1 \/ ~Takes(c, s - 1)
      <3> SUFFICES ASSUME s # 1, Takes(c, s - 1) PROVE FALSE OBVIOUS
      <3>1. s - 1 \in 1..(j - 1) BY <2>4
      <3>2. \A q \in (s - 1)..(j - 1) : q = s - 1 \/ q \in s..(j - 1) BY <2>4
      <3>3. s - 1 \in S BY <2>4, <3>1, <3>2
      <3> QED BY <2>3, <2>4, <3>3
    <2>6. PICK n \in Nat : j = s + 2 * n + 1 \/ j = s + 2 * n + 2
      <3> DEFINE n == (j - s - 1) \div 2
      <3>1. j - s - 1 \in Nat BY <2>4
      <3>2. n \in Nat /\ (j - s - 1 = 2 * n \/ j - s - 1 = 2 * n + 1) BY <3>1
      <3> QED BY <2>4, <3>2
    <2>7. CASE j = s + 2 * n + 1 BY <2>4, <2>5, <2>6, <2>7 DEF OddRun
    <2>8. CASE j = s + 2 * n + 2
      <3>1. s \in 1..(j - 1 - 1) /\ j - 1 = s + 2 * n + 1 BY <2>4, <2>6, <2>8
      <3>2. \A q \in s..(j - 1 - 1) : Takes(c, q) BY <2>4
      <3>3. OddRun(c, j - 1) BY <2>5, <3>1, <3>2 DEF OddRun
      <3> QED BY <1>2, <3>3
    <2> QED BY <2>6, <2>7, <2>8
  <1> QED BY <1>1, <1>2

LEMMA ValueStep ==
  ASSUME NEW c \in Seq(Token)
  PROVE  /\ ValuesIn(c) \subseteq DOMAIN c
         /\ \A j \in DOMAIN c :
               j \in ValuesIn(c) <=> j > 1 /\ j - 1 \notin ValuesIn(c) /\ Takes(c, j - 1)
  <1> DEFINE Defines(f) == f = [j \in 0..Len(c) |-> j > 1 /\ ~f[j - 1] /\ c[j - 1].text \in TakesValue]
             isValue == CHOOSE f : Defines(f)
             odd == [j \in 0..Len(c) |-> OddRun(c, j)]
  <1>1. Defines(odd)
    <2>1. ASSUME NEW j \in 0..Len(c)
          PROVE  odd[j] = (j > 1 /\ ~odd[j - 1] /\ c[j - 1].text \in TakesValue)
      <3>1. OddRun(c, j) <=> j > 1 /\ ~OddRun(c, j - 1) /\ Takes(c, j - 1) BY OddRunStep
      <3>2. odd[j] = OddRun(c, j) OBVIOUS
      <3>3. j > 1 => odd[j - 1] = OddRun(c, j - 1)
        <4>1. j > 1 => j - 1 \in 0..Len(c) OBVIOUS
        <4> QED BY <4>1
      <3>4. OddRun(c, j) \in BOOLEAN BY DEF OddRun
      <3> HIDE DEF odd
      <3> QED BY <3>1, <3>2, <3>3, <3>4, Zenon DEF Takes
    <2> QED BY <2>1
  <1>2. Defines(isValue)
    <2> HIDE DEF odd, Defines
    <2> QED BY <1>1
  <1>3. ValuesIn(c) = {j \in DOMAIN c : isValue[j]} BY DEF ValuesIn
  <1>4. \A j \in 0..Len(c) : isValue[j] = (j > 1 /\ ~isValue[j - 1] /\ c[j - 1].text \in TakesValue)
    <2> HIDE DEF isValue
    <2> QED BY <1>2
  <1>5. DOMAIN c = 1..Len(c) OBVIOUS
  <1> HIDE DEF isValue
  <1>6. ASSUME NEW j \in DOMAIN c
        PROVE  j \in ValuesIn(c) <=> j > 1 /\ j - 1 \notin ValuesIn(c) /\ Takes(c, j - 1)
    <2>1. j \in ValuesIn(c) <=> isValue[j] BY <1>3
    <2>2. isValue[j] = (j > 1 /\ ~isValue[j - 1] /\ c[j - 1].text \in TakesValue)
      <3>1. j \in 0..Len(c) BY <1>5
      <3> QED BY <1>4, <3>1
    <2>3. j > 1 => (j - 1 \in ValuesIn(c) <=> isValue[j - 1])
      <3>1. j > 1 => j - 1 \in DOMAIN c BY <1>5
      <3> QED BY <1>3, <3>1
    <2> QED BY <2>1, <2>2, <2>3, Zenon DEF Takes
  <1> QED BY <1>3, <1>6

----------------------------------------------------------------------------
(* The options in front of a place.                                        *)

\* GivenBefore, LastBefore and Says of any command.
Given(c, u, options) == {j \in DOMAIN c \ ValuesIn(c) : j < u /\ c[j].text \in options}
Latest(c, u, options) == Max(Given(c, u, options) \cup {0})
SaysAt(c, u, value, option, default) ==
    LET j == Latest(c, u, {option})
    IN IF j = 0 THEN value = default
       ELSE j < Len(c) => value = c[j + 1].number

\* The next token that is parsed behind the one at j, but for the value of --maxtmo.
Behind(c, j, u) == u = IF Takes(c, j) THEN j + 2 ELSE j + 1

\* It is no value either, and the one at j is the only other one in front of it.
LEMMA GivenBehind ==
  ASSUME NEW c \in Seq(Token), NEW j \in DOMAIN c \ ValuesIn(c), NEW u, Behind(c, j, u), NEW options
  PROVE  /\ u \notin ValuesIn(c)
         /\ Given(c, u, options)
              = Given(c, j, options) \cup (IF c[j].text \in options THEN {j} ELSE {})
  <1> DEFINE V == ValuesIn(c)
  <1>1. /\ DOMAIN c = 1..Len(c) /\ Len(c) \in Nat /\ j \in 1..Len(c) /\ j \notin V
        /\ V \subseteq 1..Len(c)
        /\ \A p \in 1..Len(c) : p \in V <=> p > 1 /\ p - 1 \notin V /\ Takes(c, p - 1)
    <2>1. DOMAIN c = 1..Len(c) /\ Len(c) \in Nat OBVIOUS
    <2>2. /\ V \subseteq DOMAIN c
          /\ \A p \in DOMAIN c : p \in V <=> p > 1 /\ p - 1 \notin V /\ Takes(c, p - 1)
      BY ValueStep
    <2> HIDE DEF V
    <2>3. j \in DOMAIN c \ V BY DEF V
    <2> QED BY <2>1, <2>2, <2>3
  <1> HIDE DEF V
  <1>2. j + 1 \in 1..Len(c) => (j + 1 \in V <=> Takes(c, j)) BY <1>1
  <1>3. CASE Takes(c, j)
    <2>1. u = j + 2 BY <1>3 DEF Behind
    <2>2. u \in 1..Len(c) => j + 1 \in V /\ u \notin V BY <1>1, <1>2, <1>3, <2>1
    <2>3. u \notin V BY <1>1, <2>2
    <2>4. \A p \in 1..Len(c) \ V : p < u <=> p < j \/ p = j BY <1>1, <1>2, <1>3, <2>1
    <2> QED BY <1>1, <2>3, <2>4 DEF Given, V
  <1>4. CASE ~Takes(c, j)
    <2>1. u = j + 1 BY <1>4 DEF Behind
    <2>2. u \notin V BY <1>1, <1>2, <1>4, <2>1
    <2>3. \A p \in 1..Len(c) \ V : p < u <=> p < j \/ p = j BY <1>1, <2>1
    <2> QED BY <1>1, <2>2, <2>3 DEF Given, V
  <1> QED BY <1>3, <1>4 DEF V

\* The last option of some names in front of a place, if there is one.
LEMMA LatestIs ==
  ASSUME NEW c \in Seq(Token), NEW u \in Nat, NEW options
  PROVE  /\ Latest(c, u, options) \in Given(c, u, options) \cup {0}
         /\ Latest(c, u, options) \in 0..Len(c)
         /\ \A y \in Given(c, u, options) : y <= Latest(c, u, options)
         /\ u > 0 => Latest(c, u, options) < u
  <1> DEFINE G == Given(c, u, options)
             S == G \cup {0}
  <1>1. \A y \in G : y \in 1..Len(c) /\ y < u BY DEF Given
  <1> HIDE DEF G
  <1>2. S \in SUBSET (0..Len(c)) /\ S # {} /\ Len(c) \in Nat BY <1>1
  <1> HIDE DEF S
  <1>3. Max(S) \in S /\ \A y \in S : y <= Max(S) BY <1>2, LargestExists
  <1>4. Latest(c, u, options) = Max(S) BY DEF Latest, S, G
  <1>5. Max(S) \in G \/ Max(S) = 0 BY <1>3 DEF S
  <1>6. \A y \in G : y \in S BY DEF S
  <1>7. Max(S) \in 0..Len(c) BY <1>2, <1>3
  <1>8. u > 0 => Max(S) < u BY <1>1, <1>5
  <1>9. \A y \in G : y <= Max(S) BY <1>3, <1>6
  <1> QED BY <1>3, <1>4, <1>7, <1>8, <1>9 DEF G, S

\* Behind a token the latest option is that token, or the same as before.
LEMMA LatestBehind ==
  ASSUME NEW c \in Seq(Token), NEW j \in DOMAIN c \ ValuesIn(c), NEW u, Behind(c, j, u), NEW options
  PROVE  /\ c[j].text \in options => Latest(c, u, options) = j
         /\ c[j].text \notin options => Latest(c, u, options) = Latest(c, j, options)
  <1>1. j \in 1..Len(c) /\ u \in Nat /\ j \in Nat /\ u > j BY DEF Behind
  <1>2. Given(c, u, options) = Given(c, j, options) \cup (IF c[j].text \in options THEN {j} ELSE {})
    BY GivenBehind
  <1>3. CASE c[j].text \in options
    <2>1. j \in Given(c, u, options) BY <1>2, <1>3
    <2>2. \A y \in Given(c, u, options) : y <= j BY <1>1, <1>2, <1>3 DEF Given
    <2>3. /\ Latest(c, u, options) \in Given(c, u, options) \cup {0}
          /\ j <= Latest(c, u, options) /\ Latest(c, u, options) \in 0..Len(c)
      BY <1>1, <2>1, LatestIs
    <2> QED BY <1>1, <1>3, <2>2, <2>3
  <1>4. CASE c[j].text \notin options
    <2>1. Given(c, u, options) = Given(c, j, options) BY <1>2, <1>4
    <2> QED BY <1>4, <2>1 DEF Latest
  <1> QED BY <1>3, <1>4

LEMMA SaysBehind ==
  ASSUME NEW c \in Seq(Token), NEW j \in DOMAIN c \ ValuesIn(c), NEW u, Behind(c, j, u),
         NEW option, NEW value, NEW default
  PROVE  /\ c[j].text = option /\ (j < Len(c) => value = c[j + 1].number)
               => SaysAt(c, u, value, option, default)
         /\ c[j].text # option /\ SaysAt(c, j, value, option, default)
               => SaysAt(c, u, value, option, default)
  <1>1. j \in Nat /\ j # 0 OBVIOUS
  <1>2. c[j].text = option => Latest(c, u, {option}) = j BY LatestBehind
  <1>3. c[j].text # option => Latest(c, u, {option}) = Latest(c, j, {option}) BY LatestBehind
  <1> QED BY <1>1, <1>2, <1>3 DEF SaysAt

----------------------------------------------------------------------------
(* What parsing one token does, and what the request is then.              *)

\* The number behind j, if it was written at all.
Number(c, j, value) == j < Len(c) => value = c[j + 1].number
Seconds(c, j, value) == j < Len(c) => value > 0 /\ value \in SecondsOf(c[j + 1].chars)

\* The request s after the token at j, that was r before.
Effect(r, s, c, j) ==
    LET text == c[j].text
    IN /\ text = "--verbose" => Number(c, j, s.verbose)
       /\ text = "--wait" => /\ s.verbose = IF r.verbose \in Silent THEN TB_VERB_RESP ELSE r.verbose
                             /\ s.wait
       /\ text \notin {"--verbose", "--wait"} => s.verbose = r.verbose /\ s.wait = r.wait
       /\ text = "--loop" => Number(c, j, s.loops)
       /\ text = "--exe_time" => s.loops = MaxInt /\ Seconds(c, j, s.execution_time)
       /\ text \notin {"--loop", "--exe_time"} => s.loops = r.loops
       /\ text # "--exe_time" => s.execution_time = r.execution_time
       /\ text = "--exe_dly_time" => Seconds(c, j, s.execution_dly_time)
       /\ text # "--exe_dly_time" => s.execution_dly_time = r.execution_dly_time
       /\ text = "--maxtmo" => Number(c, j, s.max_timeout)
       /\ text # "--maxtmo" => s.max_timeout = r.max_timeout
       /\ s.stop_on_fail = (r.stop_on_fail \/ text = "--stoponfail")
       /\ s.extended = (r.extended \/ text \in {"--extend", "--extended"})

\* The parts of LastOptionCounts and TimesAreMeant, at any place of any command.
LoopsAt(c, u, r) ==
    IF Latest(c, u, {"--exe_time"}) > Latest(c, u, {"--loop"}) THEN r.loops = MaxInt
    ELSE SaysAt(c, u, r.loops, "--loop", 1)

OutputAt(c, u, r, default) ==
    LET wait == Latest(c, u, {"--wait"})
        verb == Latest(c, u, {"--verbose"})
    IN /\ \/ /\ wait > verb /\ r.verbose = TB_VERB_RESP
             /\ IF verb = 0 THEN default \in Silent ELSE c[verb + 1].number \in Silent
          \/ SaysAt(c, u, r.verbose, "--verbose", default)
       /\ wait > verb => r.wait

OthersAt(c, u, r) ==
    /\ SaysAt(c, u, r.max_timeout, "--maxtmo", 0)
    /\ r.stop_on_fail <=> Given(c, u, {"--stoponfail"}) # {}
    /\ r.extended <=> Given(c, u, {"--extend", "--extended"}) # {}

TimeAt(c, u, option, seconds) ==
    LET j == Latest(c, u, {option})
    IN \A w \in Widths :
          j \in 1..(Len(c) - 1) /\ IsTime(c[j + 1].chars, w) => seconds = MeantSeconds(c[j + 1].chars, w)

LEMMA LoopsBehind ==
  ASSUME NEW c \in Seq(Token), NEW j \in DOMAIN c \ ValuesIn(c), NEW u, Behind(c, j, u),
         NEW r, NEW s, Effect(r, s, c, j), LoopsAt(c, j, r)
  PROVE  LoopsAt(c, u, s)
  <1> DEFINE text == c[j].text
             exe(x) == Latest(c, x, {"--exe_time"})
             loop(x) == Latest(c, x, {"--loop"})
  <1>1. j \in Nat /\ j > 0 OBVIOUS
  <1>2. exe(j) \in Nat /\ loop(j) \in Nat /\ exe(j) < j /\ loop(j) < j BY <1>1, LatestIs
  <1>3. /\ text = "--exe_time" => exe(u) = j
        /\ text # "--exe_time" => exe(u) = exe(j)
        /\ text = "--loop" => loop(u) = j
        /\ text # "--loop" => loop(u) = loop(j)
    BY LatestBehind
  <1>4. CASE text = "--exe_time"
    <2>1. s.loops = MaxInt BY <1>4 DEF Effect
    <2> QED BY <1>1, <1>2, <1>3, <1>4, <2>1 DEF LoopsAt
  <1>5. CASE text = "--loop"
    <2>1. SaysAt(c, u, s.loops, "--loop", 1) BY <1>5, SaysBehind DEF Effect, Number
    <2> QED BY <1>1, <1>2, <1>3, <1>5, <2>1 DEF LoopsAt
  <1>6. CASE text \notin {"--exe_time", "--loop"}
    <2>1. s.loops = r.loops BY <1>6 DEF Effect
    <2>2. SaysAt(c, j, r.loops, "--loop", 1) => SaysAt(c, u, s.loops, "--loop", 1)
      BY <1>6, <2>1, SaysBehind
    <2> QED BY <1>3, <1>6, <2>1, <2>2 DEF LoopsAt
  <1> QED BY <1>4, <1>5, <1>6

LEMMA OutputBehind ==
  ASSUME NEW c \in Seq(Token), NEW j \in DOMAIN c \ ValuesIn(c), NEW u, Behind(c, j, u),
         NEW r, NEW s, NEW default, Effect(r, s, c, j), OutputAt(c, j, r, default)
  PROVE  OutputAt(c, u, s, default)
  <1> DEFINE text == c[j].text
             wait(x) == Latest(c, x, {"--wait"})
             verb(x) == Latest(c, x, {"--verbose"})
             silent(x) == IF verb(x) = 0 THEN default \in Silent ELSE c[verb(x) + 1].number \in Silent
             says(x, q) == SaysAt(c, x, q.verbose, "--verbose", default)
  <1>1. j \in Nat /\ j > 0 /\ j <= Len(c) OBVIOUS
  <1>2. wait(j) \in Nat /\ verb(j) \in Nat /\ wait(j) < j /\ verb(j) < j BY <1>1, LatestIs
  <1>3. /\ text = "--wait" => wait(u) = j
        /\ text # "--wait" => wait(u) = wait(j)
        /\ text = "--verbose" => verb(u) = j
        /\ text # "--verbose" => verb(u) = verb(j)
    BY LatestBehind
  <1>4. /\ (wait(j) > verb(j) /\ r.verbose = TB_VERB_RESP /\ silent(j)) \/ says(j, r)
        /\ wait(j) > verb(j) => r.wait
    BY DEF OutputAt
  <1>5. SUFFICES /\ (wait(u) > verb(u) /\ s.verbose = TB_VERB_RESP /\ silent(u)) \/ says(u, s)
                 /\ wait(u) > verb(u) => s.wait
    BY <1>5 DEF OutputAt
  <1>6. CASE text = "--verbose"
    <2>1. says(u, s) BY <1>6, SaysBehind DEF Effect, Number
    <2> HIDE DEF wait, verb, silent, says
    <2> QED BY <1>2, <1>3, <1>6, <2>1
  <1>7. CASE text = "--wait"
    <2>1. s.verbose = (IF r.verbose \in Silent THEN TB_VERB_RESP ELSE r.verbose) /\ s.wait
      BY <1>7 DEF Effect
    <2>2. TB_VERB_RESP \notin Silent BY DEF TB_VERB_RESP, Silent, TB_VERB_OFF, TB_VERB_OFF_LOG
    <2>3. wait(u) = j /\ verb(u) = verb(j) /\ wait(u) > verb(u) BY <1>2, <1>3, <1>7
    <2>4. silent(u) <=> silent(j) BY <2>3
    <2>5. CASE r.verbose \in Silent
      <3>1. says(j, r) BY <1>4, <2>2, <2>5
      <3>2. silent(j)
        <4>1. verb(j) # 0 => r.verbose = c[verb(j) + 1].number BY <1>1, <1>2, <3>1 DEF SaysAt
        <4>2. verb(j) = 0 => r.verbose = default BY <3>1 DEF SaysAt
        <4> QED BY <2>5, <4>1, <4>2
      <3> QED BY <2>1, <2>3, <2>4, <2>5, <3>2
    <2>6. CASE r.verbose \notin Silent
      <3>1. s.verbose = r.verbose BY <2>1, <2>6
      <3>2. says(j, r) => says(u, s) BY <1>7, <3>1, SaysBehind
      <3> HIDE DEF wait, verb, silent, says
      <3> QED BY <1>4, <2>1, <2>3, <2>4, <3>1, <3>2
    <2> QED BY <2>5, <2>6
  <1>8. CASE text \notin {"--verbose", "--wait"}
    <2>1. s.verbose = r.verbose /\ s.wait = r.wait BY <1>8 DEF Effect
    <2>2. says(j, r) => says(u, s) BY <1>8, <2>1, SaysBehind
    <2>3. wait(u) = wait(j) /\ verb(u) = verb(j) BY <1>3, <1>8
    <2>4. silent(u) <=> silent(j) BY <2>3
    <2> HIDE DEF wait, verb, silent, says
    <2> QED BY <1>4, <2>1, <2>2, <2>3, <2>4
  <1> QED BY <1>6, <1>7, <1>8

LEMMA OthersBehind ==
  ASSUME NEW c \in Seq(Token), NEW j \in DOMAIN c \ ValuesIn(c), NEW u, Behind(c, j, u),
         NEW r, NEW s, Effect(r, s, c, j), OthersAt(c, j, r)
  PROVE  OthersAt(c, u, s)
  <1> DEFINE text == c[j].text
  <1>1. SaysAt(c, u, s.max_timeout, "--maxtmo", 0)
    <2>1. CASE text = "--maxtmo" BY <2>1, SaysBehind DEF Effect, Number
    <2>2. CASE text # "--maxtmo"
      <3>1. s.max_timeout = r.max_timeout BY <2>2 DEF Effect
      <3> QED BY <2>2, <3>1, SaysBehind DEF OthersAt
    <2> QED BY <2>1, <2>2
  <1>2. ASSUME NEW options, NEW old, NEW new, old <=> Given(c, j, options) # {},
               new = (old \/ text \in options)
        PROVE  new <=> Given(c, u, options) # {}
    <2>1. Given(c, u, options) = Given(c, j, options) \cup (IF text \in options THEN {j} ELSE {})
      BY GivenBehind
    <2>2. Given(c, u, options) # {} <=> Given(c, j, options) # {} \/ text \in options BY <2>1
    <2> QED BY <1>2, <2>2, Zenon
  <1>3. s.stop_on_fail = (r.stop_on_fail \/ text \in {"--stoponfail"}) BY DEF Effect
  <1>4. s.extended = (r.extended \/ text \in {"--extend", "--extended"}) BY DEF Effect
  <1>5. s.stop_on_fail <=> Given(c, u, {"--stoponfail"}) # {} BY <1>2, <1>3 DEF OthersAt
  <1>6. s.extended <=> Given(c, u, {"--extend", "--extended"}) # {} BY <1>2, <1>4 DEF OthersAt
  <1> QED BY <1>1, <1>5, <1>6 DEF OthersAt

LEMMA TimeBehind ==
  ASSUME NEW c \in Seq(Token), NEW j \in DOMAIN c \ ValuesIn(c), NEW u, Behind(c, j, u),
         NEW option, NEW old, NEW new, TimeAt(c, j, option, old),
         c[j].text = option => Seconds(c, j, new),
         c[j].text # option => new = old
  PROVE  TimeAt(c, u, option, new)
  <1>1. CASE c[j].text = option
    <2>1. Latest(c, u, {option}) = j BY <1>1, LatestBehind
    <2>2. ASSUME NEW w \in Widths, j \in 1..(Len(c) - 1), IsTime(c[j + 1].chars, w)
          PROVE  new = MeantSeconds(c[j + 1].chars, w)
      <3>1. j < Len(c) /\ j + 1 \in 1..Len(c) BY <2>2
      <3>2. c[j + 1].chars \in Seq(Chars)
        <4>1. c[j + 1] \in Token BY <3>1
        <4> QED BY <4>1 DEF Token
      <3>3. ~TimeTooShort(c[j + 1].chars) BY <2>2, <3>2, TimeIsMeant
      <3>4. PICK tmp \in Stack : new = TimeStrToSec(c[j + 1].chars, tmp)
        BY <1>1, <3>1, <3>3 DEF Seconds, SecondsOf
      <3> QED BY <2>2, <3>2, <3>4, TimeIsMeant
    <2> QED BY <2>1, <2>2 DEF TimeAt
  <1>2. CASE c[j].text # option
    <2>1. Latest(c, u, {option}) = Latest(c, j, {option}) BY <1>2, LatestBehind
    <2> QED BY <1>2, <2>1 DEF TimeAt
  <1> QED BY <1>1, <1>2

----------------------------------------------------------------------------
(* What is forwarded.                                                      *)

\* PlainBefore and Forwards of any command.
Plain(c, u) == {j \in DOMAIN c \ ValuesIn(c) : j < u /\ c[j].text \notin OptionNames}
InOrder(c, plain, args) ==
    /\ Len(args) = Cardinality(plain)
    /\ \A j \in plain : args[Rank(j, plain)] = c[j].text

LEMMA PlainBehind ==
  ASSUME NEW c \in Seq(Token), NEW j \in DOMAIN c \ ValuesIn(c), NEW u, Behind(c, j, u)
  PROVE  Plain(c, u) = Plain(c, j) \cup (IF c[j].text \in OptionNames THEN {} ELSE {j})
  <1> DEFINE texts == {c[p].text : p \in DOMAIN c}
             rest == texts \ OptionNames
  <1>1. \A p \in DOMAIN c : c[p].text \in rest <=> c[p].text \notin OptionNames OBVIOUS
  <1> HIDE DEF rest
  <1>2. \A x : Plain(c, x) = Given(c, x, rest) BY <1>1 DEF Plain, Given
  <1>3. Given(c, u, rest) = Given(c, j, rest) \cup (IF c[j].text \in rest THEN {j} ELSE {})
    BY GivenBehind
  <1> QED BY <1>1, <1>2, <1>3

\* The number of places grows with the place, and the last one is behind them all.
LEMMA RankBehind ==
  ASSUME NEW n \in Nat, NEW P \in SUBSET (1..n), NEW j \in Nat, \A p \in P : p < j
  PROVE  /\ Cardinality(P) \in Nat /\ Cardinality(P \cup {j}) = Cardinality(P) + 1
         /\ Rank(j, P \cup {j}) = Cardinality(P) + 1
         /\ \A p \in P : Rank(p, P \cup {j}) = Rank(p, P) /\ Rank(p, P) \in 1..Cardinality(P)
  <1>1. IsFiniteSet(P)
    <2>1. IsFiniteSet(1..n) BY FS_Interval
    <2> QED BY <2>1, FS_Subset
  <1>2. Cardinality(P) \in Nat BY <1>1, FS_CardinalityType
  <1>3. j \notin P OBVIOUS
  <1>4. Cardinality(P \cup {j}) = Cardinality(P) + 1 BY <1>1, <1>3, FS_AddElement
  <1>5. {p \in P \cup {j} : p <= j} = P \cup {j}
    <2>1. \A p \in P \cup {j} : p <= j OBVIOUS
    <2> QED BY <2>1
  <1>6. ASSUME NEW p \in P
        PROVE  Rank(p, P \cup {j}) = Rank(p, P) /\ Rank(p, P) \in 1..Cardinality(P)
    <2> DEFINE S == {q \in P : q <= p}
    <2>1. {q \in P \cup {j} : q <= p} = S OBVIOUS
    <2>2. S \in SUBSET P /\ p \in S OBVIOUS
    <2> HIDE DEF S
    <2>3. IsFiniteSet(S) /\ Cardinality(S) <= Cardinality(P) BY <1>1, <2>2, FS_Subset
    <2>4. Cardinality(S) \in Nat /\ Cardinality(S) # 0 BY <2>2, <2>3, FS_CardinalityType, FS_EmptySet
    <2>5. Rank(p, P \cup {j}) = Cardinality(S) BY <2>1 DEF Rank
    <2>6. Rank(p, P) = Cardinality(S) BY DEF Rank, S
    <2> QED BY <1>2, <2>3, <2>4, <2>5, <2>6
  <1> QED BY <1>2, <1>4, <1>5, <1>6 DEF Rank

\* What the token at j does to the name of what is run and to the arguments.
ArgsEffect(r, s, c, j) ==
    LET text == c[j].text
    IN \/ /\ text \in OptionNames
          /\ s.node_name = r.node_name /\ s.args = r.args
       \/ /\ text \notin OptionNames
          /\ text \in DOMAIN Names /\ r.node_name = NoText
          /\ s.node_name = text
          /\ r.args = <<>> => s.args = <<text>>
       \/ /\ text \notin OptionNames
          /\ r.node_name # NoText \/ text \notin DOMAIN Names
          /\ s.node_name = r.node_name
          /\ s.args = Append(r.args, text)

\* If the first plain token is a name, it is what is run and all are forwarded.
ArgsAt(c, u, r) ==
    /\ Plain(c, u) = {} => r.args = <<>> /\ r.node_name = NoText
    /\ \A first \in Plain(c, u) :
          (\A p \in Plain(c, u) : first <= p) /\ c[first].text \in DOMAIN Names \ {NoText}
             => r.node_name = c[first].text /\ InOrder(c, Plain(c, u), r.args)

LEMMA ArgsBehind ==
  ASSUME NEW c \in Seq(Token), NEW j \in DOMAIN c \ ValuesIn(c), NEW u, Behind(c, j, u),
         NEW r, NEW s, r.args \in Seq(Text), ArgsEffect(r, s, c, j), ArgsAt(c, j, r)
  PROVE  ArgsAt(c, u, s)
  <1> DEFINE text == c[j].text
             P == Plain(c, j)
             Q == Plain(c, u)
  <1>1. Q = P \cup (IF text \in OptionNames THEN {} ELSE {j}) BY PlainBehind
  <1>2. P \in SUBSET (1..Len(c)) /\ \A p \in P : p < j BY DEF Plain
  <1>3. j \in Nat /\ Len(c) \in Nat OBVIOUS
  <1> HIDE DEF P, Q
  <1>4. CASE text \in OptionNames
    <2>1. Q = P BY <1>1, <1>4
    <2>2. s.node_name = r.node_name /\ s.args = r.args BY <1>4 DEF ArgsEffect
    <2> QED BY <2>1, <2>2 DEF ArgsAt, P, Q
  <1>5. CASE text \notin OptionNames
    <2>1. Q = P \cup {j} /\ Q # {} BY <1>1, <1>5
    <2>2. ASSUME NEW first \in Q, \A p \in Q : first <= p, c[first].text \in DOMAIN Names \ {NoText}
          PROVE  s.node_name = c[first].text /\ InOrder(c, Q, s.args)
      <3>1. /\ Cardinality(P) \in Nat /\ Cardinality(Q) = Cardinality(P) + 1
            /\ Rank(j, Q) = Cardinality(P) + 1
            /\ \A p \in P : Rank(p, Q) = Rank(p, P) /\ Rank(p, P) \in 1..Cardinality(P)
        BY <1>2, <1>3, <2>1, RankBehind
      <3>2. CASE P = {}
        <4>1. r.args = <<>> /\ r.node_name = NoText BY <3>2 DEF ArgsAt, P
        <4>2. Q = {j} /\ first = j BY <2>1, <2>2, <3>2
        <4>3. s.node_name = text /\ s.args = <<text>> BY <1>5, <2>2, <4>1, <4>2 DEF ArgsEffect
        <4>4. Cardinality(P) = 0 BY <3>2, FS_EmptySet
        <4>5. Len(<<text>>) = 1 /\ <<text>>[1] = text OBVIOUS
        <4> QED BY <3>1, <4>2, <4>3, <4>4, <4>5 DEF InOrder
      <3>3. CASE P # {}
        <4>1. first \in P /\ \A p \in P : first <= p
          <5>1. \A p \in P : first <= p BY <2>1, <2>2
          <5>2. PICK p : p \in P BY <3>3, Zenon
          <5>3. p < j /\ p \in 1..Len(c) BY <1>2, <5>2, Zenon
          <5>4. first <= p BY <5>1, <5>2, Zenon
          <5>5. first \in P \/ first = j BY <2>1, <2>2
          <5>6. first # j BY <1>3, <5>3, <5>4
          <5> QED BY <5>1, <5>5, <5>6
        <4>2. r.node_name = c[first].text /\ InOrder(c, P, r.args) BY <2>2, <4>1 DEF ArgsAt, P
        <4>3. s.node_name = r.node_name /\ s.args = Append(r.args, text)
          BY <1>5, <2>2, <4>2 DEF ArgsEffect
        <4>4. /\ Len(s.args) = Len(r.args) + 1 /\ s.args[Len(r.args) + 1] = text
              /\ \A q \in 1..Len(r.args) : s.args[q] = r.args[q]
          BY <4>3
        <4>5. Len(r.args) = Cardinality(P) /\ \A p \in P : r.args[Rank(p, P)] = c[p].text
          BY <4>2 DEF InOrder
        <4>6. \A p \in P : s.args[Rank(p, Q)] = c[p].text BY <3>1, <4>4, <4>5
        <4>7. s.args[Rank(j, Q)] = c[j].text BY <3>1, <4>4, <4>5
        <4>8. Len(s.args) = Cardinality(Q) BY <3>1, <4>4, <4>5
        <4> QED BY <2>1, <4>2, <4>3, <4>6, <4>7, <4>8 DEF InOrder
      <3> QED BY <3>2, <3>3
    <2> QED BY <2>1, <2>2 DEF ArgsAt, Q
  <1> QED BY <1>4, <1>5

----------------------------------------------------------------------------
(* Every step of the parser.                                               *)

\* The token at the index is the one that is parsed, and no value.
ParsingAt == ArgvInv /\ Parsing /\ at \in DOMAIN command \ ValuesIn(command)

\* The token behind it, if there is one, is what an option takes as its value.
LEMMA ValueIsNext ==
  ASSUME NEW t \in After(at), at < Len(command)
  PROVE  t = command[at + 1]
  BY DEF After

\* An option has its effect, leaves the arguments alone and is left behind.
Parsed ==
    /\ Behind(command, at, at')
    /\ Effect(thread_args, thread_args', command, at)
    /\ ArgsEffect(thread_args, thread_args', command, at)

LEMMA OptionParses ==
  ASSUME ParsingAt, Option, pc' = "options"
  PROVE  Parsed
  <1> DEFINE text == command[at].text
  <1>1. thread_args \in Request BY DEF ParsingAt, ArgvInv, RequestInv
  <1>2. ~Error BY DEF Error, Reply
  <1>3. CASE text = "--verbose"
    <2>1. PICK t \in After(at) : Verbose(t) BY <1>3 DEF Option, OptionIs, Current
    <2>2. /\ thread_args' = [thread_args EXCEPT !.verbose = t.number, !.wait = t.number \notin Silent]
          /\ Take(2)
      BY <1>2, <2>1 DEF Verbose
    <2>3. Behind(command, at, at') BY <1>3, <2>2 DEF Behind, Takes, TakesValue, Take
    <2>4. Effect(thread_args, thread_args', command, at)
      BY <1>1, <1>3, <2>2, ValueIsNext DEF Effect, Number, Request
    <2>5. ArgsEffect(thread_args, thread_args', command, at)
      BY <1>1, <1>3, <2>2 DEF ArgsEffect, Request, OptionNames
    <2> QED BY <2>3, <2>4, <2>5 DEF Parsed
  <1>4. CASE text = "--wait"
    <2>1. Wait BY <1>4 DEF Option, OptionIs, Current
    <2>2. Behind(command, at, at') BY <1>4, <2>1 DEF Wait, Behind, Takes, TakesValue, Take
    <2>3. Effect(thread_args, thread_args', command, at)
      BY <1>1, <1>4, <2>1 DEF Wait, Effect, Request
    <2>4. ArgsEffect(thread_args, thread_args', command, at)
      BY <1>1, <1>4, <2>1 DEF Wait, ArgsEffect, Request, OptionNames
    <2> QED BY <2>2, <2>3, <2>4 DEF Parsed
  <1>5. CASE text = "--loop"
    <2>1. PICK t \in After(at) : Loop(t) BY <1>5 DEF Option, OptionIs, Current
    <2>2. thread_args' = [thread_args EXCEPT !.loops = t.number] /\ Take(2)
      BY <1>2, <2>1 DEF Loop
    <2>3. Behind(command, at, at') BY <1>5, <2>2 DEF Behind, Takes, TakesValue, Take
    <2>4. Effect(thread_args, thread_args', command, at)
      BY <1>1, <1>5, <2>2, ValueIsNext DEF Effect, Number, Request
    <2>5. ArgsEffect(thread_args, thread_args', command, at)
      BY <1>1, <1>5, <2>2 DEF ArgsEffect, Request, OptionNames
    <2> QED BY <2>3, <2>4, <2>5 DEF Parsed
  <1>6. CASE text = "--maxtmo"
    <2>1. PICK t \in After(at) : MaxTmo(t) BY <1>6 DEF Option, OptionIs, Current
    <2>2. thread_args' = [thread_args EXCEPT !.max_timeout = t.number] /\ Take(1)
      BY <1>2, <2>1 DEF MaxTmo
    <2>3. Behind(command, at, at') BY <1>6, <2>2 DEF Behind, Takes, TakesValue, Take
    <2>4. Effect(thread_args, thread_args', command, at)
      BY <1>1, <1>6, <2>2, ValueIsNext DEF Effect, Number, Request
    <2>5. ArgsEffect(thread_args, thread_args', command, at)
      BY <1>1, <1>6, <2>2 DEF ArgsEffect, Request, OptionNames
    <2> QED BY <2>3, <2>4, <2>5 DEF Parsed
  <1>7. CASE text = "--exe_time"
    <2>1. PICK t \in After(at) : ExeTime(t) BY <1>7 DEF Option, OptionIs, Current
    <2>2. PICK sec \in SecondsOf(t.chars) :
             /\ sec > 0
             /\ thread_args' = [thread_args EXCEPT !.execution_time = sec, !.loops = MaxInt]
             /\ Take(2)
      BY <1>2, <2>1 DEF ExeTime
    <2>3. Behind(command, at, at') BY <1>7, <2>2 DEF Behind, Takes, TakesValue, Take
    <2>4. Effect(thread_args, thread_args', command, at)
      BY <1>1, <1>7, <2>2, ValueIsNext DEF Effect, Seconds, Request
    <2>5. ArgsEffect(thread_args, thread_args', command, at)
      BY <1>1, <1>7, <2>2 DEF ArgsEffect, Request, OptionNames
    <2> QED BY <2>3, <2>4, <2>5 DEF Parsed
  <1>8. CASE text = "--exe_dly_time"
    <2>1. PICK t \in After(at) : ExeDlyTime(t) BY <1>8 DEF Option, OptionIs, Current
    <2>2. PICK sec \in SecondsOf(t.chars) :
             /\ sec > 0
             /\ thread_args' = [thread_args EXCEPT !.execution_dly_time = sec]
             /\ Take(2)
      BY <1>2, <2>1 DEF ExeDlyTime
    <2>3. Behind(command, at, at') BY <1>8, <2>2 DEF Behind, Takes, TakesValue, Take
    <2>4. Effect(thread_args, thread_args', command, at)
      BY <1>1, <1>8, <2>2, ValueIsNext DEF Effect, Seconds, Request
    <2>5. ArgsEffect(thread_args, thread_args', command, at)
      BY <1>1, <1>8, <2>2 DEF ArgsEffect, Request, OptionNames
    <2> QED BY <2>3, <2>4, <2>5 DEF Parsed
  <1>9. CASE text \in {"--extend", "--extended", "--xml", "--stoponfail"}
    <2>1. /\ \/ /\ text \in {"--extend", "--extended"}
                /\ thread_args' = [thread_args EXCEPT !.extended = TRUE]
             \/ text = "--xml" /\ thread_args' = [thread_args EXCEPT !.xml = TRUE]
             \/ text = "--stoponfail" /\ thread_args' = [thread_args EXCEPT !.stop_on_fail = TRUE]
          /\ Take(1)
      BY <1>9 DEF Option, OptionIs, Current
    <2>2. Behind(command, at, at') BY <1>9, <2>1 DEF Behind, Takes, TakesValue, Take
    <2>3. Effect(thread_args, thread_args', command, at) BY <1>1, <1>9, <2>1 DEF Effect, Request
    <2>4. ArgsEffect(thread_args, thread_args', command, at)
      BY <1>1, <1>9, <2>1 DEF ArgsEffect, Request, OptionNames
    <2> QED BY <2>2, <2>3, <2>4 DEF Parsed
  <1> QED BY <1>3, <1>4, <1>5, <1>6, <1>7, <1>8, <1>9 DEF Option, OptionIs, Current

\* So do the tokens that are no options.
LEMMA PlainParses ==
  ASSUME ParsingAt, Name \/ Argument
  PROVE  Parsed
  <1> DEFINE text == command[at].text
  <1>1. thread_args \in Request BY DEF ParsingAt, ArgvInv, RequestInv
  <1>2. text \notin OptionNames /\ Take(1) BY DEF Name, Argument, Current
  <1>3. Behind(command, at, at') BY <1>2 DEF Behind, Takes, TakesValue, Take, OptionNames
  <1>4. PICK node, list : thread_args' = [thread_args EXCEPT !.node_name = node, !.args = list]
    <2>1. CASE Name BY <2>1 DEF Name
    <2>2. CASE Argument
      <3>1. thread_args' = [thread_args EXCEPT !.args = Append(thread_args.args, text)]
        BY <1>1, <2>2 DEF Argument, Current, Request
      <3>2. thread_args' = [thread_args EXCEPT !.node_name = thread_args.node_name,
                                               !.args = Append(thread_args.args, text)]
        BY <1>1, <3>1 DEF Request
      <3> QED BY <3>2
    <2> QED BY <2>1, <2>2
  <1>5. Effect(thread_args, thread_args', command, at)
    BY <1>1, <1>2, <1>4 DEF Effect, Request, OptionNames
  <1>6. ArgsEffect(thread_args, thread_args', command, at)
    <2>1. CASE Name
      <3>1. /\ thread_args'.node_name = text
            /\ thread_args'.args = <<text>> \o (IF thread_args.args = <<>> THEN <<>>
                                                ELSE Append(Tail(thread_args.args), NoText))
            /\ text \in DOMAIN Names /\ thread_args.node_name = NoText
        BY <1>1, <2>1 DEF Name, Current, Request, IsName
      <3>2. <<text>> \o <<>> = <<text>> OBVIOUS
      <3> QED BY <1>2, <3>1, <3>2 DEF ArgsEffect
    <2>2. CASE Argument
      <3>1. /\ thread_args'.node_name = thread_args.node_name
            /\ thread_args'.args = Append(thread_args.args, text)
            /\ thread_args.node_name # NoText \/ text \notin DOMAIN Names
        BY <1>1, <2>2 DEF Argument, Current, Request, IsName
      <3> QED BY <1>2, <3>1 DEF ArgsEffect
    <2> QED BY <2>1, <2>2
  <1> QED BY <1>3, <1>5, <1>6 DEF Parsed

----------------------------------------------------------------------------
(* The invariant: the request is what the tokens in front of the index     *)
(* say, and that index is no value.                                        *)

MeansAt(c, u, r, default) ==
    /\ u \notin ValuesIn(c)
    /\ LoopsAt(c, u, r) /\ OutputAt(c, u, r, default) /\ OthersAt(c, u, r)
    /\ TimeAt(c, u, "--exe_time", r.execution_time)
    /\ TimeAt(c, u, "--exe_dly_time", r.execution_dly_time)
    /\ ArgsAt(c, u, r)

RequestMeans ==
    /\ pc \in {"options", "exec"} =>
          \A c \in {command}, u \in {at}, r \in {thread_args}, default \in {verbose_level} :
              MeansAt(c, u, r, default)
    /\ pc = "exec" => at > Len(command)

LEMMA MeansBehind ==
  ASSUME NEW c \in Seq(Token), NEW j \in DOMAIN c \ ValuesIn(c), NEW u, Behind(c, j, u),
         NEW r, NEW s, NEW default, r.args \in Seq(Text),
         Effect(r, s, c, j), ArgsEffect(r, s, c, j), MeansAt(c, j, r, default)
  PROVE  MeansAt(c, u, s, default)
  <1>1. u \notin ValuesIn(c) BY GivenBehind
  <1>2. LoopsAt(c, u, s) BY LoopsBehind DEF MeansAt
  <1>3. OutputAt(c, u, s, default) BY OutputBehind DEF MeansAt
  <1>4. OthersAt(c, u, s) BY OthersBehind DEF MeansAt
  <1>5. TimeAt(c, u, "--exe_time", s.execution_time) BY TimeBehind DEF MeansAt, Effect
  <1>6. TimeAt(c, u, "--exe_dly_time", s.execution_dly_time) BY TimeBehind DEF MeansAt, Effect
  <1>7. ArgsAt(c, u, s) BY ArgsBehind DEF MeansAt
  <1> QED BY <1>1, <1>2, <1>3, <1>4, <1>5, <1>6, <1>7 DEF MeansAt

\* In front of the first token nothing is said.
LEMMA MeansFirst ==
  ASSUME NEW c \in Seq(Token), NEW default
  PROVE  MeansAt(c, 1, DefaultArgs(default), default)
  <1> DEFINE r == DefaultArgs(default)
  <1>1. \A options : Given(c, 1, options) = {} BY DEF Given
  <1>2. Plain(c, 1) = {} BY DEF Plain
  <1>3. ASSUME NEW options PROVE Latest(c, 1, options) = 0
    <2>1. Latest(c, 1, options) \in Given(c, 1, options) \cup {0} BY LatestIs
    <2> QED BY <1>1, <2>1
  <1>4. /\ r.loops = 1 /\ r.verbose = default /\ r.max_timeout = 0
        /\ r.stop_on_fail = FALSE /\ r.extended = FALSE /\ r.args = <<>> /\ r.node_name = NoText
    BY DEF DefaultArgs
  <1> HIDE DEF r
  <1>5. 1 \notin ValuesIn(c) BY ValueStep
  <1>6. LoopsAt(c, 1, r) BY <1>3, <1>4 DEF LoopsAt, SaysAt
  <1>7. OutputAt(c, 1, r, default) BY <1>3, <1>4 DEF OutputAt, SaysAt
  <1>8. OthersAt(c, 1, r) BY <1>1, <1>3, <1>4 DEF OthersAt, SaysAt
  <1>9. \A option, seconds : TimeAt(c, 1, option, seconds) BY <1>3 DEF TimeAt
  <1>10. ArgsAt(c, 1, r) BY <1>2, <1>4 DEF ArgsAt
  <1> QED BY <1>5, <1>6, <1>7, <1>8, <1>9, <1>10 DEF MeansAt, r

LEMMA InitMeans == Init => RequestMeans
  BY DEF Init, RequestMeans

\* A request that stays as it is means what it did.
LEMMA SameMeans ==
  ASSUME RequestMeans, UNCHANGED <<pc, commandVars, verbose_level>>
  PROVE  RequestMeans'
  BY DEF RequestMeans, commandVars

\* No request is parsed after the step.
LEMMA IdleMeans == ASSUME pc' \notin {"options", "exec"} PROVE RequestMeans'
  BY DEF RequestMeans

LEMMA ParseMeans == ASSUME ArgvInv, RequestMeans, ParseOptions PROVE RequestMeans'
  <1>1. command \in Seq(Token) /\ thread_args \in Request /\ thread_args.args \in Seq(Text)
    BY DEF ArgvInv, RequestInv, Request
  <1>2. pc = "options" /\ verbose_level' = verbose_level
    BY DEF ParseOptions, Option, Name, Argument, AllParsed, OptionIs, Parsing
  <1>3. MeansAt(command, at, thread_args, verbose_level) BY <1>2 DEF RequestMeans
  <1>4. CASE pc' \notin {"options", "exec"} BY <1>4, IdleMeans
  <1>5. CASE AllParsed /\ pc' \in {"options", "exec"}
    <2>1. pc' = "exec" /\ at > Len(command) /\ UNCHANGED <<command, at, thread_args>>
      BY <1>5 DEF AllParsed, Error, Reply
    <2> QED BY <1>2, <1>3, <2>1 DEF RequestMeans
  <1>6. CASE (Option \/ Name \/ Argument) /\ pc' \in {"options", "exec"}
    <2>1. Parsing /\ command' = command /\ pc' = "options"
      BY <1>2, <1>6 DEF Option, Name, Argument, OptionIs, Parsing, Verbose, Wait, Loop, MaxTmo, ExeTime,
                        ExeDlyTime, Take, Error, Reply
    <2>2. at \in DOMAIN command \ ValuesIn(command)
      <3>1. at \in Nat /\ at > 0 /\ at <= Len(command) BY <2>1 DEF ArgvInv, Parsing
      <3> QED BY <1>1, <1>3, <3>1 DEF MeansAt
    <2>3. Parsed BY <1>6, <2>1, <2>2, OptionParses, PlainParses DEF ParsingAt
    <2>4. ASSUME NEW u, NEW s, u = at', s = thread_args'
          PROVE  MeansAt(command, u, s, verbose_level)
      BY <1>1, <1>3, <2>2, <2>3, <2>4, MeansBehind DEF Parsed
    <2>5. \A c \in {command'}, u \in {at'}, r \in {thread_args'}, default \in {verbose_level'} :
             MeansAt(c, u, r, default)
      BY <1>2, <2>1, <2>4
    <2> QED BY <2>1, <2>5 DEF RequestMeans
  <1> QED BY <1>4, <1>5, <1>6 DEF ParseOptions

LEMMA ReceiveMeans == ASSUME NEW cmd \in Commands, Receive(cmd), ArgvInv PROVE RequestMeans'
  <1>1. CASE pc' = "utility" BY <1>1, IdleMeans
  <1>2. CASE pc' = "options" /\ at' = 1 /\ thread_args' = DefaultArgs(verbose_level)
    <2>1. /\ cmd \in Seq(Token) /\ command' = cmd /\ verbose_level' = verbose_level
      BY CommandAssumption DEF Receive
    <2>2. MeansAt(cmd, 1, DefaultArgs(verbose_level), verbose_level) BY <2>1, MeansFirst
    <2>3. \A c \in {command'}, u \in {at'}, r \in {thread_args'}, default \in {verbose_level'} :
             MeansAt(c, u, r, default)
      BY <1>2, <2>1, <2>2
    <2> QED BY <1>2, <2>3 DEF RequestMeans
  <1> QED BY <1>1, <1>2 DEF Receive

LEMMA NextMeans == ASSUME ArgvInv, RequestMeans, [Next]_vars PROVE RequestMeans'
  <1>1. CASE UNCHANGED vars BY <1>1, SameMeans DEF vars, commandVars
  <1>2. ASSUME Serve \/ Informs \/ MayFail \/ Looks \/ SetVerboseLevel \/ Step \/ GroupFromFile
                 \/ UtilityEnds \/ Exec \/ StepRuns \/ StepUser \/ StepQuit \/ FileRead
        PROVE  pc' \notin {"options", "exec"}
    <2>1. Serve \/ StepRuns \/ StepUser \/ StepQuit \/ FileRead => pc' \in {"idle", "step", "startup", "file"}
      BY DEF Serve, StepRuns, StepUser, StepQuit, FileRead, commandVars
    <2>2. Informs \/ MayFail \/ Looks \/ SetVerboseLevel \/ UtilityEnds \/ Exec => pc' = "idle"
      BY DEF Informs, MayFail, Looks, SetVerboseLevel, UtilityEnds, Exec, OK, Error, Reply
    <2>3. Step \/ GroupFromFile => pc' \in {"idle", "step", "file"}
      BY DEF Step, GroupFromFile, Error, Reply
    <2> QED BY <1>2, <2>1, <2>2, <2>3
  <1> QED BY <1>1, <1>2, IdleMeans, ParseMeans, ReceiveMeans DEF Next, Parser

----------------------------------------------------------------------------
(* The theorems.                                                           *)

ParserInv == ArgvInv /\ RequestMeans

LEMMA ParserInvariant == Spec => []ParserInv
  <1>1. Init => ParserInv BY InitArgv, InitMeans DEF ParserInv
  <1>2. ParserInv /\ [Next]_vars => ParserInv' BY NextArgv, NextMeans DEF ParserInv
  <1> QED BY <1>1, <1>2, PTL DEF Spec

\* When all is parsed, the whole command is in front of the index.
LEMMA AllBefore ==
  ASSUME ParserInv, pc = "exec"
  PROVE  /\ MeansAt(command, at, thread_args, verbose_level)
         /\ \A options : /\ GivenBefore(Len(command) + 1, options) = Given(command, at, options)
                         /\ LastBefore(Len(command) + 1, options) = Latest(command, at, options)
         /\ PlainBefore(Len(command) + 1) = Plain(command, at)
  <1>1. command \in Seq(Token) /\ at \in Nat /\ at > Len(command)
    BY DEF ParserInv, ArgvInv, RequestMeans
  <1>2. \A j \in DOMAIN command : j < at /\ j < Len(command) + 1 BY <1>1
  <1>3. \A options : GivenBefore(Len(command) + 1, options) = Given(command, at, options)
    BY <1>2 DEF GivenBefore, Given
  <1>4. PlainBefore(Len(command) + 1) = Plain(command, at) BY <1>2 DEF PlainBefore, Plain
  <1>5. MeansAt(command, at, thread_args, verbose_level) BY DEF ParserInv, RequestMeans
  <1> QED BY <1>3, <1>4, <1>5 DEF LastBefore, Latest

\* A command of any length runs what its options say: of options that set the same
\* field the last one counts, and a value is never taken for an option.
THEOREM OptionsCount == Spec => []LastOptionCounts
  <1>1. ASSUME ParserInv, pc = "exec"
        PROVE  LET end == Len(command) + 1
               IN LoopsCount(end) /\ OutputCounts(end) /\ OthersCount(end)
    <2>1. /\ LoopsAt(command, at, thread_args)
          /\ OutputAt(command, at, thread_args, verbose_level)
          /\ OthersAt(command, at, thread_args)
      BY <1>1, AllBefore DEF MeansAt
    <2>2. LoopsCount(Len(command) + 1)
      BY <1>1, <2>1, AllBefore DEF LoopsAt, LoopsCount, SaysAt, Says
    <2>3. OutputCounts(Len(command) + 1)
      BY <1>1, <2>1, AllBefore DEF OutputAt, OutputCounts, SaysAt, Says
    <2>4. OthersCount(Len(command) + 1)
      BY <1>1, <2>1, AllBefore DEF OthersAt, OthersCount, SaysAt, Says
    <2> QED BY <2>2, <2>3, <2>4
  <1>2. ParserInv => LastOptionCounts BY <1>1 DEF LastOptionCounts
  <1> QED BY <1>2, ParserInvariant, PTL

\* A time of four fields that is given to --exe_time or --exe_dly_time is taken as it
\* is meant, whatever the buffer of the conversion held before.
THEOREM TimesCount == Spec => []TimesAreMeant
  <1>1. ASSUME ParserInv, pc = "exec"
        PROVE  LET end == Len(command) + 1
               IN /\ TimeCounts(end, "--exe_time", thread_args.execution_time)
                  /\ TimeCounts(end, "--exe_dly_time", thread_args.execution_dly_time)
    BY <1>1, AllBefore DEF MeansAt, TimeAt, TimeCounts
  <1>2. ParserInv => TimesAreMeant BY <1>1 DEF TimesAreMeant
  <1> QED BY <1>2, ParserInvariant, PTL

\* If the name of a test comes first, it and all that is neither an option nor a value
\* are forwarded, in order and none twice, in commands of any length.
THEOREM RestIsForwarded == Spec => []ForwardsTheRest
  <1>1. ASSUME ParserInv, pc = "exec",
               command[Min(PlainBefore(Len(command) + 1))].text = thread_args.node_name
        PROVE  Forwards(Len(command) + 1)
    <2> DEFINE P == Plain(command, at)
               first == Min(P)
    <2>1. PlainBefore(Len(command) + 1) = P /\ ArgsAt(command, at, thread_args)
      BY <1>1, AllBefore DEF MeansAt
    <2>2. thread_args.node_name \in DOMAIN Names \ {NoText}
      BY <1>1 DEF ParserInv, ArgvInv, RequestInv
    <2>3. P # {} BY <2>1, <2>2 DEF ArgsAt
    <2>4. P \in SUBSET Nat
      <3>1. command \in Seq(Token) BY <1>1 DEF ParserInv, ArgvInv
      <3>2. DOMAIN command \subseteq Nat BY <3>1
      <3> QED BY <3>2 DEF Plain
    <2>5. first \in P /\ \A p \in P : first <= p
      <3> HIDE DEF P
      <3> QED BY <2>3, <2>4, SmallestExists
    <2>6. command[first].text = thread_args.node_name BY <1>1, <2>1
    <2> HIDE DEF first
    <2>7. InOrder(command, P, thread_args.args) BY <2>1, <2>2, <2>5, <2>6 DEF ArgsAt
    <2> QED BY <2>1, <2>7 DEF InOrder, Forwards
  <1>2. ParserInv => ForwardsTheRest BY <1>1 DEF ForwardsTheRest
  <1> QED BY <1>2, ParserInvariant, PTL

=============================================================================
