------------------------------- MODULE TimeStr -------------------------------
(***************************************************************************)
(* time_str_to_sec of dibd/testboxd_utilities.c: the seconds of a time     *)
(* written dd:hh:mm:ss.                                                    *)
(*                                                                         *)
(* A character is its digit, Colon, or Letter for any other.  Each field   *)
(* of one or two characters is copied to the buffer tmp and converted; a   *)
(* field of another width leaves tmp as it is, so that the previous field  *)
(* counts again, or what the stack held for the first one.                 *)
(***************************************************************************)
EXTENDS Integers, SequencesExt

Colon  == 10
Letter == 11
Digits == 0..9
Chars  == Digits \cup {Colon, Letter}

\* atoi of the one or two characters of tmp.
Atoi(tmp) ==
    IF tmp = <<>> \/ tmp[1] \notin Digits THEN 0
    ELSE IF Len(tmp) = 1 \/ tmp[2] \notin Digits THEN tmp[1]
    ELSE 10 * tmp[1] + tmp[2]

\* The index, from 0, of the first colon behind the index p, or -1.
ColonAfter(t, p) ==
    LET colons == {q \in (p + 1)..(Len(t) - 1) : t[q + 1] = Colon}
    IN IF colons = {} THEN -1 ELSE Min(colons)

CopyNarrow(t, from, to, tmp) ==
    IF to - from - 1 \in {1, 2} THEN SubSeq(t, to, to) ELSE tmp

\* tmp after the field between the indices from and to.
Copy(t, from, to, tmp) ==
    LET width == to - from - 1
    IN IF width \in {1, 2} THEN SubSeq(t, to - width + 1, to) ELSE tmp

TimeTooShort(t) == Len(t) < 3

\* The seconds for a text that is long enough; stack is what tmp held.
TimeStrToSec(t, stack) ==
    LET d == ColonAfter(t, -1)
        h == IF d < 0 THEN -1 ELSE ColonAfter(t, d)
        m == IF h < 0 THEN -1 ELSE ColonAfter(t, h)
        dd == IF d > 0 THEN Copy(t, -1, d, stack) ELSE stack
        hh == IF h - d > 1 THEN Copy(t, d, h, dd) ELSE dd
        mm == IF m - h > 1 THEN Copy(t, h, m, hh) ELSE hh
        ss == Copy(t, m, Len(t), mm)
    IN (IF d > 0 THEN Atoi(dd) * 86400 ELSE 0)
         + (IF h - d > 1 THEN Atoi(hh) * 3600 ELSE 0)
         + (IF m - h > 1 THEN Atoi(mm) * 60 ELSE 0)
         + (IF Len(t) > 3 THEN Atoi(ss) ELSE 0)

----------------------------------------------------------------------------
(* What the usage text promises: dd:hh:mm:ss, each of one or two digits.   *)

\* The widths of the four fields, and the index behind each field.
Widths == [1..4 -> {1, 2}]
FieldEnds(w) ==
    <<w[1], w[1] + w[2] + 1, w[1] + w[2] + w[3] + 2, w[1] + w[2] + w[3] + w[4] + 3>>

IsTime(t, w) ==
    /\ Len(t) = FieldEnds(w)[4]
    /\ \A p \in 0..(Len(t) - 1) :
          IF \E n \in 1..3 : p = FieldEnds(w)[n] THEN t[p + 1] = Colon ELSE t[p + 1] \in Digits

FieldValue(t, w, n) ==
    LET e == FieldEnds(w)[n] IN IF w[n] = 1 THEN t[e] ELSE 10 * t[e - 1] + t[e]

MeantSeconds(t, w) ==
    ((FieldValue(t, w, 1) * 24 + FieldValue(t, w, 2)) * 60 + FieldValue(t, w, 3)) * 60
        + FieldValue(t, w, 4)

=============================================================================
