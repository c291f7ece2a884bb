----------------------------- MODULE MCCmdParse -----------------------------
(* An instance of CmdParse for TLC. *)
EXTENDS CmdParse

Word(text)     == [text |-> text, number |-> 0, chars |-> <<Letter, Letter, Letter, Letter>>]
Number(n)      == [text |-> ToString(n), number |-> n, chars |-> <<n>>]
Time(chars)    == [text |-> "time", number |-> 0, chars |-> chars]

\* What can be run: one of every kind.
NamesOfKinds == [G |-> "group", S |-> "suite", C |-> "case", X |-> "executable"]
UnwrittenTokens == {Word("x"), Number(3), Time(<<1, 2>>)}
StackOf == {<<>>, <<7>>}

SeqsUpTo(S, n) == UNION {[1..m -> S] : m \in 0..n}

\* Every order of two tokens; of three and four from the options that set the same
\* fields.
AllTokens == {Word(o) : o \in (OptionNames \ {"--extended", "--xml"}) \cup {"C", "x"}}
                \cup {Number(0), Number(2), Number(3), Time(<<0, Colon, 0, Colon, 1, Colon, 5>>)}
SomeTokens == AllTokens \ {Word("--extend"), Word("--stoponfail"), Number(3)}
FewTokens == {Word("--verbose"), Word("--wait"), Word("--loop"), Word("C"), Word("x"),
              Number(0), Number(2)}

\* Times of one and two fields of up to three digits; of three and four fields that
\* have a digit.
TimeFields == {<<>>, <<5>>, <<1, 2>>, <<1, 2, 3>>, <<Letter>>}
DigitFields == {<<5>>, <<1, 2>>, <<1, 2, 3>>}
Joined(fields) == FoldLeft(LAMBDA a, f : a \o <<Colon>> \o f, fields[1], Tail(fields))
Times == {Joined(fields) : fields \in UNION {[1..m -> TimeFields] : m \in 1..2}
                                  \cup UNION {[1..m -> DigitFields] : m \in 3..4}}
TimeCommands == {<<Word("--exe_time"), Time(t), Word("C")>> : t \in Times}

UtilityCommands ==
    {<<Word(u)>> : u \in Utilities}
       \cup {<<Word(u), t>> : u \in Utilities, t \in {Word("S"), Word("openfile"), Word("closed"), Number(2)}}
       \cup {<<Word("--verbose_level"), Number(n)>> : n \in {0, 1, 3, 4}}
       \cup {<<Word(n), Word("--step"), Word("S")>> : n \in DOMAIN NamesOfKinds}
       \cup {<<Word(n)>> : n \in DOMAIN NamesOfKinds}
       \cup {<<Word("C"), Word("--extended"), Word("--xml")>>}

AllCommands ==
    SeqsUpTo(AllTokens, 2) \cup [1..3 -> SomeTokens] \cup [1..4 -> FewTokens]
        \cup TimeCommands \cup UtilityCommands

\* Group files: two groups of up to two suites, whole ones and broken ones.
Suites == {<<>>, <<"SUITE", "TC", "EXEC", "END_SUITE">>,
           <<"SUITE", "DESCR", "other", "TC", "DESCR", "END_SUITE">>,
           <<"SUITE", "TC()", "EXEC bare", "END_SUITE">>,
           <<"SUITE", "DESCR", "TC?", "DESCR", "END_SUITE">>,
           <<"SUITE()", "EXEC?", "END_SUITE">>,
           <<"SUITE", "other", "TC">>,
           <<"GROUP()">>, <<"unclosed">>}
Groups == {<<"GROUP">> \o s \o t \o e : s, t \in Suites, e \in {<<"END_GROUP">>, <<>>}}
SmallGroups == {<<>>, <<"GROUP", "SUITE", "TC", "END_SUITE", "END_GROUP">>}
SomeFiles == {g \o h : g \in Groups \cup {<<>>}, h \in SmallGroups}

SomePaths  == {<<"text">>, <<Var, "text">>, <<Var, OtherVar, Var, "text">>}
SomeValues == {<<>>, <<"text", OtherVar>>}
=============================================================================
