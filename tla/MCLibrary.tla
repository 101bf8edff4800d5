------------------------------ MODULE MCLibrary ------------------------------
(* Narrow integers and short formats, and arguments on both sides of every   *)
(* boundary.                                                                 *)
EXTENDS Library

AsConversion(flags, width, precision, length, letter, values) ==
  [conversion : {Conversion(flags, width, precision, length, letter)}, argument : values]

MCArguments ==
  ("d" :> {-12, 0, 7, 1234}) @@ ("u" :> {0, 1009}) @@ ("x" :> {0, 175}) @@ ("X" :> {175})
    @@ ("o" :> {0, 15}) @@ ("c" :> {"k"})
    @@ ("s" :> {<<>>, <<"a", "b", "c", "d", "e">>, <<"a", Newline, "b">>})
MCConversions ==
  UNION ({AsConversion(flags, width, precision, "", letter, MCArguments[letter]) :
            flags \in SUBSET {"-", "+", " ", "0", "#"}, width \in {0, 4, -4},
            precision \in {Unset, 0, 3}, letter \in DOMAIN MCArguments}
         \cup {AsConversion({}, 0, Unset, "b", "d", -4..3), AsConversion({}, 0, Unset, "b", "u", 0..7),
               AsConversion({}, 0, Unset, "h", "d", {-16, 15}), AsConversion({}, 0, Unset, "h", "x", {16, 31}),
               AsConversion({}, 0, Unset, "l", "d", {-16384, 16383}),
               AsConversion({}, 0, Unset, "l", "u", {16384, 32767}),
               AsConversion({}, 0, Unset, "", "u", {99, 100, 999, 9999, 10000, 32768, 65535}),
               AsConversion({}, 0, Unset, "L", "d", {-32768, -1, 32767})})

AsText(s) == [kind |-> "text", text |-> s]
AsNewline == [kind |-> "newline"]
AsInteger(i) == [kind |-> "conversion", conversion |-> Conversion({"0"}, 3, Unset, "", "d"),
                 argument |-> i]
AsCharacter == [kind |-> "conversion", conversion |-> Conversion({}, 0, Unset, "", "c"), argument |-> "k"]
MCFormats == {<<AsText(<<"a", "b">>), AsInteger(7)>>, <<AsInteger(1234)>>, <<AsCharacter, AsText(<<"a", "b", "c">>)>>,
              <<AsText(<<"a">>), AsNewline, AsText(<<"b", "c">>), AsCharacter>>}

MCNumerals == SeqOf({" ", "-", "0", "x", "1", "9", "F"}, 3)
                \cup {<<"-", "0", "x", c>> : c \in {"7", "8", "9", "x"}}
                \cup {<<"0", "x", c, d>> : c, d \in {"0", "1", "F"}}
                \cup {<<"+", "1", "7">>, <<"0", "1", "7">>, <<"0", "2", "0">>, <<"1", "5", "0">>}
MCDecimated == SeqOf({"2", "0", ".", "e", "-"}, 4)
                 \cup {a \o <<"e">> \o b : a, b \in TupleOf({"2", "0", ".", "-"}, 2)}
MCLines == SeqOf({"a", " "}, 5)

MCMoments == {k * 2920 + j : k \in 0..5, j \in 0..19} \cup {k * 731 : k \in 0..30}
MCDates == {[year |-> y, mon |-> m, mday |-> d, hour |-> u, min |-> u, sec |-> u] :
              y \in {1998, 1999, 2000, 2001, 2004, 2096, 2099}, m \in 1..12, d \in {1, 28}, u \in {0, 1}}
MCDays == {tm(y - 1900, IF n < 31 THEN 0 ELSE 11, IF n < 31 THEN n + 1 ELSE n - 333, 0, 0, 0,
              (DaysSince1970(y, 1, 1) + n + 4) % 7, n) :
             y \in 1996..2023, n \in 0..4 \cup 357..364}

MCArrays == SeqOf({1, 2, 3}, 6) \cup TupleOf({1, 2}, 9)
              \cup {[i \in 1..10 |-> (i * k + j) % 11] : k \in 1..10, j \in 0..3}

MCNarrow == F!Format(3, 2)
MCSingle == F!Format(4, 2)
MCWide == F!Format(4, 4)
MCScales == (-9..9) \cup {-64, -63, -21, -20, -17, -16, 15, 16, 20, 21, 50, 51, 63}
MCImages == {[p \in 0..80 |-> p + 100]}
MCTexts == SeqOf({65, 97, 98}, 3) \cup {<<192>>, <<224>>, <<98, 65, 97, 98>>}
MCFillings == {0, 65, 255, -1}

MCdegrees == (0 :> 0) @@ (1 :> 3)
MCseps == (0 :> 0) @@ (1 :> 1)
MCbreaks == (0 :> 2) @@ (1 :> 4)

MCValues == {[i \in 1..n |-> i] : n \in {0, 2, 3, 4, 7}}

MCKeySequences == {<<>>, <<"a">>, <<"a", "b">>}
MCWritten == {<<>>, <<"a", EOL>>, <<EOL, "a", "b">>, <<"a", EOL, EOL, "b">>}

MCContents == {<<>>, <<44>>, <<97>>, <<44, 46, 97, 98, 46, 44, 44, 99>>, <<97, 46, 98, 44, 44, 99, 46>>,
               <<97, 98, 44, 99, 100, 46, 101, 102>>}
MCDelimiters == {<<44>>, <<44, 46>>, <<>>}
=============================================================================
