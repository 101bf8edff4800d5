------------------------------- MODULE Tokens -------------------------------
(***************************************************************************)
(* A program that cuts a string of its own into words with strtok, which   *)
(* remembers where it is between calls, and joins strings with strcat.     *)
(* The string is at Text; the delimiters of a call, which may be others    *)
(* than those of the call before, are at Other.                            *)
(***************************************************************************)
EXTENDS TextMemory

CONSTANTS Contents,          \* the strings there may be
          Delimiters,        \* what a program may cut at, or append
          Other,             \* where those are
          MaxCalls           \* bound

\* There is room for a string, and for what is appended to it.
ASSUME RoomAssumption ==
  /\ Other \in Nat
  /\ Contents \subseteq Seq(1..255) /\ Delimiters \subseteq Seq(1..255)
  /\ \A text \in Contents \cup {<<>>}, delim \in Delimiters \cup {<<>>} :
       Len(text) + Len(delim) + 2 <= Other /\ Other + Len(delim) < MemorySize

VARIABLES
  memory, last,              \* of the library: the place in the string, or Null
  words, cutAt, whole,       \* for the property: the words that were returned,
                             \* what the calls cut at, and the string before them
  calls
tokensVars == <<memory, last, words, cutAt, whole, calls>>

Text == 0

TokensInit ==
  /\ memory = WithText([p \in 0..MemorySize - 1 |-> 255], Text, <<>>)
  /\ last = Strs!Null /\ words = <<>> /\ cutAt = <<>> /\ whole = <<>> /\ calls = 0

\* strcpy, or what the program wrote there itself.
Writes == \E text \in Contents :
  /\ calls = 0
  /\ memory' = WithText(memory, Text, text)
  /\ UNCHANGED <<last, words, cutAt, whole>>

Returned(r, before, cuts, delim) ==
  /\ memory' = r.m /\ last' = r.last
  /\ words' = IF r.tok = Strs!Null THEN before ELSE Append(before, r.tok)
  /\ cutAt' = Append(cuts, Range(delim))

strtok == \E delim \in Delimiters, s \in {Text, Strs!Null} :
  /\ LET m == WithText(memory, Other, delim)
         r == Strs!strtok_r(m, s, Other, last)
     IN  IF s = Text THEN Returned(r, <<>>, <<>>, delim) /\ whole' = Strs!TextAt(memory, Text)
         ELSE Returned(r, words, cutAt, delim) /\ UNCHANGED whole

Joins == \E text \in Delimiters :
  /\ last = Strs!Null /\ words = <<>>
  /\ memory' = Strs!strcat(WithText(memory, Other, text), Text, Other)
  /\ UNCHANGED <<last, words, cutAt, whole>>

TokensNext == /\ calls < MaxCalls /\ calls' = calls + 1
              /\ Writes \/ strtok \/ Joins

TokensSpec == TokensInit /\ [][TokensNext]_tokensVars

-----------------------------------------------------------------------------
\* What is left of a text once it was cut at the characters cs, and the word.
Cut(t, cs) ==
  LET inner == {i \in DOMAIN t.rest : t.rest[i] \notin cs}
      first == Strs!Lowest(inner)
      behind == Strs!Lowest({i \in first..Len(t.rest) : t.rest[i] \in cs})
  IN  IF inner = {} THEN [rest |-> <<>>, words |-> t.words]
      ELSE IF behind = Strs!Null
      THEN [rest |-> <<>>, words |-> Append(t.words, SubSeq(t.rest, first, Len(t.rest)))]
      ELSE [rest |-> SubSeq(t.rest, behind + 1, Len(t.rest)),
            words |-> Append(t.words, SubSeq(t.rest, first, behind - 1))]

AllCut(text, cuts) ==
  LET after[k \in 0..Len(cuts)] ==
        IF k = 0 THEN [rest |-> text, words |-> <<>>] ELSE Cut(after[k - 1], cuts[k])
  IN  after[Len(cuts)]

(***************************************************************************)
(* strtok returns the words of the string in order, each cut at the        *)
(* characters its call asked for, and none again at the end; and each one  *)
(* that was returned stays whole in memory while the later are cut.        *)
(***************************************************************************)
TokensRight ==
  [k \in DOMAIN words |-> Strs!TextAt(memory, words[k])] = AllCut(whole, cutAt).words
=============================================================================
