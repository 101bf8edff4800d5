---------------------------- MODULE CommandLine ----------------------------
(***************************************************************************)
(* The words that main is given: the part of __main in main.c that decodes *)
(* the command line, and __cli_redirection.                                *)
(*                                                                         *)
(* The command line is walked twice: once to count the words, which sizes  *)
(* argv, and once to decode them in place, so that the decoded words lie   *)
(* in the memory the walk still reads.  Words of the form ">file" are then *)
(* taken out and their files opened on the standard streams.               *)
(***************************************************************************)
EXTENDS Naturals, Sequences, SequencesExt, FiniteSets

CONSTANTS
  Commands,   \* the command lines: sequences of characters
  NUL, NULL   \* the end of a string, and of argv

Quote == "\""
Slash == "\\"
Special == {" ", "<", ">", "&", "1", "2", Quote, Slash}
Characters == Special \cup UNION {{c[k] : k \in DOMAIN c} : c \in Commands}

\* A command line is a C string, and NULL, which ends argv, is no string.
ASSUME CommandLineAssumption ==
  /\ \A c \in Commands : /\ Len(c) \in Nat /\ DOMAIN c = 1..Len(c)
                         /\ \A n \in 0..Len(c) : NULL \notin [1..n -> Characters]
  /\ NUL \notin Characters

VARIABLES
  pc,     \* "count", "build", "redirect", "main" or "failed"
  cli,    \* the command line given
  arg,    \* the copy that is decoded in place, by offset
  p,      \* the offset of the walk
  at,     \* in_spaces, in_quotes and escape
  argc,   \* words found by the present walk; later what main is given
  slots,  \* the size of argv
  argout, \* where the next decoded character goes
  starts, \* where the words of argv start in arg
  argv,   \* argv once built: strings, then NULL
  rest,   \* argc as __cli_redirection counts it
  i,      \* its index
  bound   \* the file and mode each standard stream was given last

vars == <<pc, cli, arg, p, at, argc, slots, argout, starts, argv, rest, i, bound>>
parsing == <<arg, p, at, slots, argout, starts>>
redirecting == <<argv, rest, i, bound>>

AtStart == [spaces |-> TRUE, quotes |-> FALSE, escape |-> FALSE]

\* The command line as a C string, which arg is at first.
Copied == [o \in 0..Len(cli) |-> IF o < Len(cli) THEN cli[o + 1] ELSE NUL]

Init == /\ cli \in Commands /\ pc = "count"
        /\ arg = Copied
        /\ p = 0 /\ at = AtStart /\ argc = 0 /\ slots = 0
        /\ argout = 0 /\ starts = <<>>
        /\ argv = <<>> /\ rest = 0 /\ i = 0 /\ bound = [fd \in 0..2 |-> NULL]

------------------------------------------------------------------------------
\* The first walk.

CountState(c) ==
  IF c = Slash THEN [at EXCEPT !.escape = TRUE]
  ELSE IF at.escape THEN [at EXCEPT !.escape = FALSE]
  ELSE IF at.quotes THEN [at EXCEPT !.quotes = (c # Quote)]
  ELSE [at EXCEPT !.spaces = (c = " "), !.quotes = (c = Quote)]
CountStarts(c) == /\ c \notin {Slash, " "} /\ ~at.escape
                  /\ ~at.quotes /\ at.spaces

Count == /\ pc = "count" /\ arg[p] # NUL
         /\ at' = CountState(arg[p])
         /\ argc' = IF CountStarts(arg[p]) THEN argc + 1 ELSE argc
         /\ p' = p + 1
         /\ UNCHANGED <<pc, cli, arg, slots, argout, starts, redirecting>>

Counted == /\ pc = "count" /\ arg[p] = NUL
           /\ pc' = IF at.quotes THEN "failed" ELSE "build"   \* __main_fail
           /\ slots' = argc + 1
           /\ p' = 0 /\ at' = AtStart /\ argc' = 0
           /\ UNCHANGED <<cli, arg, argout, starts, redirecting>>

------------------------------------------------------------------------------
\* The second walk: what a character writes, and whether it starts a word.

BuildState(c) ==
  IF c = Slash THEN [at EXCEPT !.escape = TRUE]
  ELSE IF at.escape THEN [at EXCEPT !.escape = FALSE]
  ELSE IF at.quotes THEN [at EXCEPT !.quotes = (c # Quote)]
  ELSE [at EXCEPT !.spaces = (c = " "), !.quotes = (c = Quote)]

BuildStarts(c) == /\ c \notin {Slash, " "} /\ ~at.escape
                  /\ ~at.quotes /\ at.spaces

\* Mutant: quotes are kept in the word, doubled.
WritesDoubled(c) ==
  IF c = Slash THEN <<>>
  ELSE IF at.escape THEN IF c = Quote THEN <<c>> ELSE <<Slash, c>>
  ELSE IF c = Quote THEN <<c, c>>
  ELSE IF c # " " \/ at.quotes THEN <<c>>
  ELSE IF at.spaces THEN <<>> ELSE <<NUL>>

\* Mutant: an escape is not taken out.
WritesEscape(c) ==
  IF c = Slash THEN <<>>
  ELSE IF at.escape THEN <<Slash, c>>
  ELSE IF c = Quote THEN <<>>
  ELSE IF c # " " \/ at.quotes THEN <<c>>
  ELSE IF at.spaces THEN <<>> ELSE <<NUL>>

Writes(c) ==
  IF c = Slash THEN <<>>
  ELSE IF at.escape THEN IF c = Quote THEN <<c>> ELSE <<Slash, c>>
  ELSE IF c = Quote THEN <<>>
  ELSE IF c # " " \/ at.quotes THEN <<c>>
  ELSE IF at.spaces THEN <<>> ELSE <<NUL>>

Build == LET c == arg[p]
             w == Writes(c)
         IN  /\ pc = "build" /\ c # NUL
             /\ at' = BuildState(c)
             /\ argc' = IF BuildStarts(c) THEN argc + 1 ELSE argc
             /\ starts' = IF BuildStarts(c) THEN Append(starts, argout) ELSE starts
             /\ arg' = [o \in DOMAIN arg |->
                          IF argout < o + 1 /\ o < argout + Len(w)
                          THEN w[o + 1 - argout] ELSE arg[o]]
             /\ argout' = argout + Len(w)
             /\ p' = p + 1
             /\ UNCHANGED <<pc, cli, slots, redirecting>>

\* The string that starts at offset o of arg.
StringAt(o) ==
  LET ends == CHOOSE e \in DOMAIN arg :
                /\ o <= e /\ arg[e] = NUL
                /\ \A j \in DOMAIN arg : o <= j /\ j < e => arg[j] # NUL
  IN  [k \in 1..(ends - o) |-> arg[o + k - 1]]

Built == /\ pc = "build" /\ arg[p] = NUL
         /\ pc' = "redirect"
         /\ argv' = Append([k \in DOMAIN starts |-> StringAt(starts[k])], NULL)
         /\ rest' = argc /\ i' = 0
         /\ UNCHANGED <<cli, argc, parsing, bound>>

------------------------------------------------------------------------------
\* What a word asks for: a stream, a mode, and the file when it is in the word.

Plain == [fd |-> NULL, mode |-> "none", file |-> <<>>]
Refused == [fd |-> NULL, mode |-> "dup", file |-> <<>>]
First(w) == IF w = <<>> THEN NUL ELSE Head(w)

Output(fd, w) ==
  LET append == First(w) = ">"
      file == IF append THEN Tail(w) ELSE w
  IN  IF First(w) = "&" THEN Refused
      ELSE IF First(file) = " " THEN Plain
      ELSE [fd |-> fd, mode |-> IF append THEN "a" ELSE "w", file |-> file]

Redirection(w) ==
  IF First(w) = "<"
  THEN IF \E k \in 2..Len(w) : w[k] \in {"<", " ", ">"} THEN Plain
       ELSE [fd |-> 0, mode |-> "r", file |-> Tail(w)]
  ELSE IF First(w) \in {"1", "2"} /\ Len(w) > 1 /\ w[2] = ">"
       THEN Output(IF First(w) = "1" THEN 1 ELSE 2, Tail(Tail(w)))
  ELSE IF First(w) = ">" THEN Output(1, Tail(w))
  ELSE Plain

Current == Redirection(argv[i + 1])
\* "> file" takes two words, ">file" one.
Taken == IF Current.file = <<>> THEN 2 ELSE 1

\* Mutant: the words behind move up by one, whatever was taken.
RemovedOne(k) ==
  [j \in DOMAIN argv |-> IF i < j /\ j <= rest - k THEN argv[j + 1] ELSE argv[j]]

\* The words behind those taken move down, as far as the words left reach.
Removed(k) ==
  [j \in DOMAIN argv |-> IF i < j /\ j <= rest - k THEN argv[j + k] ELSE argv[j]]

NotRedirection == /\ pc = "redirect" /\ i < rest /\ Current = Plain
                  /\ i' = i + 1
                  /\ UNCHANGED <<pc, cli, argc, parsing, argv, rest, bound>>

Bind(fd, file, mode) == bound' = [bound EXCEPT ![fd] = [file |-> file, mode |-> mode]]

\* The file is opened (freopen) and the words are taken out; i stays.
Redirect == /\ pc = "redirect" /\ i < rest /\ Current.mode \in {"r", "w", "a"}
            /\ i + Taken <= rest
            /\ Bind(Current.fd,
                    IF Taken = 2 THEN argv[i + 2] ELSE Current.file, Current.mode)
            /\ argv' = Removed(Taken)
            /\ rest' = rest - Taken
            /\ UNCHANGED <<pc, cli, argc, parsing, i>>

\* No file, another handle, or a file that cannot be opened: __main_fail.
RedirectFails == /\ pc = "redirect" /\ i < rest /\ Current # Plain
                 /\ pc' = "failed"
                 /\ UNCHANGED <<cli, argc, parsing, redirecting>>

\* main gets the argc of __main: __cli_redirection has its own copy.
main == /\ pc = "redirect" /\ i = rest
        /\ pc' = "main"
        /\ UNCHANGED <<cli, argc, parsing, redirecting>>

Next == \/ Count \/ Counted \/ Build \/ Built
        \/ NotRedirection \/ Redirect \/ RedirectFails \/ main

Spec == Init /\ [][Next]_vars

------------------------------------------------------------------------------
(* The words of a command line, as the changelog of 0.16 has them          *)
(* ("arguments in quotes are now handled (and escaping with \" works)").   *)

Escaped(k) == k > 1 /\ cli[k] # Slash /\ cli[k - 1] = Slash
Mark(k) == cli[k] = Quote /\ ~Escaped(k)
Quoted(k) == Cardinality({j \in 1..(k - 1) : Mark(j)}) % 2 = 1
Break(k) == cli[k] = " " /\ ~Escaped(k) /\ ~Quoted(k)
Begins(k) == ~Break(k) /\ (k = 1 \/ Break(k - 1))
Says(k) == IF Mark(k) \/ cli[k] = Slash THEN <<>>
           ELSE IF Escaped(k) /\ cli[k] # Quote THEN <<Slash, cli[k]>> ELSE <<cli[k]>>

Beginnings == {k \in DOMAIN cli : Begins(k)}
Beginning(n) == CHOOSE k \in Beginnings : Cardinality({j \in Beginnings : j <= k}) = n
Word(b) ==
  LET last == CHOOSE e \in b..Len(cli) : /\ \A k \in b..e : ~Break(k)
                                         /\ e = Len(cli) \/ Break(e + 1)
  IN  FlattenSeq([k \in 1..(last + 1 - b) |-> Says(b + k - 1)])
Words == [n \in 1..Cardinality(Beginnings) |-> Word(Beginning(n))]

\* An escape as the first character of a word is lost.
LeadingEscape == \E k \in DOMAIN cli : Begins(k) /\ cli[k] = Slash

(* The words left, and the last file of each stream, of a list of words:   *)
(* found from the end of the list, where the code works from its start.    *)
Skip(ws, k) == IF Redirection(ws[k]).file = <<>> THEN k + 2 ELSE k + 1
Left(ws) ==
  LET f[k \in 1..(Len(ws) + 2)] ==
        IF k > Len(ws) THEN <<>>
        ELSE IF Redirection(ws[k]) = Plain THEN <<ws[k]>> \o f[k + 1]
        ELSE f[Skip(ws, k)]
  IN  f[1]
Files(ws) ==
  LET f[k \in 1..(Len(ws) + 2)] ==
        IF k > Len(ws) THEN <<>>
        ELSE IF Redirection(ws[k]) = Plain THEN f[k + 1]
        ELSE LET r == Redirection(ws[k])
             IN  <<[fd |-> r.fd, file |-> IF r.file = <<>> THEN ws[k + 1] ELSE r.file,
                    mode |-> r.mode]>> \o f[Skip(ws, k)]
  IN  f[1]
LastFile(ws, fd) ==
  LET all == Files(ws)
      for == {k \in DOMAIN all : all[k].fd = fd}
  IN  IF for = {} THEN NULL
      ELSE [file |-> all[Max(for)].file, mode |-> all[Max(for)].mode]

------------------------------------------------------------------------------
(* Everything that indexes the copy or argv stays inside it: both walks    *)
(* find the same words, so that argv has a slot for each, and one for the  *)
(* NULL behind them.                                                       *)
TypeOK ==
  /\ pc = "build" => argc < slots
  /\ pc \in {"count", "build", "redirect", "main", "failed"}
  /\ p \in DOMAIN arg /\ argout \in DOMAIN arg
  /\ \A k \in DOMAIN starts : starts[k] \in 0..argout
  /\ i \in 0..rest /\ rest \in 0..argc
  /\ pc \in {"redirect", "main"} => argc = slots - 1 /\ Len(argv) = slots
  /\ \A fd \in 0..2 : bound[fd] = NULL \/ bound[fd].file # NULL

Strings == [k \in DOMAIN starts |-> StringAt(starts[k])]

(* The second walk never writes in front of the character it has read, an  *)
(* escape's two included: what it has yet to read is as it was typed.      *)
WritesBehind ==
  pc = "build" => /\ argout <= p /\ argout + Len(Writes(arg[p])) <= p + 1
                  /\ \A o \in p..Len(cli) : arg[o] = Copied[o]

(* argv, sized by the first walk, has a slot for each word of the second,  *)
(* which stays inside the copy; and every word but the last is the word    *)
(* typed, and the last begins with it, on a command line in which no word  *)
(* begins with an escape.                                                  *)
WordsDecoded ==
  /\ TypeOK
  /\ pc = "redirect" /\ ~LeadingEscape =>
       /\ Len(Strings) = Len(Words)
       /\ \A n \in DOMAIN Words : IF n < Len(Words) THEN Strings[n] = Words[n]
                                  ELSE IsPrefix(Words[n], Strings[n])

(* __cli_redirection leaves the words that are no redirections, in order,  *)
(* and gives each stream the last file named for it.                       *)
RestKept ==
  pc = "main" => /\ SubSeq(argv, 1, rest) = Left(Strings)
                 /\ \A fd \in 0..2 : bound[fd] = LastFile(Strings, fd)

(* main gets the words typed, in quotes or not, without the redirections.  *)
MainGetsWords ==
  pc = "main" => SubSeq(argv, 1, argc) = Left(Words)
=============================================================================
