--------------------------- MODULE MCCommandLine ---------------------------
(* A program's name and some characters behind it: a few of all kinds, and *)
(* more of those that make words and redirections, or words and quotes.    *)
EXTENDS CommandLine
CONSTANTS Mixed, Redirected, InQuotes   \* how many of each

UpTo(length, alphabet) == UNION {[1..n -> alphabet] : n \in 0..length}
MCCommands ==
  {<<"a">> \o s : s \in UpTo(Mixed, {" ", Quote, Slash, "a", ">", "<", "2", "&"})
                        \cup UpTo(Redirected, {" ", ">", "<", "a"})
                        \cup UpTo(InQuotes, {" ", Quote, Slash, "a"})}
MCQuoted == {<<"a">> \o s : s \in UpTo(InQuotes, {" ", Quote, "a"})}
=============================================================================
