------------------------------ MODULE Strings ------------------------------
(***************************************************************************)
(* Memory and strings (string/), characters (ctypes/) and abs.             *)
(*                                                                         *)
(* A memory m is a function from addresses to bytes 0..255; char has no    *)
(* sign on this processor.  A call that writes gives the new memory, one   *)
(* that searches an address or Null.                                       *)
(***************************************************************************)
EXTENDS Integers, Sequences, SequencesExt

MapBits == 64        \* the characters one word of strpbrk's table maps
IntBits == 32        \* the width of the 1u that is shifted into it

Null == -1
Byte == 0..255

Lowest(S) == IF S = {} THEN Null ELSE Min(S)
Highest(S) == IF S = {} THEN Null ELSE Max(S)

\* The address of the NUL that ends the string at s, and its characters.
EndOf(m, s) == Min({p \in DOMAIN m : s <= p /\ m[p] = 0})
strlen(m, s) == EndOf(m, s) - s
CharsOf(m, s) == {m[p] : p \in s..EndOf(m, s) - 1}
TextAt(m, s) == [i \in 1..strlen(m, s) |-> m[s + i - 1]]

-----------------------------------------------------------------------------
\* Characters.

isupper(c) == c \in 65..90
islower(c) == c \in 97..122
isdigit(c) == c \in 48..57
isxdigit(c) == c \in 48..57 \cup 65..70 \cup 97..102
isspace(c) == c \in 9..13 \cup {32}
isblank(c) == c \in {9, 32}
iscntrl(c) == c \in 0..31 \cup {127}
ispunct(c) == c \in 33..47 \cup 58..64 \cup 91..96 \cup 123..126
isalpha(c) == c \in 65..90 \cup 97..122
isalnum(c) == c \in 48..57 \cup 65..90 \cup 97..122
isgraph(c) == c \in 33..126
isprint(c) == c \in 32..126

\* The masks are of the low byte: EOF is asked about as 255.
Classified(is(_), c) == is(c % 256)

tolower(c) == IF c \in 65..90 \cup (192..222 \ {215}) THEN c + 32 ELSE c
toupper(c) == IF c \in 97..122 \cup (224..254 \ {247}) THEN c - 32 ELSE c

abs(i) == IF i < 0 THEN -i ELSE i

-----------------------------------------------------------------------------
\* Blocks of memory.

\* The first of n bytes from s that is want, which is not reduced to a byte.
memchr(m, s, want, n) == Lowest({p \in s..s + n - 1 : m[p] = want})

\* The difference of the first two bytes of n that are not the same.
memcmp(m, a, b, n) ==
  LET k == Lowest({i \in 0..n - 1 : m[a + i] # m[b + i]})
  IN  IF k = Null THEN 0 ELSE m[a + k] - m[b + k]

\* width bytes loaded together, then stored together.
Moved(m, dst, src, width) ==
  [p \in DOMAIN m |-> IF p \in dst..dst + width - 1 THEN m[src + p - dst] ELSE m[p]]

\* Between words, eight bytes at a time; otherwise, and at the end, one.
Pieces(dst, src, size) ==
  LET wide == IF size > 8 /\ dst % 4 = 0 /\ src % 4 = 0 THEN size \div 8 ELSE 0
  IN  [i \in 1..wide |-> [at |-> 8 * (i - 1), width |-> 8]]
        \o [i \in 1..size - 8 * wide |-> [at |-> 8 * wide + i - 1, width |-> 1]]

memcpy(m, dst, src, size) ==
  LET pieces == Pieces(dst, src, size)
      after[k \in 0..Len(pieces)] ==
        IF k = 0 THEN m
        ELSE Moved(after[k - 1], dst + pieces[k].at, src + pieces[k].at, pieces[k].width)
  IN  after[Len(pieces)]

\* Byte by byte, the order given by upwards.
MovedBytes(m, dst, src, size, upwards) ==
  LET after[k \in 0..size] ==
        IF k = 0 THEN m
        ELSE IF upwards THEN Moved(after[k - 1], dst + k - 1, src + k - 1, 1)
             ELSE Moved(after[k - 1], dst + size - k, src + size - k, 1)
  IN  after[size]

\* Mutant: always upwards.
memmoveUpwards(m, dst, src, size) == MovedBytes(m, dst, src, size, TRUE)

\* Upwards when the source is above, downwards otherwise.
memmove(m, dst, src, size) == MovedBytes(m, dst, src, size, src > dst)

-----------------------------------------------------------------------------
\* Strings compared and searched.

\* The first place of n where the strings at a and b differ or both end.
Parting(m, a, b, n, f) ==
  LET k == Lowest({i \in 0..n - 1 :
                    /\ \A j \in 0..i - 1 : f[m[a + j]] = f[m[b + j]] /\ m[a + j] # 0
                    /\ f[m[a + i]] # f[m[b + i]] \/ m[a + i] = 0})
  IN  IF k = Null THEN 0 ELSE f[m[a + k]] - f[m[b + k]]

Same == [c \in Byte |-> c]
Lower == [c \in Byte |-> tolower(c)]
Longest(m, a, b) == strlen(m, a) + 1

strcmp(m, a, b) == Parting(m, a, b, Longest(m, a, b), Same)
strncmp(m, a, b, n) == Parting(m, a, b, n, Same)
strcasecmp(m, a, b) == Parting(m, a, b, Longest(m, a, b), Lower)
strncasecmp(m, a, b, n) == Parting(m, a, b, n, Lower)

\* Only the letters of ASCII have a case here.
stricmp(m, a, b) ==
  LET lowered == [c \in Byte |-> IF c \in 65..90 THEN c + 32 ELSE c]
      d == Parting(m, a, b, Longest(m, a, b), lowered)
  IN  IF d < 0 THEN -1 ELSE IF d > 0 THEN 1 ELSE 0

\* Both find the NUL when it is wanted.
strchr(m, s, want) == Lowest({p \in s..EndOf(m, s) : m[p] = want % 256})
strrchr(m, s, want) == Highest({p \in s..EndOf(m, s) : m[p] = want % 256})

strcspn(m, s, charset) ==
  LET found == Lowest({p \in s..EndOf(m, s) - 1 : m[p] \in CharsOf(m, charset)})
  IN  IF found = Null THEN strlen(m, s) ELSE found - s

\* A character goes on unless every one of charset is that character.
strspn(m, s, charset) ==
  LET stop == Lowest({p \in s..EndOf(m, s) - 1 : CharsOf(m, charset) \subseteq {m[p]}})
  IN  IF stop = Null THEN strlen(m, s) ELSE stop - s

\* Mutant: the last place is not tried.
strstrShort(m, a, b) ==
  Lowest({p \in a..EndOf(m, a) - strlen(m, b) - 1 :
           m[p] = m[b] /\ strncmp(m, p, b, strlen(m, b)) = 0})

strstr(m, a, b) ==
  Lowest({p \in a..EndOf(m, a) - strlen(m, b) :
           m[p] = m[b] /\ strncmp(m, p, b, strlen(m, b)) = 0})

\* The table of strpbrk: a 32 bit one shifted by the low bits of a character,
\* which the processor takes again modulo 32; and NUL.
Terms(cs) == {<<c \div MapBits, (c % MapBits) % IntBits>> : c \in cs} \cup {<<0, 0>>}

\* The first of charset in s.  With three or more the table is asked, and
\* the NUL found like the rest.
strpbrk(m, s, charset) ==
  LET cs == CharsOf(m, charset)
      terms == Terms(cs)
      stops(p) == <<m[p] \div MapBits, m[p] % MapBits>> \in terms
  IN  CASE strlen(m, charset) = 0 -> Null
        [] strlen(m, charset) \in {1, 2} ->
             Lowest({p \in s..EndOf(m, s) - 1 : m[p] \in cs})
        [] OTHER -> Lowest({p \in s..EndOf(m, s) : stops(p)})

-----------------------------------------------------------------------------
\* Strings copied.

\* The next byte, until the NUL is copied.  A source within the destination is
\* read after it is written.
ByteCopied(p, dst, src) ==
  IF p.ended THEN p
  ELSE [m |-> [p.m EXCEPT ![dst] = p.m[src]], ended |-> p.m[src] = 0]

\* n bytes of the string at src, or all of it with its NUL when it is shorter.
Copied(m, dst, src, n) ==
  LET after[k \in 0..n] ==
        IF k = 0 THEN [m |-> m, ended |-> FALSE]
        ELSE ByteCopied(after[k - 1], dst + k - 1, src + k - 1)
  IN  after[n].m

Whole(m) == Cardinality(DOMAIN m)       \* as many as there can be

strcpy(m, dst, src) == Copied(m, dst, src, Whole(m))

\* Nothing is filled up behind the string.
strncpy(m, dst, src, n) == Copied(m, dst, src, n)

\* The loop to the end of a goes one past its NUL.
strcat(m, a, b) == Copied(m, EndOf(m, a) + 1, b, Whole(m))

\* n has no sign: --n >= 0 holds always.
strncat(m, a, b, n) == Copied(m, EndOf(m, a) + 1, b, Whole(m))

\* The string in the block malloc gave at n, if it gave one.
strdup(m, x, n) == IF n = Null THEN m ELSE memcpy(m, n, x, strlen(m, x) + 1)
strndup(m, str, count, s) ==
  IF s = Null THEN m ELSE [strncpy(m, s, str, count) EXCEPT ![s + count] = 0]

-----------------------------------------------------------------------------
\* Words of a string.

\* Mutant: only one delimiter is skipped.
SpannedOnce(m, s, cs) == IF m[s] \in cs THEN s + 1 ELSE s

Spanned(m, s, cs) == Min({p \in DOMAIN m : s <= p /\ m[p] \notin cs})

\* The next word of the string at s, or at last when s is Null: its address,
\* what is remembered, and the memory with the delimiter behind it cleared.
strtok_r(m, s, delim, last) ==
  LET from == IF s = Null THEN last ELSE s
      cs == CharsOf(m, delim)
      tok == Spanned(m, from, cs)
      behind == Lowest({p \in tok..EndOf(m, tok) : m[p] \in cs \cup {0}})
  IN  IF from = Null THEN [tok |-> Null, last |-> last, m |-> m]
      ELSE IF m[tok] = 0 THEN [tok |-> Null, last |-> Null, m |-> m]
      ELSE [tok |-> tok,
            last |-> IF m[behind] = 0 THEN Null ELSE behind + 1,
            m |-> [m EXCEPT ![behind] = 0]]
============================================================================
