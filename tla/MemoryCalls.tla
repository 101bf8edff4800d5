----------------------------- MODULE MemoryCalls -----------------------------
(***************************************************************************)
(* A program that moves blocks of memory, and compares, searches and       *)
(* copies texts.  What a text is to the functions, an address with bytes   *)
(* behind it, is a sequence of characters to the properties.               *)
(***************************************************************************)
EXTENDS TextMemory, Caller

CONSTANTS Images, Blocks, Lengths,     \* memories, and blocks that are moved in them
          Texts, Second, Counts        \* texts, where the second is, and limits

ASSUME ImagesAssumption ==
  /\ \A m \in Images : DOMAIN m \subseteq Nat /\ m \in [DOMAIN m -> 0..255]
  /\ Blocks \subseteq Nat /\ Lengths \subseteq Nat

\* The first text is below the second; the limits are within both.
ASSUME TextsAssumption ==
  /\ Texts \subseteq Seq(1..255) /\ Second \in Nat /\ Counts \subseteq Nat
  /\ \A a \in Texts : Len(a) < Second /\ Second + Len(a) < MemorySize
  /\ \A n \in Counts : n <= Second /\ Second + n <= MemorySize

\* Two texts in a memory that is clear.
Laid(a, b) == WithText(WithText([p \in 0..MemorySize - 1 |-> 0], 0, a), Second, b)

Moves == \E m \in Images, dst, source \in Blocks, n \in Lengths :
  /\ dst..dst + n - 1 \subseteq DOMAIN m /\ source..source + n - 1 \subseteq DOMAIN m
  /\ Called([to |-> "memmove", m |-> m, dst |-> dst, src |-> source, n |-> n],
            [moved |-> Strs!memmove(m, dst, source, n), copied |-> Strs!memcpy(m, dst, source, n)])

Asks == \E a, b \in Texts, n \in Counts :
  LET m == Laid(a, b)
  IN  Called([to |-> "strings", a |-> a, b |-> b, n |-> n],
             [cmp |-> Strs!strcmp(m, 0, Second), ncmp |-> Strs!strncmp(m, 0, Second, n),
              casecmp |-> Strs!strcasecmp(m, 0, Second),
              ncasecmp |-> Strs!strncasecmp(m, 0, Second, n),
              icmp |-> Strs!stricmp(m, 0, Second), memcmp |-> Strs!memcmp(m, 0, Second, n),
              str |-> Strs!strstr(m, 0, Second), cspn |-> Strs!strcspn(m, 0, Second),
              pbrk |-> Strs!strpbrk(m, 0, Second), chr |-> Strs!strchr(m, 0, m[Second]),
              rchr |-> Strs!strrchr(m, 0, m[Second]), cpy |-> Strs!strcpy(m, 0, Second)])

MemorySpec == CallsInit /\ [][(call = Idle /\ (Moves \/ Asks)) \/ Returns]_callVars

-----------------------------------------------------------------------------
(***************************************************************************)
(* memmove moves a block wherever the two overlap, and memcpy, whatever it *)
(* can take together, when they do not; nothing beside it is touched.      *)
(***************************************************************************)
BlocksMoved ==
  call.to = "memmove" =>
    LET right == Strs!Moved(call.m, call.dst, call.src, call.n)
    IN  /\ answer.moved = right
        /\ (call.dst + call.n <= call.src \/ call.src + call.n <= call.dst)
             => answer.copied = right

\* Which of two texts is the first in the order of their characters.
Sooner(a, b) == \E i \in 1..Len(b) :
  /\ i <= Len(a) + 1 /\ \A j \in 1..i - 1 : a[j] = b[j]
  /\ i > Len(a) \/ a[i] < b[i]
AsOrdered(r, a, b) == (r < 0 <=> Sooner(a, b)) /\ (r > 0 <=> Sooner(b, a))

\* Without case: of all letters there are, or those of ASCII.
Lowered(a) == [i \in DOMAIN a |-> Strs!tolower(a[i])]
AsciiLowered(a) == [i \in DOMAIN a |-> IF Strs!isupper(a[i]) THEN Strs!tolower(a[i]) ELSE a[i]]

\* What a call with a limit sees of a text, and memcmp of a text and what is behind it.
FirstOf(a, n) == IF n < Len(a) THEN SubSeq(a, 1, n) ELSE a
BytesOf(a, n) == [i \in 1..n |-> IF i <= Len(a) THEN a[i] ELSE 0]

PlacesIn(a, b) == {i \in 0..Len(a) - Len(b) : \A j \in 1..Len(b) : a[i + j] = b[j]}
PlacesOf(a, cs) == {i \in 0..Len(a) - 1 : a[i + 1] \in cs}

(***************************************************************************)
(* Comparisons have the sign of the order of the texts, with or without    *)
(* case and a limit, searches find the first or the last place there is,   *)
(* and a copy is the text.  (Left out are strstr of nothing, which finds   *)
(* the end, and strpbrk of three characters and more.)                     *)
(***************************************************************************)
StringsRight ==
  call.to = "strings" =>
    LET a == call.a
        b == call.b
        n == call.n
        ends == Append(a, 0)
        wanted == Append(b, 0)[1]
        found == PlacesOf(a, Range(b))
    IN  /\ AsOrdered(answer.cmp, a, b) /\ AsOrdered(answer.ncmp, FirstOf(a, n), FirstOf(b, n))
        /\ AsOrdered(answer.casecmp, Lowered(a), Lowered(b))
        /\ AsOrdered(answer.ncasecmp, FirstOf(Lowered(a), n), FirstOf(Lowered(b), n))
        /\ AsOrdered(answer.icmp, AsciiLowered(a), AsciiLowered(b))
        /\ AsOrdered(answer.memcmp, BytesOf(a, n), BytesOf(b, n))
        /\ b = <<>> \/ answer.str = Strs!Lowest(PlacesIn(a, b))
        /\ answer.cspn = IF found = {} THEN Len(a) ELSE Strs!Lowest(found)
        /\ Len(b) > 2 \/ answer.pbrk = Strs!Lowest(found)
        /\ answer.chr = Strs!Lowest(PlacesOf(ends, {wanted}))
        /\ answer.rchr = Strs!Highest(PlacesOf(ends, {wanted}))
        /\ Strs!TextAt(answer.cpy, 0) = b /\ Strs!TextAt(answer.cpy, Second) = b

(***************************************************************************)
(* Blocks and texts are where and what the functions on memory promise.    *)
(***************************************************************************)
MemoryRight == BlocksMoved /\ StringsRight
=============================================================================
