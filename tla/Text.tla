-------------------------------- MODULE Text --------------------------------
(***************************************************************************)
(* Texts, and the arithmetic of C that the library's conversions share.  A *)
(* text is a sequence of characters, without the NUL that ends it in       *)
(* memory.                                                                 *)
(***************************************************************************)
EXTENDS Integers, Sequences, SequencesExt, TLC

NUL == "NUL"
Newline == "newline"

Digits == <<"0", "1", "2", "3", "4", "5", "6", "7", "8", "9",
            "A", "B", "C", "D", "E", "F">>
LowerDigits == SubSeq(Digits, 1, 10) \o <<"a", "b", "c", "d", "e", "f">>

Smaller(a, b) == IF a < b THEN a ELSE b
Larger(a, b) == IF a < b THEN b ELSE a
Magnitude(a) == IF a < 0 THEN -a ELSE a

Repeated(c, n) == [i \in 1..n |-> c]
Spelled(ds, letters) == [i \in DOMAIN ds |-> letters[ds[i] + 1]]

\* / and % of C, which round towards zero.
Quotient(a, b) == IF a < 0 THEN -((-a) \div b) ELSE a \div b
Remainder(a, b) == a - b * Quotient(a, b)

\* The value of the low bits of an integer, read as signed.
Wrapped(value, bits) ==
  LET low == value % 2^bits IN IF low >= 2^(bits - 1) THEN low - 2^bits ELSE low

\* The digits of value to a base, least first; none of zero.
RECURSIVE DigitsOf(_, _)
DigitsOf(value, base) ==
  IF value = 0 THEN <<>> ELSE <<value % base>> \o DigitsOf(value \div base, base)

\* The last width digits of value, most significant first.
DigitsIn(value, base, width) ==
  LET ds == DigitsOf(value, base)
  IN  [k \in 1..width |-> IF width - k + 1 \in DOMAIN ds THEN ds[width - k + 1] ELSE 0]

\* Where c is first in s, behind s when it is not.
FirstAt(s, c) == IF Contains(s, c) THEN SelectInSeq(s, LAMBDA e : e = c) ELSE Len(s) + 1
==============================================================================
