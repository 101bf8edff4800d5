------------------------------- MODULE Reading -------------------------------
(***************************************************************************)
(* Numbers and words read from a text: strtol, strtoll, strtoul, strtoull, *)
(* atoi, atol and strtod (conversion/), and sscanf (io/sscanf.c).          *)
(*                                                                         *)
(* A call gives the value and where the text it used ends: the index       *)
(* behind it, or 1 when there was nothing to use.                          *)
(***************************************************************************)
EXTENDS Text

CONSTANTS LONG_BITS, INT_BITS, \* 64 and 32 in the code
          MAX_DIGITS,          \* 18: the digits of a mantissa that are kept
          MAX_EXPONENT         \* 511: maxExponent

Spaces == {" ", Newline, "tab"}
Decimals == {Digits[k] : k \in 1..10}
HexDigitSet == {Digits[k] : k \in 1..16} \cup {LowerDigits[k] : k \in 1..16}

\* A character as a digit; of the letters behind F, x is 33.
DigitValue(c) ==
  CASE c \in {Digits[k] : k \in 1..16} -> FirstAt(Digits, c) - 1
    [] c \in {LowerDigits[k] : k \in 1..16} -> FirstAt(LowerDigits, c) - 1
    [] c \in {"x", "X"} -> 33
    [] OTHER -> 99

At(s, i) == IF i \in DOMAIN s THEN s[i] ELSE NUL

\* Behind the white space from i on.
RECURSIVE Skipped(_, _)
Skipped(s, i) == IF At(s, i) \in Spaces THEN Skipped(s, i + 1) ELSE i

Signs == {"-", "+"}
AfterSign(s, i) == IF At(s, i) \in Signs THEN i + 1 ELSE i

\* Is there a prefix at i, with a digit of its base behind it?
Prefixed(s, i, letters, digits) ==
  At(s, i) = "0" /\ At(s, i + 1) \in letters /\ At(s, i + 2) \in digits

\* Where the digits begin, and their base.
Start(s, i, base) ==
  IF base \in {0, 16} /\ Prefixed(s, i, {"x", "X"}, HexDigitSet)
  THEN [at |-> i + 2, base |-> 16]
  ELSE IF base \in {0, 2} /\ Prefixed(s, i, {"b", "B"}, {"0", "1"})
  THEN [at |-> i + 2, base |-> 2]
  ELSE [at |-> i, base |-> IF base # 0 THEN base ELSE IF At(s, i) = "0" THEN 8 ELSE 10]

\* Behind the digits from i on.
RECURSIVE AfterDigits(_, _, _)
AfterDigits(s, i, base) ==
  IF DigitValue(At(s, i)) < base THEN AfterDigits(s, i + 1, base) ELSE i

\* Mutant: the last digit before the limit is not looked at.
AccumulatedBeyond(n, digit, base, limit) ==
  IF n.over \/ n.acc > limit \div base THEN [n EXCEPT !.over = TRUE]
  ELSE [n EXCEPT !.acc = @ * base + digit]

\* One digit more, unless the number has passed or would pass the limit.
Accumulated(n, digit, base, limit) ==
  LET cutoff == limit \div base
      cutlim == limit % base
  IN  IF n.over \/ n.acc > cutoff \/ (n.acc = cutoff /\ digit > cutlim)
      THEN [n EXCEPT !.over = TRUE]
      ELSE [n EXCEPT !.acc = @ * base + digit]

\* The loop over the digits of s from i up to j.
Total(s, i, j, base, limit) ==
  FoldLeft(LAMBDA n, c : Accumulated(n, DigitValue(c), base, limit),
           [acc |-> 0, over |-> FALSE], SubSeq(s, i, j - 1))

LONG_MAX == 2^(LONG_BITS - 1) - 1
LONG_MIN == -LONG_MAX - 1
ULONG_MAX == 2^LONG_BITS - 1

Read(value, end, errno) == [value |-> value, end |-> end, errno |-> errno]

\* strtol and strtoll, and strtoul and strtoull; the first of them leaves errno
\* as it is.
Converts(s, base, signed) ==
  LET first == Skipped(s, 1)
      neg   == At(s, first) = "-"
      start == Start(s, AfterSign(s, first), base)
      end   == AfterDigits(s, start.at, start.base)
      limit == IF ~signed THEN ULONG_MAX ELSE IF neg THEN -LONG_MIN ELSE LONG_MAX
      n     == Total(s, start.at, end, start.base, limit)
  IN  IF start.base \notin 2..36 \/ end = start.at THEN Read(0, 1, "EINVAL")
      ELSE IF n.over
           THEN Read(IF ~signed THEN ULONG_MAX ELSE IF neg THEN LONG_MIN ELSE LONG_MAX,
                     end, "ERANGE")
      ELSE Read(IF ~neg THEN n.acc ELSE IF signed THEN -n.acc ELSE (-n.acc) % 2^LONG_BITS,
                end, "none")

strtol(s, base) == [Converts(s, base, TRUE) EXCEPT !.errno = "none"]
strtoll(s, base) == Converts(s, base, TRUE)
strtoul(s, base) == Converts(s, base, FALSE)
strtoull(s, base) == Converts(s, base, FALSE)
atol(s) == strtol(s, 10).value
atoi(s) == Wrapped(strtol(s, 10).value, INT_BITS)

------------------------------------------------------------------------------
\* strtod, up to the arithmetic of double: the value is frac * 10^exp, negative
\* when neg is, before it is rounded.

\* Behind the digits and the one point of a mantissa.
RECURSIVE AfterMantissa(_, _, _)
AfterMantissa(s, i, point) ==
  IF At(s, i) \in Decimals \/ (At(s, i) = "." /\ ~point)
  THEN AfterMantissa(s, i + 1, point \/ At(s, i) = ".") ELSE i

\* The exponent: an e, a sign and digits, of which the digits may be missing.
Exponent(s, i) ==
  IF At(s, i) \notin {"E", "e"} THEN [value |-> 0, end |-> i]
  ELSE LET first == AfterSign(s, i + 1)
           end   == AfterDigits(s, first, 10)
           n     == Total(s, first, end, 10, 2^20).acc
       IN  [value |-> IF At(s, i + 1) = "-" THEN -n ELSE n, end |-> end]

strtod(s) ==
  LET first  == Skipped(s, 1)
      from   == AfterSign(s, first)
      to     == AfterMantissa(s, from, FALSE)
      taken  == SubSeq(s, from, to - 1)
      digits == SelectSeq(taken, LAMBDA c : c # ".")
      decPt  == FirstAt(taken, ".") - 1
      kept   == Smaller(Len(digits), MAX_DIGITS)
      exponent == Exponent(s, to)
      exp    == decPt - kept + exponent.value
  IN  IF digits = <<>> THEN [neg |-> At(s, first) = "-", frac |-> 0, exp |-> 0, end |-> 1]
      ELSE [neg  |-> At(s, first) = "-",
            frac |-> Total(digits, 1, kept + 1, 10, 2^30).acc,
            exp  |-> IF exp < 0 THEN -Smaller(-exp, MAX_EXPONENT) ELSE Smaller(exp, MAX_EXPONENT),
            end  |-> exponent.end]

strtold(s) == strtod(s)
atof(s) == [strtod(s) EXCEPT !.end = 1]

------------------------------------------------------------------------------
\* sscanf.  A format is a sequence of " ", "%s", "%" and another letter, "%"
\* where it ends, and characters that must match; a match uses up nothing.

RECURSIVE AfterWord(_, _)
AfterWord(s, i) ==
  IF At(s, i) \in Spaces \cup {NUL} THEN i ELSE AfterWord(s, i + 1)

\* The words stored for the format from its part k on, s being read from i.
RECURSIVE vsscanf(_, _, _, _)
vsscanf(s, i, format, k) ==
  LET word == Skipped(s, i)
      end  == AfterWord(s, word)
  IN  IF k > Len(format) THEN <<>>
      ELSE CASE format[k] = " " -> vsscanf(s, word, format, k + 1)
             [] format[k] = "%" -> <<>>
             [] format[k] = "%s" -> <<SubSeq(s, word, end - 1)>>
                  \o IF At(s, end) = NUL THEN <<>> ELSE vsscanf(s, end, format, k + 1)
             [] format[k] = "%other" -> vsscanf(s, i, format, k + 1)
             [] OTHER -> IF At(s, i) # format[k] THEN <<>> ELSE vsscanf(s, i, format, k + 1)

sscanf(s, format) == vsscanf(s, 1, format, 1)
==============================================================================
