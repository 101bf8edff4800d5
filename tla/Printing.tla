----------------------------- MODULE Printing -----------------------------
(***************************************************************************)
(* Formatted output: _vprintf (io/io-vprintf.c), which turns a format into *)
(* calls of an outputter, the outputter of sprintf and snprintf            *)
(* (io/io-sprintf.c), and the conversions to decimal and hexadecimal       *)
(* (conversion/cvt_decimal.c, cvt_hex.c).                                  *)
(*                                                                         *)
(* A text is a sequence of characters.  A format is a sequence of parts:   *)
(* a run of plain characters, a newline, or a conversion, which is a       *)
(* record of its flags, width, precision, length and letter.               *)
(***************************************************************************)
EXTENDS Text

CONSTANTS
  ByteBits, HalfBits, WordBits, LongBits, \* 8, 16, 32 and 64 in the code
  SmallBelow, SmallFrom,   \* below 10^5 decimal conversion starts at 10^6
  MiddleBelow, MiddleFrom, \* below 10^10 it starts at 10^10
  Top                      \* otherwise at 10^19

Unset == -1                \* a precision that was not given

------------------------------------------------------------------------------
\* Conversion of numbers.

\* __cvt_uint64_decimal's loop: the digits from the power i of ten down.
RECURSIVE DecimalFrom(_, _, _)
DecimalFrom(value, i, ds) ==
  IF i < 0 THEN ds
  ELSE IF value >= 10^i
       THEN DecimalFrom(value % 10^i, i - 1, Append(ds, value \div 10^i))
       ELSE DecimalFrom(value, i - 1, IF ds = <<>> THEN ds ELSE Append(ds, 0))

StartingPower(value) ==
  IF value < 10^SmallBelow THEN SmallFrom
  ELSE IF value < 10^MiddleBelow THEN MiddleFrom ELSE Top

__cvt_uint64_decimal(value) ==
  LET ds == DecimalFrom(value, StartingPower(value), <<>>)
  IN  Spelled(IF ds = <<>> THEN <<0>> ELSE ds, Digits)

\* The loop of _vprintf over buf from its end, which has room for width digits.
Radix(value, base, width, letters) ==
  LET ds == DigitsOf(value, base)
  IN  Spelled(Reverse(SubSeq(ds, 1, Smaller(width, Len(ds)))), letters)

HexWidth == (LongBits + 3) \div 4      \* 16 in the code
OctalWidth == (LongBits + 2) \div 3    \* 22

\* The digits __cvt_uint64_hex looks at: fewer of a small value.
HexDigits(value, width, spaced) ==
  IF spaced = 0 /\ width >= 8 /\ value < 2^8 THEN 2
  ELSE IF spaced = 0 /\ width >= 16 /\ value < 2^16 THEN 4
  ELSE width

\* spaced is 1 for leading spaces, 0 for nothing and -1 for zeros; a width of
\* 32, which no caller has, is left out.
__cvt_uint64_hex(value, width, spaced) ==
  LET ds == DigitsIn(value, 16, HexDigits(value, width, spaced))
      started(k) == spaced = -1 \/ \E j \in 1..k : ds[j] > 0
      at(k) == IF started(k) THEN Spelled(<<ds[k]>>, Digits)
               ELSE IF spaced = 1 THEN <<" ">> ELSE <<>>
      text == FlattenSeq([k \in DOMAIN ds |-> at(k)])
  IN  IF value # 0 \/ spaced = -1 THEN text
      ELSE IF spaced = 1 THEN [text EXCEPT ![Len(text)] = "0"] ELSE <<"0">>

------------------------------------------------------------------------------
\* The calls of an outputter.

writen(s) == <<[op |-> "writen", text |-> s]>>
write0(s) == <<[op |-> "write0", text |-> s]>>
writec(c) == <<[op |-> "writec", text |-> <<c>>]>>
newline   == <<[op |-> "newline", text |-> <<Newline>>]>>

\* A conversion: the flags it has, a width (negative only from an argument),
\* a precision, a length ("", "b", "h", "l" or "L") and a letter.
Conversion(flags, width, precision, length, letter) ==
  [flags |-> flags, width |-> width, precision |-> precision,
   length |-> length, letter |-> letter]

\* formatparams_t as it is when the letter is reached.
Params(d) ==
  [sign |-> IF "+" \in d.flags THEN <<"+">> ELSE IF " " \in d.flags THEN <<" ">> ELSE <<>>,
   alternate |-> "#" \in d.flags,
   digit_pad |-> "0" \in d.flags,
   align_left |-> "-" \in d.flags \/ d.width < 0,
   field_width |-> IF d.width < 0 THEN -d.width ELSE d.width,
   precision |-> d.precision]

\* Mutant: the prefix has no part in the field.
DigitPadUnprefixed(params, size, n) ==
  IF ~params.digit_pad THEN 0
  ELSE Larger(0, (IF params.precision # Unset THEN params.precision
                  ELSE IF params.align_left THEN size ELSE params.field_width) - size)

\* Digits that pad a number of size digits; n is the length of its prefix.
DigitPad(params, size, n) ==
  IF ~params.digit_pad THEN 0
  ELSE Larger(0, (IF params.precision # Unset THEN params.precision
                  ELSE IF params.align_left THEN size
                  ELSE params.field_width - n) - size)

count_pad_digits(params, size, prefix) ==
  Len(prefix) + DigitPad(params, size, Len(prefix))

\* The prefix and the padding, which are written eight at a time.
pad_digits(params, size, prefix) ==
  LET pad == DigitPad(params, size, Len(prefix))
  IN  (IF prefix = <<>> THEN <<>> ELSE write0(prefix))
      \o (IF pad > 0 THEN writen(Repeated("0", pad)) ELSE <<>>)

pad_output(params, size) ==
  LET pad == params.field_width - size
  IN  IF pad > 0 THEN writen(Repeated(" ", pad)) ELSE <<>>

\* body, of size characters, in its field.
InField(params, size, body) ==
  IF params.align_left THEN body \o pad_output(params, size)
                       ELSE pad_output(params, size) \o body

RECURSIVE write_with_newlines(_)
write_with_newlines(s) ==
  LET k == FirstAt(s, Newline)
  IN  IF s = <<>> THEN <<>>
      ELSE IF k > Len(s) THEN writen(s)
      ELSE writen(SubSeq(s, 1, k - 1)) \o newline
           \o write_with_newlines(SubSeq(s, k + 1, Len(s)))

------------------------------------------------------------------------------
\* One conversion each: c, s, and the integers.

Character(params, c) == InField(params, 1, writec(c))

\* A precision limits how much of the string is looked at.
String(params, s) ==
  LET size == IF params.precision = Unset THEN Len(s)
              ELSE Larger(0, Smaller(params.precision, Len(s)))
      shown == SubSeq(s, 1, size)
  IN  InField(params, size,
        IF Contains(shown, Newline) THEN write_with_newlines(shown) ELSE writen(shown))

\* A register read as an unsigned or signed value of the conversion's length;
\* plain signed values have 32 bits, plain unsigned ones the whole register.
Unsigned(register, length) ==
  CASE length = "b" -> register % 2^ByteBits
    [] length = "h" -> register % 2^HalfBits
    [] length = "l" -> register % 2^WordBits
    [] OTHER -> register

Signed(register, length) ==
  CASE length = "b" -> Wrapped(register, ByteBits)
    [] length = "h" -> Wrapped(register, HalfBits)
    [] length \in {"l", ""} -> Wrapped(register, WordBits)
    [] OTHER -> Wrapped(register, LongBits)

Number(params, prefix, text) ==
  InField(params, Len(text) + count_pad_digits(params, Len(text), prefix),
          pad_digits(params, Len(text), prefix) \o writen(text))

Hexes == {"p", "x", "X"}

\* p, x, X and o.  Zero is just "0", and NULL as a pointer.
RadixNumber(params, letter, value) ==
  IF letter = "p" /\ value = 0 THEN Number(params, <<>>, <<"N", "U", "L", "L">>)
  ELSE IF value = 0
       THEN Number(params, <<>>, IF params.precision = 0 THEN <<>> ELSE <<"0">>)
  ELSE LET prefix == IF letter = "p" \/ (letter \in Hexes /\ params.alternate)
                     THEN IF letter = "X" THEN <<"0", "X">> ELSE <<"0", "x">>
                     ELSE IF params.alternate THEN <<"0">> ELSE <<>>
           text == IF letter \in Hexes
                   THEN Radix(value, 16, HexWidth, IF letter = "x" THEN LowerDigits ELSE Digits)
                   ELSE Radix(value, 8, OctalWidth, Digits)
       IN  Number(params, prefix, text)

\* u, i and d.
DecimalNumber(params, value, prefix) ==
  Number(params, prefix,
         IF value = 0 /\ params.precision = 0 /\ prefix = <<>> THEN <<>>
         ELSE __cvt_uint64_decimal(value))

Integer(d, register) ==
  LET given  == Params(d)
      params == [given EXCEPT !.digit_pad = @ \/ given.precision # Unset]
      svalue == Signed(register, d.length)
  IN  IF d.letter \in Hexes \cup {"o"}
      THEN RadixNumber(params, d.letter, Unsigned(register, d.length))
      ELSE IF d.letter = "u" THEN DecimalNumber(params, Unsigned(register, d.length), <<>>)
      ELSE IF svalue < 0 THEN DecimalNumber(params, -svalue, <<"-">>)
      ELSE DecimalNumber(params, svalue, params.sign)

NULLText == <<"<", "N", "U", "L", "L", ">">>

\* The calls for one conversion of an argument; "" is a format that ends in it.
Converted(d, argument) ==
  CASE d.letter = "%" -> writec("%")
    [] d.letter = "" -> writec("%")
    [] d.letter = "c" -> Character(Params(d), argument)
    [] d.letter = "s" -> String(Params(d), IF argument = NUL THEN NULLText ELSE argument)
    [] d.letter \in Hexes \cup {"i", "d", "u", "o"} -> Integer(d, argument)
    [] OTHER -> writec("%") \o writec(d.letter)

\* A format's part is a text, the newline, or a conversion with its argument.
_vprintf(format) ==
  FlattenSeq([i \in DOMAIN format |->
    CASE format[i].kind = "text" -> writen(format[i].text)
      [] format[i].kind = "newline" -> newline
      [] OTHER -> Converted(format[i].conversion, format[i].argument)])

\* The characters an outputter that stores everything is given.
Output(calls) == FlattenSeq([i \in DOMAIN calls |-> calls[i].text])

------------------------------------------------------------------------------
\* The outputter of sprintf: buf is what was written, by offset.

StoredText(buf, at, s) ==
  [o \in DOMAIN buf \cup at..(at + Len(s) - 1) |->
     IF at <= o /\ o < at + Len(s) THEN s[o - at + 1] ELSE buf[o]]

\* Mutant: what is left is not less afterwards.
str_writenUncounted(out, s) ==
  IF out.left < Len(s) /\ out.left <= 0 THEN [out EXCEPT !.p = @ + Len(s)]
  ELSE LET n == Smaller(out.left, Len(s))
       IN  [out EXCEPT !.buf = StoredText(out.buf, out.p, Append(SubSeq(s, 1, n), NUL)),
                       !.p = @ + Len(s)]

\* A text that does not fit is cut where the room ends.
str_writen(out, s) ==
  IF out.left < Len(s) /\ out.left <= 0 THEN [out EXCEPT !.p = @ + Len(s)]
  ELSE LET n == Smaller(out.left, Len(s))
       IN  [out EXCEPT !.buf = StoredText(out.buf, out.p, Append(SubSeq(s, 1, n), NUL)),
                       !.p = @ + Len(s), !.left = @ - n]

\* A single character looks at the size and leaves left alone.
str_writec(out, c) ==
  IF out.p + 2 > out.size THEN [out EXCEPT !.p = @ + 1]
  ELSE [out EXCEPT !.buf = StoredText(out.buf, out.p, <<c, NUL>>), !.p = @ + 1]

\* write0 is writen of the whole string, newline writec of one.
StrCall(out, call) ==
  IF call.op \in {"writen", "write0"} THEN str_writen(out, call.text)
  ELSE str_writec(out, call.text[1])

\* vsprintf and vsnprintf; the count they return is p.
Sprinted(format, size) ==
  FoldLeft(StrCall, [buf |-> [o \in {} |-> NUL], p |-> 0, size |-> size, left |-> size],
           _vprintf(format))

vsnprintf(format, max) == Sprinted(format, max - 1)

\* vsprintf's limit, 0x7FFFFFFF: a bound no text of the model reaches.
Unlimited == 2^20
vsprintf(format) == Sprinted(format, Unlimited)
==============================================================================
