-------------------------------- MODULE Calls --------------------------------
(***************************************************************************)
(* The functions of the library that keep no state, as calls of a program: *)
(* a call is made, its answer is there, and it returns.  What an answer    *)
(* should be is said here too, from the C standard's words, and not in the *)
(* way the code computes it.                                               *)
(***************************************************************************)
EXTENDS Calendar, Reading, SortCalls, MemoryCalls, Bitwise

CONSTANTS ScaleBits, Far                \* of Maths
CONSTANTS
  Conversions, Formats,                 \* what is printed, with its arguments
  Numerals, Bases, Decimated, Lines,    \* texts that are read
  Moments, Dates, Days,                 \* of gmtime, from_gm_time and strftime
  Narrow, Single, Wide, Lows,           \* formats of floating point
  Scales,                               \* exponents scalbn adds
  Fillings                              \* characters memset fills with

F == INSTANCE Maths

-----------------------------------------------------------------------------
\* Formatted output.

Prints == \E c \in Conversions :
  Called([to |-> "printf", d |-> c.conversion, value |-> c.argument],
         Output(_vprintf(<<[kind |-> "conversion", conversion |-> c.conversion,
                            argument |-> IF c.conversion.letter \in {"c", "s"} THEN c.argument
                                         ELSE c.argument % 2^LongBits]>>)))

Stores == \E format \in Formats, room \in 2..6 :
  Called([to |-> "snprintf", format |-> format, room |-> room], vsnprintf(format, room))

\* The digits of a number: as few as will do, but not fewer than a precision.
DigitsNeeded(value, base) ==
  CHOOSE n \in 0..30 : base^n > value /\ (n = 0 \/ base^(n - 1) <= value)

NumeralOf(value, base, letters, precision) ==
  LET n == Larger(DigitsNeeded(value, base), IF precision = Unset THEN 1 ELSE precision)
  IN  [i \in 1..n |-> letters[((value \div base^(n - i)) % base) + 1]]

\* What the conversion d asks for: a head of sign and prefix, and a body.
AskedHead(d, value) ==
  CASE d.letter = "d" -> IF value < 0 THEN <<"-">> ELSE IF "+" \in d.flags THEN <<"+">>
                         ELSE IF " " \in d.flags THEN <<" ">> ELSE <<>>
    [] d.letter \in {"x", "X"} /\ "#" \in d.flags /\ value # 0 -> <<"0", d.letter>>
    [] d.letter = "o" /\ "#" \in d.flags /\ value # 0 -> <<"0">>
    [] OTHER -> <<>>

AskedBody(d, value) ==
  CASE d.letter = "c" -> <<value>>
    [] d.letter = "s" -> SubSeq(value, 1, IF d.precision = Unset THEN Len(value)
                                          ELSE Smaller(d.precision, Len(value)))
    [] OTHER -> NumeralOf(Magnitude(value),
                          IF d.letter \in {"x", "X"} THEN 16 ELSE IF d.letter = "o" THEN 8 ELSE 10,
                          IF d.letter = "x" THEN LowerDigits ELSE Digits, d.precision)

Asked(d, value) ==
  LET head == AskedHead(d, value)
      body == AskedBody(d, value)
      room == Larger(0, Magnitude(d.width) - Len(head) - Len(body))
      zeros == "0" \in d.flags /\ d.precision = Unset /\ d.letter \notin {"c", "s"}
  IN  IF "-" \in d.flags \/ d.width < 0 THEN head \o body \o Repeated(" ", room)
      ELSE IF zeros THEN head \o Repeated("0", room) \o body
      ELSE Repeated(" ", room) \o head \o body

(***************************************************************************)
(* A conversion of _vprintf writes what the C standard asks for, for every *)
(* combination of flags, width, precision, length and sign.  (Left out are *)
(* three where the code differs: "#" with a precision for octal, a sign    *)
(* with a precision of 0 for zero; and %p, which is the library's own.)    *)
(***************************************************************************)
PrintedAsAsked ==
  call.to = "printf" =>
    \/ call.d.letter = "o" /\ "#" \in call.d.flags /\ call.d.precision # Unset
    \/ call.d.letter = "d" /\ call.d.precision = 0 /\ call.value = 0
    \/ answer = Asked(call.d, call.value)

(***************************************************************************)
(* vsnprintf counts all of the text; of a text without single characters   *)
(* and newlines it stores what there is room for, with the NUL behind it,  *)
(* and nothing beyond the room.  (Of the others nothing is said but the    *)
(* count: BufferNotOverrun, below, is what they break.)                    *)
(***************************************************************************)
BufferKept ==
  call.to = "snprintf" =>
    LET calls == _vprintf(call.format)
        text == Output(calls)
        kept == Smaller(Len(text), call.room - 1)
    IN  /\ answer.p = Len(text)
        /\ (\A i \in DOMAIN calls : calls[i].op \notin {"writec", "newline"}) /\ text # <<>> =>
             /\ DOMAIN answer.buf = 0..kept
             /\ \A o \in 0..kept - 1 : answer.buf[o] = text[o + 1]
             /\ answer.buf[kept] = NUL

(***************************************************************************)
(* "snprintf should now correctly terminate rather than overrun buffers"   *)
(* (changelogs/releases/0.14.md:28), and so say the comments of            *)
(* io-sprintf.c:20 and :59.  It does not hold: str_writec leaves what      *)
(* str_writen goes by, left, as it was.                                    *)
(***************************************************************************)
BufferNotOverrun ==
  call.to = "snprintf" => \A o \in DOMAIN answer.buf : o < call.room

(***************************************************************************)
(* Formatted output is what was asked for, on a stream and in a buffer     *)
(* (_vprintf, vsnprintf).                                                  *)
(***************************************************************************)
PrintedRight == PrintedAsAsked /\ BufferKept

-----------------------------------------------------------------------------
\* Times and dates.

WeekFormat == <<[plain |-> "", conversion |-> <<"G">>], [plain |-> "-", conversion |-> <<>>],
                [plain |-> "", conversion |-> <<"V">>], [plain |-> " ", conversion |-> <<>>],
                [plain |-> "", conversion |-> <<"U">>], [plain |-> " ", conversion |-> <<>>],
                [plain |-> "", conversion |-> <<"W">>]>>

Dated == \/ \E t \in Moments, before \in WordsBefore :
              Called([to |-> "gmtime", t |-> t, before |-> before], gmtime(t, before))
         \/ \E d \in Dates, gmtoff \in {-1, 0} :
              Called([to |-> "from_gm_time", d |-> d], from_gm_time(d, gmtoff))
         \/ \E d \in Days, room \in {13, 14} :
              Called([to |-> "strftime", d |-> d, room |-> room], strftime(d, room, WeekFormat))

\* The days from the first of March of year 0, of the Gregorian calendar.
DayNumber(year, mon, day) ==
  LET y == IF mon < 3 THEN year - 1 ELSE year
  IN  365 * y + y \div 4 - y \div 100 + y \div 400 + (153 * ((mon + 9) % 12) + 2) \div 5 + day - 1
DaysSince1970(year, mon, day) == DayNumber(year, mon, day) - DayNumber(1970, 1, 1)

Elapsed(days, hour, min, sec) ==
  days * SECSPERDAY + hour * SECSPERHOUR + min * SECSPERMINUTE + sec

\* The week of the ISO is the one of its Thursday.
IsoOf(d) ==
  LET year == d.year + TM_YEAR_BASE
      length(y) == DayNumber(y + 1, 1, 1) - DayNumber(y, 1, 1)
      thursday == d.yday + 3 - ((d.wday + 6) % 7)
  IN  IF thursday < 0 THEN [year |-> year - 1, week |-> (thursday + length(year - 1)) \div 7 + 1]
      ELSE IF thursday >= length(year) THEN [year |-> year + 1, week |-> 1]
      ELSE [year |-> year, week |-> thursday \div 7 + 1]

\* How many days of the week w there have been this year.
WeekdaysUpTo(d, w) ==
  Cardinality({k \in 0..d.yday : (d.wday - (d.yday - k) - w) % DAYSPERWEEK = 0})

Weeks(d) ==
  LET two(n) == NumeralOf(n, 10, Digits, 2)
  IN  NumeralOf(IsoOf(d).year, 10, Digits, 4) \o <<"-">> \o two(IsoOf(d).week)
      \o <<" ">> \o two(WeekdaysUpTo(d, 0)) \o <<" ">> \o two(WeekdaysUpTo(d, 1))

(***************************************************************************)
(* Dates: gmtime gives the time of the day, and in a common year the day   *)
(* of it; from_gm_time is the time of a date on the Gregorian calendar;    *)
(* strftime's weeks (%G, %V, %U and %W) are those of ISO 8601, of the      *)
(* Sundays and of the Mondays, and its length is 0 just when there is no   *)
(* room for the NUL.                                                       *)
(* (Left out of gmtime is what the code gets wrong: the first second of a  *)
(* minute, which its loops leave in the minute before; the month, and the  *)
(* day of the month after January; the year, not counted from 1900; and    *)
(* the days of the year that the word read in front of the table, or in a  *)
(* leap year the last of the row above, takes away.)                       *)
(***************************************************************************)
TimeOfDay(t) == [hour |-> (t \div SECSPERHOUR) % HOURSPERDAY,
                 min |-> (t \div SECSPERMINUTE) % MINUTESPERHOUR, sec |-> t % SECSPERMINUTE]

GmtimeRight(t, before, d) ==
  LET days == t \div SECSPERDAY
      year == CHOOSE y \in 1970..2099 : DaysSince1970(y, 1, 1) <= days
                                        /\ days < DaysSince1970(y + 1, 1, 1)
      yday == days - DaysSince1970(year, 1, 1)
      lost == IF isleap(year) THEN 365 ELSE before
  IN  t % SECSPERMINUTE # 0 /\ yday >= lost =>
        /\ [hour |-> d.hour, min |-> d.min, sec |-> d.sec] = TimeOfDay(t)
        /\ lost = 0 => d.yday = yday
        /\ lost = 0 /\ yday < 31 => d.mon = 0 /\ d.mday = yday + 1

CalendarRight ==
  CASE call.to = "gmtime" -> GmtimeRight(call.t, call.before, answer)
    [] call.to = "from_gm_time" ->
         answer = Elapsed(DaysSince1970(call.d.year, call.d.mon, call.d.mday),
                          call.d.hour, call.d.min, call.d.sec)
    [] call.to = "strftime" ->
         LET text == Weeks(call.d)
         IN  /\ answer.length = IF Len(text) + 1 > call.room THEN 0 ELSE Len(text)
             /\ answer.length > 0 => answer.stored = text
    [] OTHER -> TRUE

-----------------------------------------------------------------------------
\* Numbers and words read.

ScanFormat == <<"%s", " ", "%s">>

\* strtoll, and strtoull when the result is not signed.
Reads == \/ \E s \in Numerals, base \in Bases, signed \in BOOLEAN :
              Called([to |-> "strtoll", s |-> s, base |-> base, signed |-> signed],
                     IF signed THEN strtoll(s, base) ELSE strtoull(s, base))
         \/ \E s \in Decimated : Called([to |-> "strtod", s |-> s], strtod(s))
         \/ \E s \in Lines : Called([to |-> "sscanf", s |-> s], sscanf(s, ScanFormat))

\* A number in s from i: a sign of so many characters, a prefix, and digits of
\* the base b up to the end.
Numeral(s, base, n) ==
  LET digits == n.from + n.sign + n.prefix
  IN  /\ \A k \in 1..n.from - 1 : s[k] \in Spaces
      /\ n.sign = 1 => At(s, n.from) \in Signs
      /\ \/ n.prefix = 0 /\ n.b = IF base # 0 THEN base ELSE IF At(s, digits) = "0" THEN 8 ELSE 10
         \/ /\ n.prefix = 2 /\ n.b = 16 /\ base \in {0, 16}
            /\ At(s, digits - 2) = "0" /\ At(s, digits - 1) \in {"x", "X"}
      /\ digits <= n.end
      /\ \A k \in digits..n.end : DigitValue(s[k]) < n.b

NumeralsOf(s, base) ==
  {n \in [from : 1..Len(s), sign : {0, 1}, prefix : {0, 2}, b : {8, 10, 16}, end : 1..Len(s)] :
     Numeral(s, base, n)}

ValueOfDigits(s, from, end, b) ==
  FoldLeft(LAMBDA v, k : v + DigitValue(s[k]) * b^(end - k), 0,
           [j \in 1..Larger(0, end - from + 1) |-> from + j - 1])

ReadRight(s, base, signed, r) ==
  LET found == NumeralsOf(s, base)
      n == CHOOSE m \in found : \A o \in found : o.end <= m.end
      value == ValueOfDigits(s, n.from + n.sign + n.prefix, n.end, n.b)
      minus == n.sign = 1 /\ s[n.from] = "-"
      limit == IF ~signed THEN ULONG_MAX ELSE IF minus THEN -LONG_MIN ELSE LONG_MAX
  IN  IF found = {} THEN r = Read(0, 1, "EINVAL")
      ELSE /\ r.end = n.end + 1
           /\ r.errno = IF value > limit THEN "ERANGE" ELSE "none"
           /\ r.value = IF value > limit THEN IF signed /\ minus THEN LONG_MIN ELSE limit
                        ELSE IF ~minus THEN value
                        ELSE IF signed THEN -value ELSE (-value) % (ULONG_MAX + 1)

\* A decimal number in s: the mantissa up to m, and up to the end an exponent,
\* if there is one.
Fraction(s, n) ==
  LET first == n.from + n.sign
      digits == {k \in first..n.m : s[k] \in Decimals}
      exponent == n.m + 2 + n.esign
  IN  /\ \A k \in 1..n.from - 1 : s[k] \in Spaces
      /\ n.sign = 1 => At(s, n.from) \in Signs
      /\ first <= n.m /\ digits # {} /\ \A k \in first..n.m : s[k] \in Decimals \cup {"."}
      /\ Cardinality((first..n.m) \ digits) <= 1
      /\ \/ n.end = n.m /\ n.esign = 0
         \/ /\ At(s, n.m + 1) \in {"e", "E"} /\ exponent <= n.end
            /\ n.esign = 1 => At(s, n.m + 2) \in Signs
            /\ \A k \in exponent..n.end : s[k] \in Decimals

FractionsOf(s) ==
  {n \in [from : 1..Len(s), sign : {0, 1}, m : 1..Len(s), esign : {0, 1}, end : 1..Len(s)] :
     Fraction(s, n)}

\* frac * 10^exp is the same number as m * 10^x.
SameDecimal(frac, exp, m, x) ==
  LET low == Smaller(exp, x) IN frac * 10^(exp - low) = m * 10^(x - low)

FractionRight(s, r) ==
  LET found == FractionsOf(s)
      n == CHOOSE m \in found : \A o \in found : o.end <= m.end
      mantissa == SubSeq(s, n.from + n.sign, n.m)
      digits == SelectSeq(mantissa, LAMBDA c : c # ".")
      behind == Len(mantissa) - FirstAt(mantissa, ".")
      x == ValueOfDigits(s, n.m + 2 + n.esign, n.end, 10)
      exp == (IF n.esign = 1 /\ s[n.m + 2] = "-" THEN -x ELSE x) - Larger(0, behind)
  IN  IF found = {} THEN r.frac = 0 /\ r.end = 1
      ELSE \/ Len(digits) > MAX_DIGITS                           \* not all are kept
           \/ n.end = n.m /\ At(s, n.m + 1) \in {"e", "E"}       \* an e without digits
           \/ Magnitude(exp) > MAX_EXPONENT
           \/ /\ r.end = n.end + 1
              /\ r.neg = (n.sign = 1 /\ s[n.from] = "-")
              /\ SameDecimal(r.frac, r.exp, ValueOfDigits(digits, 1, Len(digits), 10), exp)

\* The words of a line, in order.
WordsOf(s) ==
  LET starts == {i \in DOMAIN s : s[i] \notin Spaces /\ (i = 1 \/ s[i - 1] \in Spaces)}
      end(i) == CHOOSE j \in i..Len(s) : /\ \A k \in i..j : s[k] \notin Spaces
                                         /\ j = Len(s) \/ s[j + 1] \in Spaces
      order == SetToSortSeq(starts, LAMBDA i, j : i < j)
  IN  [k \in DOMAIN order |-> SubSeq(s, order[k], end(order[k]))]

(***************************************************************************)
(* Numbers are read as the C standard says: the longest text that is a     *)
(* number of the base is used, with the sign and prefix it has, and a      *)
(* value out of range becomes the limit on its side and ERANGE; strtod     *)
(* uses the longest decimal number and has its value, wherever the point   *)
(* is; sscanf's %s stores the words of a line, and at its end at most one  *)
(* empty one.  (Left out of strtod are digits beyond those it keeps, a     *)
(* decimal exponent beyond the largest it takes, and a number followed by  *)
(* an e that has no digits.)                                               *)
(***************************************************************************)
NumbersRead ==
  CASE call.to = "strtoll" -> ReadRight(call.s, call.base, call.signed, answer)
    [] call.to = "strtod" -> FractionRight(call.s, answer)
    [] call.to = "sscanf" ->
         LET words == WordsOf(call.s)
         IN  /\ SelectSeq(answer, LAMBDA w : w # <<>>) = SubSeq(words, 1, Smaller(2, Len(words)))
             /\ \A k \in 1..Len(answer) - 1 : answer[k] # <<>>
    [] OTHER -> TRUE

-----------------------------------------------------------------------------
\* Floating point, by exact arithmetic: Units is a number's distance from 0,
\* counted in the smallest denormal.

Numbers(f) == 0..2 * F!signBit(f) - 1
Finite(f, a) == F!AbsOf(f, a) < F!infRep(f)
Units(f, a) ==
  LET e == F!ExponentOf(f, a)
      m == a % F!implicitBit(f)
  IN  IF e = 0 THEN m ELSE (m + F!implicitBit(f)) * 2^(e - 1)
SignedUnits(f, a) == IF F!SignOf(f, a) = 0 THEN Units(f, a) ELSE -Units(f, a)
UnitBits(f) == F!exponentBias(f) + f.significandBits - 1      \* 1 is 2^UnitBits units

\* The number nearest to n / d units, the even one of two that are as near.
Nearest(f, n, d) ==
  LET low == CHOOSE r \in 0..F!infRep(f) :
               Units(f, r) * d <= n /\ (r = F!infRep(f) \/ n < Units(f, r + 1) * d)
      below == n - Units(f, low) * d
      above == Units(f, low + 1) * d - n
  IN  IF low = F!infRep(f) \/ below < above \/ (below = above /\ low % 2 = 0) THEN low
      ELSE low + 1

Integers4 == 4           \* bits of the integers that numbers are converted to

Computes ==
  \/ \E a \in 0..F!signBit(Single) - 1, b \in Numbers(Single) :
       Called([to |-> "add", a |-> a, b |-> b],
              [sum |-> F!__addXf3__(Single, a, b), less |-> F!__subtf3(Single, a, b),
               order |-> F!__letf2(Single, a, b), other |-> F!__getf2(Single, b, a)])
  \/ \E a, b \in Numbers(Narrow) :
       Called([to |-> "multiply", a |-> a, b |-> b],
              [product |-> F!__mulXf3__(Narrow, a, b), quotient |-> F!__divtf3(Narrow, a, b),
               next |-> F!nextafter(F!WordsOf(Narrow, 1), a, b),
               rest |-> F!__ieee754_fmod(Narrow, a, b)])
  \/ \E a \in Numbers(Wide) :
       Called([to |-> "convert", a |-> a],
              [narrow |-> F!__truncXfYf2__(Wide, Narrow, a),
               int |-> F!__fixint(Wide, a, Integers4), uint |-> F!__fixuint(Wide, a, Integers4)])
  \/ \E a \in Numbers(Narrow) :
       Called([to |-> "extend", a |-> a], F!__extendXfYf2__(Narrow, Wide, a))
  \/ \E i \in -8..7 : Called([to |-> "float", i |-> i], F!__floatditf(Wide, i))

SumRight(a, b, r) ==
  LET s == SignedUnits(Single, a) + SignedUnits(Single, b)
  IN  IF s # 0 THEN r = Nearest(Single, Magnitude(s), 1) + (IF s < 0 THEN F!signBit(Single) ELSE 0)
      ELSE r = IF a = b THEN a ELSE 0

\* Denormal quotients are flushed; the quotient in the middle between the
\* smallest normal number and the denormal below it is left out.
QuotientRight(a, b, r) ==
  LET n == Units(Narrow, a) * 2^UnitBits(Narrow)
      d == Units(Narrow, b)
      nearest == Nearest(Narrow, n, d)
  IN  \/ d = 0
      \/ 2 * n = (2 * F!implicitBit(Narrow) - 1) * d
      \/ r = F!Opposite(Narrow, a, b) + (IF nearest < F!implicitBit(Narrow) THEN 0 ELSE nearest)

\* The whole part, or the limit it is beyond; between 2^(bits-1) and 2^bits the
\* code has neither.
IntRight(r) ==
  LET whole == Units(Wide, call.a) \div 2^UnitBits(Wide)
      positive == F!SignOf(Wide, call.a) = 0
  IN  /\ whole \in 8..15 \/ r.int = IF positive THEN Smaller(whole, 7) ELSE Larger(-whole, -8)
      /\ r.uint = IF positive THEN Smaller(whole, 15) ELSE 0

Finer == UnitBits(Wide) - UnitBits(Narrow)

(***************************************************************************)
(* The arithmetic the compiler calls gives the number nearest to the exact *)
(* result, the even one of two (a quotient that is denormal is 0), also    *)
(* where a result becomes denormal, carries into the exponent or overflows *)
(* to infinity; numbers are in the order of their values; conversions      *)
(* round to nearest, or to integers towards 0.                             *)
(***************************************************************************)
FloatsRounded ==
  CASE call.to = "add" /\ Finite(Single, call.a) /\ Finite(Single, call.b) ->
         LET x == SignedUnits(Single, call.a)
             y == SignedUnits(Single, call.b)
             minus == (call.b + F!signBit(Single)) % (2 * F!signBit(Single))
         IN  /\ SumRight(call.a, call.b, answer.sum) /\ SumRight(call.a, minus, answer.less)
             /\ answer.order = (IF x < y THEN -1 ELSE IF x > y THEN 1 ELSE 0)
             /\ answer.other = -answer.order
    [] call.to = "multiply" /\ Finite(Narrow, call.a) /\ Finite(Narrow, call.b) ->
         /\ answer.product = F!Opposite(Narrow, call.a, call.b)
              + Nearest(Narrow, Units(Narrow, call.a) * Units(Narrow, call.b), 2^UnitBits(Narrow))
         /\ QuotientRight(call.a, call.b, answer.quotient)
    [] call.to = "convert" /\ Finite(Wide, call.a) ->
         /\ F!AbsOf(Narrow, answer.narrow) = Nearest(Narrow, Units(Wide, call.a), 2^Finer)
         /\ IntRight(answer)
    [] call.to = "extend" /\ Finite(Narrow, call.a) ->
         SignedUnits(Wide, answer) = SignedUnits(Narrow, call.a) * 2^Finer
    [] call.to = "float" -> SignedUnits(Wide, answer) = call.i * 2^UnitBits(Wide)
    [] OTHER -> TRUE

-----------------------------------------------------------------------------
\* Mathematics, in three ways to lay out a number in words.

Calculates ==
  \/ \E a \in Numbers(Wide), low \in Lows :
       LET f == F!WordsOf(Wide, low)
       IN  Called([to |-> "round", a |-> a],
                  [floor |-> F!floor(f, a), ceil |-> F!ceil(f, a), trunc |-> F!trunc(f, a),
                   modf |-> F!modf(f, a), sqrt |-> F!__ieee754_sqrt(f, a)])
  \/ \E a \in Numbers(Single), n \in Scales :
       Called([to |-> "scalbn", a |-> a, n |-> n], F!scalbn(Single, a, n))

\* Rounded to integers, as a number of units.
WholeRight(a, r) ==
  LET u == 2^UnitBits(Wide)
      v == SignedUnits(Wide, a)
      value(x) == SignedUnits(Wide, x)
  IN  /\ value(r.floor) = (v \div u) * u
      /\ value(r.ceil) = -((-v) \div u) * u
      /\ value(r.trunc) = Quotient(v, u) * u
      /\ value(r.modf.whole) = value(r.trunc)
      /\ value(r.modf.whole) + value(r.modf.fraction) = v
      /\ \A x \in {r.trunc, r.modf.whole, r.modf.fraction} : F!SignOf(Wide, x) = F!SignOf(Wide, a)

\* r is the root nearest to that of a: the middles to its neighbours are on
\* both sides of it.
RootRight(a, r) ==
  LET v == SignedUnits(Wide, a) * 2^UnitBits(Wide)
      value == Units(Wide, r)
  IN  IF v < 0 THEN F!IsNaN(Wide, r)
      ELSE IF v = 0 THEN r = a
      ELSE /\ (Units(Wide, r - 1) + value)^2 <= 4 * v
           /\ 4 * v <= (value + Units(Wide, r + 1))^2

\* From a one number on towards b.
NextRight(a, b, r) ==
  LET x == SignedUnits(Narrow, a)
      y == SignedUnits(Narrow, b)
      z == SignedUnits(Narrow, r)
  IN  IF x = y THEN r = b
      ELSE /\ z # x /\ (x < y) = (x < z)
           /\ ~\E o \in Numbers(Narrow) :
                 LET w == SignedUnits(Narrow, o)
                 IN  Finite(Narrow, o) /\ w # x /\ w # z /\ (x < w) = (w < z)

RestRight(a, b, r) ==
  IF Units(Narrow, b) = 0 THEN F!IsNaN(Narrow, r)
  ELSE /\ Units(Narrow, r) = Units(Narrow, a) % Units(Narrow, b)
       /\ F!SignOf(Narrow, r) = F!SignOf(Narrow, a)

\* Beyond Span every number goes out of the format.
Span == Single.significandBits + F!infRep(Single) \div F!implicitBit(Single) - 1
ScaledRight(a, n, r) ==
  r = F!SignOf(Single, a)
        + IF Units(Single, a) = 0 THEN 0
          ELSE IF n >= Span THEN F!infRep(Single)
          ELSE IF n >= 0 THEN Nearest(Single, Units(Single, a) * 2^n, 1)
          ELSE IF n >= -Span THEN Nearest(Single, Units(Single, a), 2^(-n))
          ELSE 0

(***************************************************************************)
(* The functions of the mathematics library that can be exact are: floor,  *)
(* ceil, trunc and modf to the unit with carries between the words and     *)
(* into the exponent, nextafter steps over no number, fmod is the          *)
(* remainder however many steps it took, and sqrt and scalbn are rounded   *)
(* to the nearest number once, also to a denormal.                         *)
(***************************************************************************)
MathsRight ==
  CASE call.to = "round" /\ Finite(Wide, call.a) ->
         WholeRight(call.a, answer) /\ RootRight(call.a, answer.sqrt)
    [] call.to = "multiply" /\ Finite(Narrow, call.a) /\ Finite(Narrow, call.b) ->
         NextRight(call.a, call.b, answer.next) /\ RestRight(call.a, call.b, answer.rest)
    [] call.to = "scalbn" /\ Finite(Single, call.a) -> ScaledRight(call.a, call.n, answer)
    [] OTHER -> TRUE

-----------------------------------------------------------------------------
\* Memory filled: memset (string/memset.c), whose words are or'ed together.

\* Byte k of the four of an int.
ByteOf(c, k) == (c \div 256^k) % 256

\* Mutant: not doubled to eight bytes.
c64Undoubled(c, k) == IF k < 4 THEN ByteOf(c, 0) ELSE 0

\* Byte k of c64: c or'ed with itself, an int's sign extended to the rest.
c64(c, k) ==
  LET int[j \in 0..7] ==
        IF j < 4 THEN IF j = 0 THEN ByteOf(c, 0) ELSE ByteOf(c, j) | ByteOf(c, j - 1)
        ELSE IF int[3] >= 128 THEN 255 ELSE 0
      twice(j) == IF j < 2 THEN int[j] ELSE int[j] | int[j - 2]
  IN  IF k < 4 THEN twice(k) ELSE twice(k) | twice(k - 4)

\* A head of single bytes, then words of c64, then single bytes.
memset(m, dst, c, size) ==
  LET over == dst % 16
      head == IF over # 0 /\ 15 - over <= size THEN 15 - over ELSE 0
      rest == size - head
      words == IF rest < 16 THEN 0 ELSE rest \div 8
      begin == dst + head
  IN  [p \in DOMAIN m |->
         IF p \in begin..begin + 8 * words - 1 THEN c64(c, (p - begin) % 8)
         ELSE IF p \in dst..dst + size - 1 THEN c % 256 ELSE m[p]]

Fills == \E m \in Images, dst \in Blocks, n \in Lengths, c \in Fillings :
  /\ dst..dst + n - 1 \subseteq DOMAIN m
  /\ Called([to |-> "memset", m |-> m, dst |-> dst, c |-> c, n |-> n], memset(m, dst, c, n))

(***************************************************************************)
(* memset fills a block with a byte and touches nothing beside it, with    *)
(* its words of eight bytes as with single ones.  (Left out is a character *)
(* that is not a byte, but for -1.)                                        *)
(***************************************************************************)
BlockFilled ==
  call.to = "memset" =>
    answer = [p \in DOMAIN call.m |->
                IF p \in call.dst..call.dst + call.n - 1 THEN call.c % 256 ELSE call.m[p]]

-----------------------------------------------------------------------------
CallsNext ==
  \/ /\ call = Idle
     /\ Prints \/ Stores \/ Dated \/ Reads \/ Sorts \/ Computes \/ Calculates
        \/ Moves \/ Asks \/ Fills
  \/ Returns
==============================================================================
