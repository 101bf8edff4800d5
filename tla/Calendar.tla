------------------------------ MODULE Calendar ------------------------------
(***************************************************************************)
(* Times and dates (time/time-time.c, time-gmtime.c, time-localtime.c,     *)
(* asctime.c, strftime.c) as functions, above the formatted output that    *)
(* they use.                                                               *)
(*                                                                         *)
(* struct tm is a record.  The table of days is indexed from 1 to 13; the  *)
(* code reads it at -1 too, where a common year finds the word in front of *)
(* the table, one of WordsBefore, whatever the build put there, and a leap *)
(* year the last word of the row before.                                   *)
(***************************************************************************)
EXTENDS Printing, FiniteSets

CONSTANTS SECSPERMINUTE, MINUTESPERHOUR, HOURSPERDAY, \* 60, 60 and 24 in the code
          WordsBefore  \* what the word in front of the table may be

SECSPERHOUR == MINUTESPERHOUR * SECSPERMINUTE
SECSPERDAY == HOURSPERDAY * SECSPERHOUR
DAYSPERWEEK == 7
TM_YEAR_BASE == 1900

isleap(y) == y % 4 = 0 /\ (y % 100 # 0 \/ y % 400 = 0)
DaysIn(year) == IF isleap(year) THEN 366 ELSE 365

\* The days before month m, for m from 1, and of the whole year for 13.
CumulativeDays(year, m) ==
  LET leap == IF isleap(year) THEN 1 ELSE 0
  IN  CASE m < 3  -> IF m = 2 THEN 31 ELSE 0
        [] OTHER  -> <<59, 90, 120, 151, 181, 212, 243, 273, 304, 334, 365>>[m - 2] + leap

TIME_BASE_1970 == (70 * 365 + Quotient(70, 4)) * SECSPERDAY

\* time: centiseconds since 1900 from the host, or none.
time(quin) == quin \div 100 - TIME_BASE_1970

tm(year, mon, mday, hour, min, sec, wday, yday) ==
  [year |-> year, mon |-> mon, mday |-> mday, hour |-> hour, min |-> min,
   sec |-> sec, wday |-> wday, yday |-> yday, isdst |-> 0]

\* Mutant: the unit is taken off once.
RoundsOnce(t, unit) == IF t > unit THEN 1 ELSE 0

\* How often "while (time > unit) time -= unit" goes round.
Rounds(t, unit) == IF t > unit THEN (t - 1) \div unit ELSE 0

\* The loop over the years, which leaves a whole year of seconds in the old one.
RECURSIVE YearOf(_, _)
YearOf(t, year) ==
  LET seconds == CumulativeDays(year, 13) * SECSPERDAY
  IN  IF t > seconds THEN YearOf(t - seconds, year + 1) ELSE [year |-> year, rest |-> t]

\* The loop over the months compares with the whole year and never goes round:
\* what is taken off is the word at -1, before in a common year.
to_gm_time(t, before) ==
  IF t < 0 THEN tm(0, 0, 0, 0, 0, 0, 0, 0)
  ELSE LET y      == YearOf(t, 1970)
           inYear == y.rest - (IF isleap(y.year) THEN 365 ELSE before) * SECSPERDAY
           days   == Rounds(inYear, SECSPERDAY)
           inDay  == inYear - days * SECSPERDAY
           hours  == Rounds(inDay, SECSPERHOUR)
           inHour == inDay - hours * SECSPERHOUR
           mins   == Rounds(inHour, SECSPERMINUTE)
       IN  tm(y.year, 0, days + 1, hours, mins, inHour - mins * SECSPERMINUTE, 0, days)

\* Also localtime.
gmtime(t, before) == to_gm_time(t, before)

\* The check that refuses a date: here months count from 1 and years from 0,
\* and the month is compared with the days of a month.
Refused(d, gmtoff) ==
  \/ d.year < 1998 \/ d.year > 2099
  \/ d.mon = 0 \/ d.mon > 12 \/ d.mday = 0 \/ d.mon > 31
  \/ d.hour > HOURSPERDAY - 1 \/ d.min > MINUTESPERHOUR - 1 \/ d.sec > SECSPERMINUTE - 1
  \/ gmtoff < -1440 \/ (gmtoff > 1440 /\ gmtoff # 2047)

\* Days of the years from 1970 up to year.
RECURSIVE DaysOfYears(_)
DaysOfYears(year) ==
  IF year = 1970 THEN 0 ELSE DaysOfYears(year - 1) + CumulativeDays(year - 1, 13)

from_gm_time(d, gmtoff) ==
  IF Refused(d, gmtoff) THEN 0
  ELSE DaysOfYears(d.year) * SECSPERDAY
       + CumulativeDays(d.year, d.mon) * SECSPERDAY
       + (IF d.mday > 0 THEN d.mday - 1 ELSE 0) * SECSPERDAY
       + d.hour * SECSPERHOUR + d.min * SECSPERMINUTE + d.sec
       + (IF gmtoff # -1 THEN gmtoff * SECSPERMINUTE ELSE 0)

------------------------------------------------------------------------------
\* strftime.  What is written is cut at the end of the buffer.

\* lc_time: the letters of a name, which shortens to its first three.
Name(table, n, length) ==
  [i \in 1..length |-> table \o ToString(n) \o "." \o ToString(i)]
weekday(n) == Name("day", n, <<6, 6, 7, 9, 8, 6, 8>>[n + 1])
month(n) == Name("month", n, <<7, 8, 5, 5, 3, 4, 4, 6, 9, 7, 8, 8>>[n + 1])
Short(name) == SubSeq(name, 1, 3)

Unknown == <<"?">>
NameOfDay(t) == IF t.wday \in 0..6 THEN weekday(t.wday) ELSE Unknown
NameOfMonth(t) == IF t.mon \in 0..11 THEN month(t.mon) ELSE Unknown

\* fmt_padding: "%02d", "%2d", "%03d" and "%04d", as the padding flag changes them.
PAD_FMT_DEFAULT == 0
PAD_FMT_SPACED == 1
PAD_FMT_DAYOFYEAR == 2

Printed(d, n) == Output(Converted(d, n % 2^LongBits))
Decimal(zero, width) ==
  Conversion(IF zero THEN {"0"} ELSE {}, width, Unset, "", "d")

\* _conv with a row of fmt_padding.
_conv(n, row, pad) ==
  Printed(Decimal(pad = "0" \/ (pad = "" /\ row # PAD_FMT_SPACED),
                  IF pad = "-" THEN 0 ELSE <<2, 2, 3, 4>>[row + 1]), n)

\* The year a + b, in two halves whose signs agree.
_yconv(a, b, convert_top, convert_yy) ==
  LET trail0 == Remainder(a, 100) + Remainder(b, 100)
      lead0  == Quotient(a, 100) + Quotient(b, 100) + Quotient(trail0, 100)
      trail1 == Remainder(trail0, 100)
      carry  == IF trail1 < 0 /\ lead0 > 0 THEN -1
                ELSE IF lead0 < 0 /\ trail1 > 0 THEN 1 ELSE 0
      lead   == lead0 + carry
      trail  == trail1 - 100 * carry
      two(n) == Printed(Decimal(TRUE, 2), n)
  IN  (IF ~convert_top THEN <<>>
       ELSE IF lead = 0 /\ trail < 0 THEN <<"-", "0">> ELSE two(lead))
      \o (IF convert_yy THEN two(Magnitude(trail)) ELSE <<>>)

DaysOfSum(a, b) == DaysIn(Remainder(a, 400) + Remainder(b, 400))

\* The loop that looks for the ISO year, and the week in it.
RECURSIVE IsoWeek(_, _, _, _)
IsoWeek(year, base, yday, wday) ==
  LET len  == DaysOfSum(year, base)
      bot  == Remainder(yday + 11 - wday, DAYSPERWEEK) - 3
      top0 == bot - (len % DAYSPERWEEK)
      top  == len + IF top0 < -3 THEN top0 + DAYSPERWEEK ELSE top0
  IN  IF yday >= top THEN [base |-> base + 1, week |-> 1]
      ELSE IF yday >= bot
           THEN [base |-> base, week |-> 1 + Quotient(yday - bot, DAYSPERWEEK)]
      ELSE IsoWeek(year, base - 1, yday + DaysOfSum(year, base - 1), wday)

Iso(t) == IsoWeek(t.year, TM_YEAR_BASE, t.yday, t.wday)

\* The weeks begun by yday, when a week begins n days before wday's day.
WeekOfYear(t, n) == Quotient(t.yday + DAYSPERWEEK - n, DAYSPERWEEK)
\* Mutant: Sunday is the day before Monday.
SinceMondayBefore(t) == t.wday - 1
SinceMonday(t) == IF t.wday # 0 THEN t.wday - 1 ELSE DAYSPERWEEK - 1
Hour12(t) == LET h == Remainder(t.hour, 12) IN IF h # 0 THEN h ELSE 12

\* What each letter writes of a number: the value and the row of its padding.
Numeric(t, letter) ==
  CASE letter = "d" -> <<t.mday, PAD_FMT_DEFAULT>>
    [] letter = "e" -> <<t.mday, PAD_FMT_SPACED>>
    [] letter = "H" -> <<t.hour, PAD_FMT_DEFAULT>>
    [] letter = "I" -> <<Hour12(t), PAD_FMT_DEFAULT>>
    [] letter = "j" -> <<t.yday + 1, PAD_FMT_DAYOFYEAR>>
    [] letter = "k" -> <<t.hour, PAD_FMT_SPACED>>
    [] letter = "l" -> <<Hour12(t), PAD_FMT_SPACED>>
    [] letter = "M" -> <<t.min, PAD_FMT_DEFAULT>>
    [] letter = "m" -> <<t.mon + 1, PAD_FMT_DEFAULT>>
    [] letter = "S" -> <<t.sec, PAD_FMT_DEFAULT>>
    [] letter = "U" -> <<WeekOfYear(t, t.wday), PAD_FMT_DEFAULT>>
    [] letter = "W" -> <<WeekOfYear(t, SinceMonday(t)), PAD_FMT_DEFAULT>>
    [] letter = "V" -> <<Iso(t).week, PAD_FMT_DEFAULT>>
Numerics == {"d", "e", "H", "I", "j", "k", "l", "M", "m", "S", "U", "W", "V"}

\* The letters that write something else; s is always zero, z nothing.
Worded(t, letter) ==
  CASE letter = "A" -> NameOfDay(t)
    [] letter = "a" -> Short(NameOfDay(t))
    [] letter = "B" -> NameOfMonth(t)
    [] letter \in {"b", "h"} -> Short(NameOfMonth(t))
    [] letter = "C" -> _yconv(t.year, TM_YEAR_BASE, TRUE, FALSE)
    [] letter = "G" -> _yconv(t.year, Iso(t).base, TRUE, TRUE)
    [] letter = "g" -> _yconv(t.year, Iso(t).base, FALSE, TRUE)
    [] letter = "Y" -> _yconv(t.year, TM_YEAR_BASE, TRUE, TRUE)
    [] letter = "y" -> _yconv(t.year, TM_YEAR_BASE, FALSE, TRUE)
    [] letter = "n" -> <<Newline>>
    [] letter = "t" -> <<"tab">>
    [] letter = "p" -> IF t.hour >= 12 THEN <<"P", "M">> ELSE <<"A", "M">>
    [] letter = "s" -> <<"0">>
    [] letter = "u" -> Printed(Decimal(FALSE, 0), IF t.wday = 0 THEN DAYSPERWEEK ELSE t.wday)
    [] letter = "w" -> Printed(Decimal(FALSE, 0), t.wday)
    [] letter = "Z" -> IF t.isdst >= 0 THEN <<"G", "M", "T">> ELSE <<>>
    [] letter = "z" -> <<>>
Words == {"A", "a", "B", "b", "h", "C", "G", "g", "Y", "y", "n", "t", "p", "s", "u", "w",
          "Z", "z"}

\* One letter with a padding flag; a letter that is none is written itself.
Letter(t, letter, pad) ==
  IF letter \in Numerics
  THEN LET field == Numeric(t, letter) IN _conv(field[1], field[2], pad)
  ELSE IF letter \in Words THEN Worded(t, letter) ELSE <<letter>>

\* The letters that stand for a format, and what stands between their letters.
HMS == <<"H", ":", "M", ":", "S">>
Composite(letter) ==
  CASE letter = "c" -> <<"a", " ", "b", " ", "e", " ">> \o HMS \o <<" ", "Y">>
    [] letter \in {"D", "x"} -> <<"m", "/", "d", "/", "y">>
    [] letter = "F" -> <<"Y", "-", "m", "-", "d">>
    [] letter = "R" -> <<"H", ":", "M">>
    [] letter = "r" -> <<"I", ":", "M", ":", "S", " ", "p">>
    [] letter \in {"T", "X"} -> HMS
    [] letter = "v" -> <<"e", "-", "b", "-", "Y">>
    [] letter = "+" -> <<"a", " ", "b", " ", "e", " ">> \o HMS \o <<" ", "Z", " ", "Y">>
Composites == {"c", "D", "x", "F", "R", "r", "T", "X", "v", "+"}

Alternative == {"E", "O"}
Padding == {"-", "_", "0"}

\* A conversion is the characters behind the %.  A second modifier of a kind
\* is written, with all behind it; a format that ends in % ends in what is there.
Expanded(t, conversion) ==
  LET again == {k \in DOMAIN conversion : \E j \in 1..(k - 1) :
                  \/ {conversion[j], conversion[k]} \subseteq Alternative
                  \/ {conversion[j], conversion[k]} \subseteq Padding}
      modifiers == SelectSeq(conversion, LAMBDA c : c \in Padding)
      pad == IF modifiers = <<>> THEN "" ELSE modifiers[1]
      letter == IF conversion = <<>> THEN "" ELSE Last(conversion)
  IN  IF again # {} THEN SubSeq(conversion, Min(again), Len(conversion))
      ELSE IF letter \in Alternative \cup Padding THEN <<letter>>
      ELSE IF letter = "" THEN <<"%">>
      ELSE IF letter \in Composites
           THEN FlattenSeq([i \in DOMAIN Composite(letter) |-> Letter(t, Composite(letter)[i], "")])
      ELSE Letter(t, letter, pad)

\* A format is a sequence of plain characters, as <<>> and the character, and
\* of conversions, as what is behind the % and nothing.
_fmt(t, format) ==
  FlattenSeq([i \in DOMAIN format |->
    IF format[i].plain = "" THEN Expanded(t, format[i].conversion) ELSE <<format[i].plain>>])

\* The length, or 0 when there is no room for the NUL too, and what is stored.
strftime(t, maxsize, format) ==
  LET text == _fmt(t, format)
  IN  [length |-> IF Len(text) >= maxsize THEN 0 ELSE Len(text),
       stored |-> SubSeq(text, 1, Smaller(maxsize, Len(text)))]

------------------------------------------------------------------------------
\* asctime and ctime, into a static buffer or the caller's, which is smaller.

STD_ASCTIME_BUF_SIZE == 26

asctime_r(t, static) ==
  LET wn == IF t.wday \in 0..6 THEN Short(weekday(t.wday)) ELSE <<"?", "?", "?">>
      mn == IF t.mon \in 0..11 THEN Short(month(t.mon)) ELSE <<"?", "?", "?">>
      year == Worded(t, "Y")
      two(n) == Printed(Conversion({}, 0, 2, "", "d"), n)
      result == wn \o <<" ">> \o mn \o Printed(Decimal(FALSE, 3), t.mday)
                \o <<" ">> \o two(t.hour) \o <<":">> \o two(t.min) \o <<":">> \o two(t.sec)
                \o (IF Len(year) <= 4
                    THEN <<" ">> \o year \o Repeated(" ", 4 - Len(year))
                    ELSE Repeated(" ", 5) \o year)
                \o <<Newline>>
  IN  IF Len(result) < STD_ASCTIME_BUF_SIZE \/ static THEN result ELSE NUL

ctime(t, before) == asctime_r(gmtime(t, before), TRUE)
==============================================================================
