------------------------------ MODULE SoftFloat ------------------------------
(***************************************************************************)
(* Floating point without hardware (builtins/): what the compiler calls    *)
(* for long double.                                                        *)
(*                                                                         *)
(* A number is its representation, a natural number: sign, exponent and    *)
(* significand, whose widths are those of a format f.  In the code they    *)
(* are 1, 15 and 112 bits for a long double, 1, 11 and 52 for a double.    *)
(***************************************************************************)
EXTENDS Integers

Format(e, s) == [exponentBits |-> e, significandBits |-> s]

typeWidth(f) == 1 + f.exponentBits + f.significandBits
maxExponent(f) == 2^f.exponentBits - 1
exponentBias(f) == maxExponent(f) \div 2
implicitBit(f) == 2^f.significandBits
signBit(f) == 2^(f.significandBits + f.exponentBits)
infRep(f) == maxExponent(f) * implicitBit(f)
quietBit(f) == implicitBit(f) \div 2
qnanRep(f) == infRep(f) + quietBit(f)

AbsOf(f, a) == a % signBit(f)
SignOf(f, a) == a - AbsOf(f, a)
ExponentOf(f, a) == AbsOf(f, a) \div implicitBit(f)
IsNaN(f, a) == AbsOf(f, a) > infRep(f)
IsInf(f, a) == AbsOf(f, a) = infRep(f)
IsZero(f, a) == AbsOf(f, a) = 0
Opposite(f, a, b) == (SignOf(f, a) + SignOf(f, b)) % (2 * signBit(f))  \* sign of a product
Quieted(f, a) == IF (a \div quietBit(f)) % 2 = 1 THEN a ELSE a + quietBit(f)

RECURSIVE BitLength(_)
BitLength(n) == IF n = 0 THEN 0 ELSE 1 + BitLength(n \div 2)

\* A significand shifted until its first bit is the implicit one, and the
\* exponent of a denormal that it stands for.
normalize(f, significand) ==
  LET shift == f.significandBits + 1 - BitLength(significand)
  IN  [significand |-> significand * 2^shift, exponent |-> 1 - shift]

\* The parts of a finite number other than zero.
Parts(f, a) ==
  IF ExponentOf(f, a) = 0 THEN normalize(f, AbsOf(f, a))
  ELSE [significand |-> (a % implicitBit(f)) + implicitBit(f), exponent |-> ExponentOf(f, a)]

\* x >> n, with the last bit set when a bit was lost.
Sticky(x, n) ==
  LET y == x \div 2^n IN IF x % 2^n # 0 /\ y % 2 = 0 THEN y + 1 ELSE y

\* Mutant: a tie is always rounded up.
RoundedOffUp(x, n) == (x \div 2^n) + IF 2 * (x % 2^n) >= 2^n THEN 1 ELSE 0

\* The last n bits of x rounded off, to nearest and ties to even.
RoundedOff(x, n) ==
  LET y == x \div 2^n
      rest == 2 * (x % 2^n)
  IN  IF rest > 2^n \/ (rest = 2^n /\ y % 2 = 1) THEN y + 1 ELSE y

-----------------------------------------------------------------------------
\* Addition.

\* a and b finite and not zero, a not the smaller: three more bits are kept,
\* and b is shifted to a's exponent.
AddedParts(f, a, b) ==
  LET pa == Parts(f, a)
      pb == Parts(f, b)
      align == pa.exponent - pb.exponent
      aSignificand == 8 * pa.significand
      bSignificand == IF align < typeWidth(f) THEN Sticky(8 * pb.significand, align) ELSE 1
      sum == IF SignOf(f, a) # SignOf(f, b) THEN aSignificand - bSignificand
             ELSE aSignificand + bSignificand
      carried == Sticky(sum, 1)
      shift == f.significandBits + 4 - BitLength(sum)
  IN  IF shift < 0 THEN [significand |-> carried, exponent |-> pa.exponent + 1]
      ELSE [significand |-> sum * 2^shift, exponent |-> pa.exponent - shift]

FiniteSum(f, a, b) ==
  LET p == AddedParts(f, a, b)
      small == p.exponent <= 0
      significand == IF small THEN Sticky(p.significand, 1 - p.exponent) ELSE p.significand
      \* rounding may carry into the exponent
      packed == (significand % (8 * implicitBit(f)))
                  + 8 * implicitBit(f) * (IF small THEN 0 ELSE p.exponent)
  IN  IF p.significand = 0 THEN 0
      ELSE IF p.exponent >= maxExponent(f) THEN infRep(f) + SignOf(f, a)
      ELSE RoundedOff(packed, 3) + SignOf(f, a)

__addXf3__(f, a, b) ==
  CASE IsNaN(f, a) -> Quieted(f, a)
    [] ~IsNaN(f, a) /\ IsNaN(f, b) -> Quieted(f, b)
    [] ~IsNaN(f, b) /\ IsInf(f, a) ->
         IF IsInf(f, b) /\ SignOf(f, a) # SignOf(f, b) THEN qnanRep(f) ELSE a
    [] ~IsNaN(f, a) /\ ~IsInf(f, a) /\ IsInf(f, b) -> b
    [] IsZero(f, a) /\ IsZero(f, b) -> IF a = b THEN a ELSE 0
    [] IsZero(f, a) /\ AbsOf(f, b) \in 1..infRep(f) - 1 -> b
    [] IsZero(f, b) /\ AbsOf(f, a) \in 1..infRep(f) - 1 -> a
    [] OTHER -> IF AbsOf(f, b) > AbsOf(f, a) THEN FiniteSum(f, b, a) ELSE FiniteSum(f, a, b)

__subtf3(f, a, b) == __addXf3__(f, a, (b + signBit(f)) % (2 * signBit(f)))

-----------------------------------------------------------------------------
\* Multiplication.

\* The product of the significands in two words, the high one beginning with
\* the implicit bit.
FiniteProduct(f, a, b) ==
  LET pa == Parts(f, a)
      pb == Parts(f, b)
      word == 2^typeWidth(f)
      product == pa.significand * pb.significand * 2^f.exponentBits
      high == (product \div (word * implicitBit(f))) % 2 = 1
      wide == IF high THEN product ELSE 2 * product
      exponent == pa.exponent + pb.exponent - exponentBias(f) + (IF high THEN 1 ELSE 0)
      packed == (wide % (implicitBit(f) * word)) + implicitBit(f) * word * exponent
  IN  IF exponent >= maxExponent(f) THEN infRep(f)
      ELSE IF exponent > 0 THEN RoundedOff(packed, typeWidth(f))
      ELSE IF 1 - exponent >= typeWidth(f) THEN 0
      ELSE RoundedOff(Sticky(wide, 1 - exponent), typeWidth(f))

__mulXf3__(f, a, b) ==
  LET sign == Opposite(f, a, b)
  IN  CASE IsNaN(f, a) -> Quieted(f, a)
        [] ~IsNaN(f, a) /\ IsNaN(f, b) -> Quieted(f, b)
        [] ~IsNaN(f, b) /\ IsInf(f, a) -> IF IsZero(f, b) THEN qnanRep(f) ELSE infRep(f) + sign
        [] ~IsNaN(f, a) /\ ~IsInf(f, a) /\ IsInf(f, b) ->
             IF IsZero(f, a) THEN qnanRep(f) ELSE infRep(f) + sign
        [] OTHER -> IF IsZero(f, a) \/ IsZero(f, b) THEN sign
                    ELSE FiniteProduct(f, a, b) + sign

-----------------------------------------------------------------------------
\* Division.

\* The code multiplies by a reciprocal found by Newton's iteration, which is
\* below the true one by so little that the quotient is the one cut off here.
FiniteQuotient(f, a, b) ==
  LET pa == Parts(f, a)
      pb == Parts(f, b)
      s == f.significandBits
      long == (pa.significand * 2^(s + 1)) \div pb.significand
      less == long < 2 * implicitBit(f)
      quotient == IF less THEN long ELSE long \div 2
      residual == pa.significand * 2^(IF less THEN s + 1 ELSE s) - quotient * pb.significand
      written == pa.exponent - pb.exponent + exponentBias(f) - (IF less THEN 1 ELSE 0)
      absResult == quotient % implicitBit(f)
  IN  IF written >= maxExponent(f) THEN infRep(f)
      ELSE IF written >= 1
      THEN written * implicitBit(f) + absResult
             + (IF 2 * residual >= pb.significand THEN 1 ELSE 0)
      ELSE IF /\ written = 0 /\ absResult = implicitBit(f) - 1
              /\ 2 * residual > pb.significand
      THEN implicitBit(f)
      ELSE 0                                        \* denormals are flushed

__divtf3(f, a, b) ==
  LET sign == Opposite(f, a, b)
  IN  CASE IsNaN(f, a) -> Quieted(f, a)
        [] ~IsNaN(f, a) /\ IsNaN(f, b) -> Quieted(f, b)
        [] ~IsNaN(f, b) /\ IsInf(f, a) -> IF IsInf(f, b) THEN qnanRep(f) ELSE infRep(f) + sign
        [] ~IsNaN(f, a) /\ ~IsInf(f, a) /\ IsInf(f, b) -> sign
        [] IsZero(f, a) /\ AbsOf(f, b) < infRep(f) -> IF IsZero(f, b) THEN qnanRep(f) ELSE sign
        [] IsZero(f, b) /\ AbsOf(f, a) \in 1..infRep(f) - 1 -> infRep(f) + sign
        [] OTHER -> FiniteQuotient(f, a, b) + sign

-----------------------------------------------------------------------------
\* Comparison: as signed integers, the other way round for two negative ones.

Ordered(f, a, b) ==
  LET aInt == IF SignOf(f, a) = 0 THEN a ELSE a - 2 * signBit(f)
      bInt == IF SignOf(f, b) = 0 THEN b ELSE b - 2 * signBit(f)
      less == IF SignOf(f, a) = 0 \/ SignOf(f, b) = 0 THEN aInt < bInt ELSE aInt > bInt
  IN  IF (IsZero(f, a) /\ IsZero(f, b)) \/ aInt = bInt THEN 0 ELSE IF less THEN -1 ELSE 1

__unordtf2(f, a, b) == IsNaN(f, a) \/ IsNaN(f, b)
__letf2(f, a, b) == IF __unordtf2(f, a, b) THEN 1 ELSE Ordered(f, a, b)
__getf2(f, a, b) == IF __unordtf2(f, a, b) THEN -1 ELSE Ordered(f, a, b)

-----------------------------------------------------------------------------
\* Conversion between formats.

__truncXfYf2__(src, dst, a) ==
  LET aAbs == AbsOf(src, a)
      lost == src.significandBits - dst.significandBits
      rebias == exponentBias(src) - exponentBias(dst)
      underflow == (rebias + 1) * implicitBit(src)
      overflow == (rebias + maxExponent(dst)) * implicitBit(src)
      shift == rebias - ExponentOf(src, a) + 1
      significand == (a % implicitBit(src)) + implicitBit(src)
      payload == ((aAbs % quietBit(src)) \div 2^lost) % quietBit(dst)
      absResult ==
        CASE underflow <= aAbs /\ aAbs < overflow ->
               RoundedOff(aAbs, lost) - rebias * implicitBit(dst)
          [] aAbs > infRep(src) -> qnanRep(dst) + payload
          [] overflow <= aAbs /\ aAbs <= infRep(src) -> infRep(dst)
          [] OTHER -> IF shift > src.significandBits THEN 0
                      ELSE RoundedOff(Sticky(significand, shift), lost)
  IN  absResult + (IF SignOf(src, a) = 0 THEN 0 ELSE signBit(dst))

__extendXfYf2__(src, dst, a) ==
  LET aAbs == AbsOf(src, a)
      more == dst.significandBits - src.significandBits
      rebias == exponentBias(dst) - exponentBias(src)
      scale == src.significandBits + 1 - BitLength(aAbs)
      absResult ==
        CASE implicitBit(src) <= aAbs /\ aAbs < infRep(src) ->
               aAbs * 2^more + rebias * implicitBit(dst)
          [] aAbs >= infRep(src) -> infRep(dst) + (aAbs % implicitBit(src)) * 2^more
          [] 0 < aAbs /\ aAbs < implicitBit(src) ->
               ((aAbs * 2^(more + scale)) % implicitBit(dst))
                 + (rebias - scale + 1) * implicitBit(dst)
          [] aAbs = 0 -> 0
  IN  absResult + (IF SignOf(src, a) = 0 THEN 0 ELSE signBit(dst))

-----------------------------------------------------------------------------
\* Conversion from and to integers of so many bits.

\* The integers have no more bits than a significand, so none is lost.
__floatuntf(f, a) ==
  LET exponent == BitLength(a) - 1
  IN  IF a = 0 THEN 0
      ELSE a * 2^(f.significandBits - exponent) - implicitBit(f)
             + (exponent + exponentBias(f)) * implicitBit(f)

__floatditf(f, a) == IF a < 0 THEN signBit(f) + __floatuntf(f, -a) ELSE __floatuntf(f, a)

Significand(f, a) == (a % implicitBit(f)) + implicitBit(f)

\* The whole part; 0 <= exponent < bits.
Whole(f, a, exponent) ==
  IF exponent < f.significandBits
  THEN Significand(f, a) \div 2^(f.significandBits - exponent)
  ELSE Significand(f, a) * 2^(exponent - f.significandBits)

__fixint(f, a, bits) ==
  LET exponent == ExponentOf(f, a) - exponentBias(f)
      signed(x) == ((x + 2^(bits - 1)) % 2^bits) - 2^(bits - 1)
  IN  IF exponent < 0 THEN 0
      ELSE IF exponent >= bits
      THEN IF SignOf(f, a) = 0 THEN 2^(bits - 1) - 1 ELSE -(2^(bits - 1))
      ELSE signed((IF SignOf(f, a) = 0 THEN 1 ELSE -1) * Whole(f, a, exponent))

__fixuint(f, a, bits) ==
  LET exponent == ExponentOf(f, a) - exponentBias(f)
  IN  IF SignOf(f, a) # 0 \/ exponent < 0 THEN 0
      ELSE IF exponent >= bits THEN 2^bits - 1
      ELSE Whole(f, a, exponent) % 2^bits
==============================================================================
