-------------------------------- MODULE Maths --------------------------------
(***************************************************************************)
(* The functions of the mathematics library that are exact, or rounded     *)
(* once (maths/): each works on the representation, in the three formats.  *)
(*                                                                         *)
(* A format has SoftFloat's fields and low, the bits of the significand    *)
(* that are in the low word of a number: 32 of a double, 64 of a long      *)
(* double and none of a float.  Where the code adds word by word, with a   *)
(* carry into the exponent, the carry is modelled; where it shifts a       *)
(* significand of two words it is one number here.                         *)
(***************************************************************************)
EXTENDS SoftFloat, Sequences

CONSTANTS ScaleBits,  \* 32: the exponent added by scalbn is an int
          Far       \* 50000: a larger change of the exponent is out of range

WordsOf(format, low) == [exponentBits |-> format.exponentBits,
                         significandBits |-> format.significandBits, low |-> low]

High(f, x) == x \div 2^f.low
Low(f, x) == x % 2^f.low
Joined(f, high, low) == high * 2^f.low + low
HighBits(f) == f.significandBits - f.low      \* of the significand

Signed(f, x, a) == SignOf(f, x) + a           \* a with the sign of x
One(f) == exponentBias(f) * implicitBit(f)
Power(f, x) == ExponentOf(f, x) - exponentBias(f)
NaN(f) == qnanRep(f)
Itself(f, x) == IF IsNaN(f, x) THEN Quieted(f, x) ELSE x      \* x + x of inf or NaN
Cleared(n, bits) == n - (n % 2^bits)

fabs(f, x) == AbsOf(f, x)
fabsf(f, x) == fabs(f, x)
copysign(f, x, y) == Signed(f, y, AbsOf(f, x))
copysignf(f, x, y) == copysign(f, x, y)
copysignl(f, x, y) == copysign(f, x, y)

-----------------------------------------------------------------------------
\* To integers.

\* x, of at least 1, without the bits behind the point; before they are cleared
\* a number to be rounded away from zero has 1 added.
Integral(f, x, away) ==
  LET j == Power(f, x)
      h == HighBits(f)
      high == High(f, x)
      low == Low(f, x)
      sum == low + 2^(f.significandBits - j)
      carry == sum >= 2^f.low
  IN  CASE j < h ->
             IF high % 2^(h - j) = 0 /\ low = 0 THEN x
             ELSE Joined(f, Cleared(high + (IF away THEN 2^(h - j) ELSE 0), h - j), 0)
        [] j >= h /\ j < f.significandBits ->
             IF low % 2^(f.significandBits - j) = 0 THEN x
             ELSE IF ~away THEN Joined(f, high, Cleared(low, f.significandBits - j))
             ELSE IF j = h THEN Joined(f, high + 1, 0)
             ELSE Joined(f, high + (IF carry THEN 1 ELSE 0),
                         Cleared(sum % 2^f.low, f.significandBits - j))
        [] OTHER -> Itself(f, x)

Negative(f, x) == SignOf(f, x) # 0

floor(f, x) ==
  IF Power(f, x) >= 0 THEN Integral(f, x, Negative(f, x))
  ELSE IF ~Negative(f, x) THEN 0 ELSE IF IsZero(f, x) THEN x ELSE Signed(f, x, One(f))

ceil(f, x) ==
  IF Power(f, x) >= 0 THEN Integral(f, x, ~Negative(f, x))
  ELSE IF Negative(f, x) THEN signBit(f) ELSE IF IsZero(f, x) THEN x ELSE One(f)

trunc(f, x) == IF Power(f, x) >= 0 THEN Integral(f, x, FALSE) ELSE Signed(f, x, 0)

\* The whole part and the fraction, each with the sign of x.
modf(f, x) ==
  LET whole == trunc(f, x)
  IN  [whole |-> IF IsNaN(f, x) THEN x ELSE whole,
       fraction |-> CASE IsNaN(f, x) -> Quieted(f, x)
                      [] Power(f, x) < 0 -> x
                      [] Power(f, x) >= 0 /\ whole = x -> Signed(f, x, 0)
                      [] OTHER -> __subtf3(f, x, whole)]

floorf(f, x) == floor(f, x)
floorl(f, x) == floor(f, x)
ceilf(f, x) == ceil(f, x)
ceill(f, x) == ceil(f, x)
truncf(f, x) == trunc(f, x)
truncl(f, x) == trunc(f, x)
modff(f, x) == modf(f, x)
modfl(f, x) == modf(f, x)

-----------------------------------------------------------------------------
\* The next number.

\* Mutant: the low word does not borrow from the high one.
DownOneWord(f, x) == Joined(f, High(f, x), (Low(f, x) - 1) % 2^f.low)

\* The words are counted down or up, and borrow or carry.
Down(f, x) == IF Low(f, x) = 0 THEN Joined(f, High(f, x) - 1, 2^f.low - 1)
              ELSE Joined(f, High(f, x), Low(f, x) - 1)
Up(f, x) == IF Low(f, x) = 2^f.low - 1 THEN Joined(f, High(f, x) + 1, 0)
            ELSE Joined(f, High(f, x), Low(f, x) + 1)

nextafter(f, x, y) ==
  LET inwards == \/ Negative(f, x) # Negative(f, y)
                 \/ AbsOf(f, x) > AbsOf(f, y)
      next == IF inwards THEN Down(f, x) ELSE Up(f, x)
  IN  CASE IsNaN(f, x) -> Quieted(f, x)
        [] ~IsNaN(f, x) /\ IsNaN(f, y) -> Quieted(f, y)
        [] OTHER -> IF Ordered(f, x, y) = 0 THEN y
                    ELSE IF IsZero(f, x) THEN Signed(f, y, 1)
                    ELSE IF ExponentOf(f, next) = maxExponent(f) THEN __addXf3__(f, x, x)
                    ELSE next
nextafterf(f, x, y) == nextafter(f, x, y)
nextafterl(f, x, y) == nextafter(f, x, y)

-----------------------------------------------------------------------------
\* x * 2^n.  two54 is as far as a denormal can be from a normal number, and
\* farther than a result may be from one.
two54(f) == f.significandBits + 2

\* An int that came round.
AsInt(n) == ((n + 2^(ScaleBits - 1)) % 2^ScaleBits) - 2^(ScaleBits - 1)

scalbn(f, x, n) ==
  LET p == Parts(f, AbsOf(f, x))
      k == AsInt(p.exponent + n)
      overflow == Signed(f, x, infRep(f))
      underflow == Signed(f, x, 0)
      fraction == p.significand - implicitBit(f)
  IN  CASE IsZero(f, x) -> x
        [] ExponentOf(f, x) = 0 /\ ~IsZero(f, x) /\ n < -Far -> underflow
        [] ExponentOf(f, x) = maxExponent(f) -> Itself(f, x)
        [] OTHER ->
             IF k >= maxExponent(f) THEN overflow
             ELSE IF k > 0 THEN Signed(f, x, k * implicitBit(f) + fraction)
             ELSE IF k <= -two54(f) THEN IF n > Far THEN overflow ELSE underflow
             ELSE Signed(f, x, RoundedOff(p.significand, 1 - k))
scalbnl(f, x, n) == scalbn(f, x, n)

-----------------------------------------------------------------------------
\* The remainder, by shifting and subtracting.

\* n steps on the significand hx, of which those of hy are taken away; 0 when
\* nothing is left.
RECURSIVE Remaining(_, _, _)
Remaining(hx, hy, n) ==
  LET rest == IF hx >= hy THEN hx - hy ELSE hx
  IN  IF n = 0 \/ rest = 0 THEN rest ELSE Remaining(2 * rest, hy, n - 1)

__ieee754_fmod(f, x, y) ==
  LET px == Parts(f, AbsOf(f, x))
      py == Parts(f, AbsOf(f, y))
      rest == Remaining(px.significand, py.significand, px.exponent - py.exponent)
      q == normalize(f, rest)
      exponent == py.exponent + q.exponent - 1
  IN  CASE IsZero(f, y) \/ AbsOf(f, x) >= infRep(f) \/ IsNaN(f, y) -> NaN(f)
        [] OTHER ->
             IF AbsOf(f, x) < AbsOf(f, y) THEN x
             ELSE IF AbsOf(f, x) = AbsOf(f, y) \/ rest = 0 THEN Signed(f, x, 0)
             ELSE IF exponent >= 1
             THEN Signed(f, x, exponent * implicitBit(f) + q.significand - implicitBit(f))
             ELSE Signed(f, x, q.significand \div 2^(1 - exponent))
__ieee754_fmodf(f, x, y) == __ieee754_fmod(f, x, y)
fmodl(f, x, y) == __ieee754_fmod(f, x, y)

-----------------------------------------------------------------------------
\* The square root, bit by bit from r: q is what there is of it, s twice that,
\* and ix what is left of the number.
RECURSIVE Rooted(_, _)
Rooted(g, r) ==
  LET t == g.s + r
      fits == t <= g.ix
  IN  IF r = 0 THEN g
      ELSE Rooted([ix |-> 2 * (IF fits THEN g.ix - t ELSE g.ix),
                   s |-> IF fits THEN t + r ELSE g.s,
                   q |-> IF fits THEN g.q + r ELSE g.q], r \div 2)

__ieee754_sqrt(f, x) ==
  LET p == Parts(f, x)
      m == p.exponent - exponentBias(f)
      even == IF m % 2 = 1 THEN 2 * p.significand ELSE p.significand
      g == Rooted([ix |-> 2 * even, s |-> 0, q |-> 0], 2 * implicitBit(f))
      q == IF g.ix # 0 THEN g.q + (g.q % 2) ELSE g.q
  IN  CASE ExponentOf(f, x) = maxExponent(f) ->
             IF IsNaN(f, x) THEN Quieted(f, x) ELSE IF Negative(f, x) THEN NaN(f) ELSE x
        [] IsZero(f, x) -> x
        [] OTHER -> IF Negative(f, x) THEN NaN(f)
                    ELSE q \div 2 + (exponentBias(f) - 1 + m \div 2) * implicitBit(f)
__ieee754_sqrtf(f, x) == __ieee754_sqrt(f, x)
==============================================================================
