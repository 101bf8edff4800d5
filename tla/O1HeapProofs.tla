---------------------------- MODULE O1HeapProofs ----------------------------
(***************************************************************************)
(* The O(1) heap (clib/heap/o1heap.c) keeps its arena tiled, its free      *)
(* lists complete and its free fragments merged, counts what it hands      *)
(* out, refuses no request that fits, and is an abstract allocator to its  *)
(* client, for every word size, alignment and arena.  The invariants are   *)
(* HeapInv and Counted; each operation of the code has a lemma that says   *)
(* which parts of them it keeps.                                           *)
(***************************************************************************)
EXTENDS O1Heap, FiniteSetTheorems, WellFoundedInduction, TLAPS

-----------------------------------------------------------------------------
(* Arithmetic.                                                              *)

LEMMA DivMult ==
  ASSUME NEW k \in Nat, NEW F \in Nat \ {0}
  PROVE  (k * F) \div F = k
OBVIOUS

LEMMA ModMult ==
  ASSUME NEW k \in Nat, NEW F \in Nat \ {0}
  PROVE  (k * F) % F = 0
OBVIOUS

LEMMA DivBounds ==
  ASSUME NEW x \in Nat, NEW F \in Nat \ {0}
  PROVE  /\ x \div F \in Nat
         /\ F * (x \div F) <= x
         /\ x < F * (x \div F) + F
         /\ x \div F <= x
OBVIOUS

LEMMA MultMono ==
  ASSUME NEW a \in Nat, NEW b \in Nat, a <= b, NEW F \in Nat
  PROVE  a * F <= b * F
OBVIOUS

LEMMA MultDiff ==
  ASSUME NEW a \in Nat, NEW b \in Nat, NEW F \in Nat \ {0}
  PROVE  /\ a * F - b * F = (a - b) * F
         /\ a * F + b * F = (a + b) * F
         /\ a * F > b * F => a - b >= 1 /\ (a - b) * F >= F
OBVIOUS

(* The least-number principle, from the well-foundedness of < on Nat.       *)
LEMMA NatMin ==
  ASSUME NEW T, T \subseteq Nat, T # {}
  PROVE  \E x \in T : \A y \in T : x <= y
<1> DEFINE R == OpToRel(<, Nat)
<1>1. IsWellFoundedOn(R, Nat)
  BY NatLessThanWellFounded
<1>2. \A x, y \in Nat : x < y => <<x, y>> \in R
  BY DEF OpToRel
<1> HIDE DEF R
<1>3. PICK x \in T : \A y \in T : ~(<<y, x>> \in R)
  BY <1>1, WFMin
<1>4. ASSUME NEW y \in T PROVE x <= y
  <2>1. x \in Nat /\ y \in Nat /\ ~(<<y, x>> \in R)
    BY <1>3
  <2>2. ~(y < x)
    BY <2>1, <1>2
  <2> QED BY <2>1, <2>2
<1> QED BY <1>4

LEMMA PowNat == \A i \in 0 .. SIZE_BITS + 1 : pow2(i) \in Nat \ {0}
<1> DEFINE T == {n \in Nat : n <= SIZE_BITS + 1 /\ pow2(n) \notin Nat \ {0}}
<1>1. SUFFICES T = {}
  BY SizesAssumption
<1>2. SUFFICES ASSUME T # {} PROVE FALSE
  OBVIOUS
<1>3. PICK n \in T : \A m \in T : n <= m
  BY <1>2, NatMin
<1>4. n # 0
  BY <1>3, Pow2Laws
<1>5. n - 1 \in 0 .. SIZE_BITS /\ n - 1 \notin T
  BY <1>3, <1>4, SizesAssumption
<1>6. pow2(n - 1) \in Nat \ {0} /\ pow2((n - 1) + 1) = 2 * pow2(n - 1)
  BY <1>5, Pow2Laws, SizesAssumption
<1> QED BY <1>3, <1>6, <1>5

LEMMA PowDivides ==
  ASSUME NEW i \in 0 .. SIZE_BITS, NEW j \in 0 .. SIZE_BITS, i < j
  PROVE  \E k \in Nat \ {0} : pow2(j) = 2 * (k * pow2(i))
<1> DEFINE P(n) == \E k \in Nat \ {0} : pow2(n) = 2 * (k * pow2(i))
           T == {n \in Nat : i < n /\ n <= SIZE_BITS /\ ~P(n)}
<1>1. SUFFICES ASSUME T # {} PROVE FALSE
  BY SizesAssumption
<1>2. PICK n \in T : \A m \in T : n <= m
  BY <1>1, NatMin
<1>3. /\ n - 1 \in 0 .. SIZE_BITS /\ pow2(n) = 2 * pow2(n - 1)
      /\ pow2(i) \in Nat /\ n - 1 >= i /\ n - 1 \notin T
  BY <1>2, Pow2Laws, PowNat, SizesAssumption
<1>4. CASE n - 1 = i
  <2>1. pow2(n) = 2 * (1 * pow2(i))
    BY <1>3, <1>4
  <2> QED BY <2>1, <1>2
<1>5. CASE n - 1 # i
  <2>1. PICK k \in Nat \ {0} : pow2(n - 1) = 2 * (k * pow2(i))
    BY <1>3, <1>5, SizesAssumption
  <2>2. 2 * (k * pow2(i)) = (2 * k) * pow2(i) /\ 2 * k \in Nat \ {0}
    BY <1>3
  <2>3. pow2(n) = 2 * ((2 * k) * pow2(i))
    BY <1>3, <2>1, <2>2
  <2> QED BY <1>2, <2>2, <2>3
<1> QED BY <1>4, <1>5

LEMMA PowMono ==
  ASSUME NEW i \in 0 .. SIZE_BITS, NEW j \in 0 .. SIZE_BITS
  PROVE  /\ pow2(i) \in Nat \ {0}
         /\ i <= j => pow2(i) <= pow2(j)
         /\ i < j => 2 * pow2(i) <= pow2(j)
<1>1. pow2(i) \in Nat \ {0} /\ pow2(j) \in Nat \ {0}
  BY PowNat, SizesAssumption
<1>2. ASSUME i < j PROVE 2 * pow2(i) <= pow2(j)
  <2>1. PICK k \in Nat \ {0} : pow2(j) = 2 * (k * pow2(i))
    BY <1>2, PowDivides
  <2>3. 1 * pow2(i) <= k * pow2(i)
    BY <1>1, MultMono
  <2> QED BY <2>1, <2>3, <1>1
<1> QED BY <1>1, <1>2

LEMMA Sizes ==
  /\ O1HEAP_ALIGNMENT \in Nat \ {0}
  /\ FRAGMENT_SIZE_MIN \in Nat \ {0}
  /\ FRAGMENT_SIZE_MAX \in Nat \ {0}
  /\ 2 * O1HEAP_ALIGNMENT <= FRAGMENT_SIZE_MIN
  /\ FRAGMENT_SIZE_MAX < pow2(SIZE_BITS)
  /\ pow2(SIZE_BITS) \in Nat
BY PowMono, SizesAssumption DEF O1HEAP_ALIGNMENT, FRAGMENT_SIZE_MIN, FRAGMENT_SIZE_MAX

LEMMA Log ==
  ASSUME NEW x \in 1 .. pow2(SIZE_BITS) - 1
  PROVE  /\ log2Floor(x) \in Bins
         /\ pow2(log2Floor(x)) <= x
         /\ x < pow2(log2Floor(x) + 1)
<1> DEFINE T == {n \in Nat : n <= SIZE_BITS /\ x < pow2(n)}
<1>1. x \in Nat /\ 1 <= x /\ x < pow2(SIZE_BITS)
  BY Sizes
<1>2. SIZE_BITS \in T
  BY <1>1, SizesAssumption
<1>3. PICK n \in T : \A m \in T : n <= m
  BY <1>2, NatMin
<1>4. n # 0
  BY <1>1, <1>3, Pow2Laws
<1>5. /\ n - 1 \in Bins /\ n - 1 \notin T /\ pow2(n - 1) \in Nat
      /\ x < pow2((n - 1) + 1)
  BY <1>3, <1>4, PowMono, SizesAssumption DEF Bins
<1>6. \E i \in Bins : pow2(i) <= x /\ x < pow2(i + 1)
  <2>1. n - 1 \in Nat /\ n - 1 <= SIZE_BITS
    BY <1>5, SizesAssumption DEF Bins
  <2>2. pow2(n - 1) <= x
    BY <2>1, <1>1, <1>5
  <2> QED BY <2>2, <1>5
<1> QED BY <1>6 DEF log2Floor

LEMMA CapacityFact ==
  /\ Capacity \in Nat \ {0}
  /\ Capacity <= FRAGMENT_SIZE_MAX
  /\ \E k \in Nat \ {0} : Capacity = k * FRAGMENT_SIZE_MIN
<1> DEFINE room == ARENA_SIZE - INSTANCE_SIZE_PADDED
           lim  == IF room > FRAGMENT_SIZE_MAX THEN FRAGMENT_SIZE_MAX ELSE room
           F    == FRAGMENT_SIZE_MIN
<1>1. F <= FRAGMENT_SIZE_MAX
  BY PowMono, SizesAssumption DEF FRAGMENT_SIZE_MIN, FRAGMENT_SIZE_MAX
<1>2. lim \in Nat /\ F <= lim /\ lim <= FRAGMENT_SIZE_MAX
  BY <1>1, SizesAssumption, Sizes
<1>3. /\ lim \div F \in Nat
      /\ F * (lim \div F) <= lim
      /\ lim < F * (lim \div F) + F
  BY <1>2, Sizes, DivBounds
<1>4. Capacity = F * (lim \div F)
  BY DEF Capacity
<1> HIDE DEF lim, F
<1>5. lim \div F # 0
  <2>1. F * 0 = 0 /\ F \in Nat
    BY Sizes DEF F
  <2> QED BY <2>1, <1>2, <1>3
<1>6. F \in Nat \ {0}
  BY Sizes DEF F
<1>7. F * (lim \div F) = (lim \div F) * F /\ (lim \div F) * F >= F
  BY <1>3, <1>5, <1>6, MultMono
<1> QED BY <1>2, <1>3, <1>4, <1>5, <1>6, <1>7, Sizes DEF F


Whole(size) == \E k \in Nat \ {0} : size = k * FRAGMENT_SIZE_MIN

LEMMA UnitsOfWhole ==
  ASSUME NEW size, Whole(size)
  PROVE  /\ size \in Nat \ {0} /\ size >= FRAGMENT_SIZE_MIN
         /\ Units(size) \in Nat \ {0}
         /\ size = Units(size) * FRAGMENT_SIZE_MIN
         /\ Units(size) <= size
<1>1. PICK k \in Nat \ {0} : size = k * FRAGMENT_SIZE_MIN
  BY DEF Whole
<1>2. Units(size) = k
  BY <1>1, DivMult, Sizes DEF Units
<1>3. 1 * FRAGMENT_SIZE_MIN <= k * FRAGMENT_SIZE_MIN
  BY MultMono, Sizes
<1>4. k <= k * FRAGMENT_SIZE_MIN
  BY Sizes
<1> QED BY <1>1, <1>2, <1>3, <1>4, Sizes

(* The fragment of a whole size has a bin.                                  *)
LEMMA BinOfWhole ==
  ASSUME NEW size, Whole(size), size <= Capacity
  PROVE  /\ BinIndex(size) \in Bins
         /\ pow2(BinIndex(size)) <= Units(size)
BY UnitsOfWhole, CapacityFact, Sizes, Log DEF BinIndex

(* The size of the block cut for an amount.                                 *)
LEMMA FragmentSizeFact ==
  ASSUME NEW amount \in Nat, amount > 0, amount <= Capacity - O1HEAP_ALIGNMENT
  PROVE  /\ Whole(FragmentSize(amount))
         /\ FragmentSize(amount) >= amount + O1HEAP_ALIGNMENT
         /\ FragmentSize(amount) <= FRAGMENT_SIZE_MAX
<1> DEFINE x == amount + O1HEAP_ALIGNMENT
           l == log2Floor(x - 1)
<1>1. x - 1 \in 1 .. pow2(SIZE_BITS) - 1 /\ x - 1 < FRAGMENT_SIZE_MAX
      /\ O1HEAP_ALIGNMENT <= x - 1
  BY Sizes, CapacityFact
<1>2. l \in Bins /\ pow2(l) <= x - 1 /\ x - 1 < pow2(l + 1)
  BY <1>1, Log
<1>3. FragmentSize(amount) = pow2(l + 1)
  BY DEF FragmentSize, roundUpToPowerOf2
<1> HIDE DEF l
<1>4. l < SIZE_BITS - 1
  <2>1. SUFFICES ASSUME ~(l < SIZE_BITS - 1) PROVE FALSE
    OBVIOUS
  <2>2. pow2(SIZE_BITS - 1) <= pow2(l)
    BY <2>1, <1>2, PowMono, SizesAssumption DEF Bins
  <2> QED BY <2>2, <1>1, <1>2, PowMono, SizesAssumption DEF Bins, FRAGMENT_SIZE_MAX
<1>5. ALIGN_LOG < l + 1
  <2>1. SUFFICES ASSUME l + 1 <= ALIGN_LOG PROVE FALSE
    BY <1>2, SizesAssumption DEF Bins
  <2>2. pow2(l + 1) <= pow2(ALIGN_LOG)
    BY <2>1, <1>2, PowMono, SizesAssumption DEF Bins
  <2> QED BY <2>2, <1>1, <1>2, Sizes, PowMono, SizesAssumption DEF Bins, O1HEAP_ALIGNMENT
<1>6. Whole(pow2(l + 1))
  <2>1. CASE l = ALIGN_LOG
    BY <2>1, Sizes DEF Whole, FRAGMENT_SIZE_MIN
  <2>2. CASE ALIGN_LOG + 1 < l + 1
    <3>1. PICK k \in Nat \ {0} : pow2(l + 1) = 2 * (k * FRAGMENT_SIZE_MIN)
      BY <2>2, <1>2, <1>4, PowDivides, SizesAssumption DEF Bins, FRAGMENT_SIZE_MIN
    <3>2. k \in Nat \ {0} /\ 2 * (k * FRAGMENT_SIZE_MIN) = (k + k) * FRAGMENT_SIZE_MIN
      BY Sizes, MultDiff
    <3> QED BY <3>1, <3>2 DEF Whole
  <2> QED BY <2>1, <2>2, <1>2, <1>5, SizesAssumption DEF Bins
<1>7. pow2(l + 1) <= pow2(SIZE_BITS - 1)
  BY <1>2, <1>4, PowMono, SizesAssumption DEF Bins
<1> QED BY <1>1, <1>2, <1>3, <1>6, <1>7, Sizes, PowMono, SizesAssumption
        DEF FRAGMENT_SIZE_MAX, Bins

(* Fetching with the logarithm rounded up and storing with it rounded down: *)
(* whatever is in a suitable bin is large enough.                           *)
LEMMA SuitableFits ==
  ASSUME NEW want, Whole(want), want <= FRAGMENT_SIZE_MAX,
         NEW size, Whole(size), size <= Capacity,
         BinIndex(size) >= log2Ceil(Units(want))
  PROVE  want <= size
<1> DEFINE u == Units(want)
           c == log2Ceil(u)
<1>1. /\ u \in Nat \ {0} /\ u <= want /\ want = u * FRAGMENT_SIZE_MIN
      /\ u < pow2(SIZE_BITS)
  BY UnitsOfWhole, Sizes
<1>2. /\ Units(size) \in Nat \ {0} /\ size = Units(size) * FRAGMENT_SIZE_MIN
      /\ BinIndex(size) \in Bins /\ pow2(BinIndex(size)) <= Units(size)
  BY UnitsOfWhole, BinOfWhole
<1>3. c \in 0 .. SIZE_BITS /\ u <= pow2(c)
  <2>1. CASE u <= 1
    BY <2>1, <1>1, Pow2Laws, SizesAssumption DEF log2Ceil
  <2>2. CASE u > 1
    <3>1. log2Floor(u - 1) \in Bins /\ u - 1 < pow2(log2Floor(u - 1) + 1)
      BY <2>2, <1>1, Log, Sizes
    <3> QED BY <3>1, <2>2, <1>1, PowMono, SizesAssumption DEF log2Ceil, Bins
  <2> QED BY <2>1, <2>2, <1>1
<1>4. pow2(c) <= pow2(BinIndex(size))
  BY <1>2, <1>3, PowMono, SizesAssumption DEF Bins
<1>5. u <= Units(size)
  BY <1>1, <1>2, <1>3, <1>4, PowMono, SizesAssumption DEF Bins
<1>6. u * FRAGMENT_SIZE_MIN <= Units(size) * FRAGMENT_SIZE_MIN
  BY <1>1, <1>2, <1>5, Sizes, MultMono
<1> QED BY <1>1, <1>2, <1>6

(* Powers multiply as exponents add.                                        *)
LEMMA PowSum ==
  ASSUME NEW a \in Nat, NEW b \in Nat, a + b <= SIZE_BITS
  PROVE  pow2(a + b) = pow2(b) * pow2(a)
<1> DEFINE T == {n \in Nat : a + n <= SIZE_BITS /\ pow2(a + n) # pow2(n) * pow2(a)}
<1>1. SUFFICES ASSUME T # {} PROVE FALSE
  OBVIOUS
<1>2. PICK n \in T : \A m \in T : n <= m
  BY <1>1, NatMin
<1>3. pow2(a) \in Nat /\ pow2(n) \in Nat
  BY <1>2, PowNat, SizesAssumption
<1>4. n # 0
  BY <1>2, <1>3, Pow2Laws
<1>5. /\ n - 1 \in 0 .. SIZE_BITS /\ a + (n - 1) \in 0 .. SIZE_BITS /\ n - 1 \notin T
      /\ (n - 1) + 1 = n /\ (a + (n - 1)) + 1 = a + n
  BY <1>2, <1>4, SizesAssumption
<1>6. /\ pow2(a + (n - 1)) = pow2(n - 1) * pow2(a)
      /\ pow2(a + n) = 2 * pow2(a + (n - 1)) /\ pow2(n) = 2 * pow2(n - 1)
      /\ pow2(n - 1) \in Nat
  BY <1>5, Pow2Laws, PowNat, SizesAssumption
<1>7. 2 * (pow2(n - 1) * pow2(a)) = (2 * pow2(n - 1)) * pow2(a)
  BY <1>3, <1>6
<1> QED BY <1>2, <1>6, <1>7

(* The logarithm is the only one between two powers.                        *)
LEMMA LogBounds ==
  ASSUME NEW x \in 1 .. pow2(SIZE_BITS) - 1, NEW i \in Bins
  PROVE  /\ pow2(i) <= x => i <= log2Floor(x)
         /\ x < pow2(i) => log2Floor(x) < i
<1> DEFINE l == log2Floor(x)
<1>1. l \in Bins /\ pow2(l) <= x /\ x < pow2(l + 1) /\ x \in Nat
  BY Log, Sizes
<1> HIDE DEF l
<1>2. /\ i \in 0 .. SIZE_BITS /\ l \in 0 .. SIZE_BITS /\ l + 1 \in 0 .. SIZE_BITS
  BY <1>1, SizesAssumption DEF Bins
<1>3. pow2(i) \in Nat /\ pow2(l) \in Nat /\ pow2(l + 1) \in Nat
  BY <1>2, PowMono
<1>4. ASSUME pow2(i) <= x, ~(i <= l) PROVE FALSE
  <2>1. pow2(l + 1) <= pow2(i)
    BY <1>2, <1>4, PowMono
  <2> QED BY <2>1, <1>1, <1>3, <1>4
<1>5. ASSUME x < pow2(i), ~(l < i) PROVE FALSE
  <2>1. pow2(i) <= pow2(l)
    BY <1>2, <1>5, PowMono
  <2> QED BY <2>1, <1>1, <1>3, <1>5
<1> QED BY <1>4, <1>5 DEF l

(* The size cut for an amount is a power of two of smallest fragments.      *)
LEMMA FragmentSizePower ==
  ASSUME NEW amount \in Nat, amount > 0, amount <= Capacity - O1HEAP_ALIGNMENT
  PROVE  \E m \in Bins : Units(FragmentSize(amount)) = pow2(m)
<1> DEFINE x == amount + O1HEAP_ALIGNMENT
           l == log2Floor(x - 1)
           want == FragmentSize(amount)
<1>1. Whole(want) /\ want = pow2(l + 1)
  BY FragmentSizeFact DEF FragmentSize, roundUpToPowerOf2
<1>2. l \in Bins
  <2>1. x - 1 \in 1 .. pow2(SIZE_BITS) - 1
    BY Sizes, CapacityFact
  <2> QED BY <2>1, Log
<1> HIDE DEF l, want
<1>3. want >= FRAGMENT_SIZE_MIN
  BY <1>1, UnitsOfWhole
<1>4. /\ l + 1 \in 0 .. SIZE_BITS /\ ALIGN_LOG + 1 \in 0 .. SIZE_BITS
      /\ ALIGN_LOG \in Nat /\ SIZE_BITS \in Nat
  BY <1>2, SizesAssumption DEF Bins
<1>5. ALIGN_LOG + 1 <= l + 1
  <2>1. SUFFICES ASSUME l + 1 < ALIGN_LOG + 1 PROVE FALSE
    BY <1>4
  <2>2. 2 * pow2(l + 1) <= pow2(ALIGN_LOG + 1) /\ pow2(l + 1) \in Nat \ {0}
    BY <2>1, <1>4, PowMono
  <2> QED BY <2>2, <1>1, <1>3, Sizes DEF FRAGMENT_SIZE_MIN
<1> DEFINE m == l - ALIGN_LOG
<1>6. m \in Bins /\ (ALIGN_LOG + 1) + m = l + 1
  BY <1>2, <1>4, <1>5 DEF Bins
<1>7. pow2(l + 1) = pow2(m) * FRAGMENT_SIZE_MIN /\ pow2(m) \in Nat
  <2>1. m \in Nat /\ ALIGN_LOG + 1 \in Nat /\ (ALIGN_LOG + 1) + m <= SIZE_BITS
    BY <1>4, <1>6 DEF Bins
  <2>2. pow2((ALIGN_LOG + 1) + m) = pow2(m) * pow2(ALIGN_LOG + 1)
    BY <2>1, PowSum
  <2>3. pow2(m) \in Nat
    BY <2>1, PowNat, SizesAssumption
  <2> QED BY <2>2, <2>3, <1>6 DEF FRAGMENT_SIZE_MIN
<1> HIDE DEF m
<1>8. Units(want) = pow2(m)
  BY <1>1, <1>7, DivMult, Sizes DEF Units
<1> QED BY <1>6, <1>8 DEF want

(* The converse of SuitableFits: what is large enough is in a bin that is   *)
(* searched, because sizes asked for are powers of two.                     *)
LEMMA FitsSuitable ==
  ASSUME NEW amount \in Nat, amount > 0, amount <= Capacity - O1HEAP_ALIGNMENT,
         NEW size, Whole(size), size <= Capacity, FragmentSize(amount) <= size
  PROVE  BinIndex(size) >= log2Ceil(Units(FragmentSize(amount)))
<1> DEFINE want == FragmentSize(amount)
           u == Units(want)
           v == Units(size)
<1>1. Whole(want) /\ want <= size
  BY FragmentSizeFact
<1>2. PICK m \in Bins : u = pow2(m)
  BY FragmentSizePower
<1> HIDE DEF want
<1>3. /\ u \in Nat \ {0} /\ want = u * FRAGMENT_SIZE_MIN
      /\ v \in Nat \ {0} /\ size = v * FRAGMENT_SIZE_MIN /\ v <= size
  BY <1>1, UnitsOfWhole
<1>4. v \in 1 .. pow2(SIZE_BITS) - 1 /\ size \in Nat
  BY <1>3, CapacityFact, Sizes
<1> HIDE DEF u, v
<1>5. u <= v
  <2>1. SUFFICES ASSUME v < u PROVE FALSE
    BY <1>3
  <2>2. u * FRAGMENT_SIZE_MIN > v * FRAGMENT_SIZE_MIN
    <3>1. (u - v) * FRAGMENT_SIZE_MIN >= 1 * FRAGMENT_SIZE_MIN
      BY <2>1, <1>3, MultMono, Sizes
    <3>2. u * FRAGMENT_SIZE_MIN - v * FRAGMENT_SIZE_MIN = (u - v) * FRAGMENT_SIZE_MIN
      BY <1>3, MultDiff, Sizes
    <3> QED BY <3>1, <3>2, <1>3, Sizes
  <2> QED BY <2>2, <1>1, <1>3, <1>4, Sizes
<1>6. m <= log2Floor(v) /\ log2Floor(v) \in Bins
  BY <1>2, <1>4, <1>5, Log, LogBounds
<1>7. log2Ceil(u) <= m /\ log2Ceil(u) \in Int
  <2>1. CASE u <= 1
    BY <2>1 DEF log2Ceil, Bins
  <2>2. CASE u > 1
    <3>1. u - 1 \in 1 .. pow2(SIZE_BITS) - 1 /\ u - 1 < pow2(m)
      BY <2>2, <1>2, <1>3, <1>4, <1>5, Sizes
    <3>2. log2Floor(u - 1) < m /\ log2Floor(u - 1) \in Bins
      BY <3>1, Log, LogBounds
    <3> QED BY <3>2, <2>2, <1>3 DEF log2Ceil, Bins
  <2> QED BY <2>1, <2>2, <1>3
<1>8. log2Floor(v) >= log2Ceil(u)
  BY <1>6, <1>7 DEF Bins
<1> QED BY <1>8 DEF BinIndex, u, v, want
-----------------------------------------------------------------------------
(* Heaps whose fields have their types, links in any state.                 *)
RawFragment == [size : Int, used : BOOLEAN, next : Int, prev : Int,
                next_free : Link0, prev_free : Link0]

Raw(h) ==
  /\ DOMAIN h = {"fragments", "bins", "nonempty_bin_mask", "diagnostics"}
  /\ DOMAIN h.fragments \subseteq Address
  /\ \A f \in DOMAIN h.fragments : h.fragments[f] \in RawFragment
  /\ h.bins \in [Bins -> Link0]
  /\ h.nonempty_bin_mask \subseteq Bins

(* Each member of S has a bin.                                              *)
Binnable(h, S) ==
  S \subseteq DOMAIN h.fragments /\ \A f \in S : BinIndex(Size(h, f)) \in Bins

(* k differs from h in bins and free links only.                            *)
SameChain(h, k) ==
  /\ DOMAIN k.fragments = DOMAIN h.fragments
  /\ \A f \in DOMAIN h.fragments :
       /\ k.fragments[f].size = h.fragments[f].size
       /\ k.fragments[f].used = h.fragments[f].used
       /\ k.fragments[f].next = h.fragments[f].next
       /\ k.fragments[f].prev = h.fragments[f].prev
  /\ k.diagnostics = h.diagnostics

(* k has the bins of h, and the members of S kept their size and free links.*)
SameBins(h, k, S) ==
  /\ S \subseteq DOMAIN k.fragments
  /\ k.bins = h.bins /\ k.nonempty_bin_mask = h.nonempty_bin_mask
  /\ \A f \in S : /\ k.fragments[f].size = h.fragments[f].size
                  /\ k.fragments[f].next_free = h.fragments[f].next_free
                  /\ k.fragments[f].prev_free = h.fragments[f].prev_free

LEMMA ListedSame ==
  ASSUME NEW h, NEW k, NEW S, Listed(h, S), Binnable(h, S), SameBins(h, k, S)
  PROVE  Listed(k, S) /\ Binnable(k, S)
BY DEF Listed, Binnable, SameBins, Size

LEMMA FreeLinks ==
  ASSUME NEW e \in RawFragment, NEW a \in Link0, NEW b \in Link0
  PROVE  LET r == [e EXCEPT !.next_free = a, !.prev_free = b]
         IN /\ r \in RawFragment /\ r.next_free = a /\ r.prev_free = b
            /\ r.size = e.size /\ r.used = e.used /\ r.next = e.next
            /\ r.prev = e.prev
BY DEF RawFragment

LEMMA BypassFact ==
  ASSUME NEW frags, \A x \in DOMAIN frags : frags[x] \in RawFragment,
         NEW p \in Link0, NEW n \in Link0, NEW g \in DOMAIN frags
  PROVE  LET r == Bypass(frags, p, n)[g] e == frags[g]
         IN /\ r \in RawFragment
            /\ r.next_free = IF g = p THEN n ELSE e.next_free
            /\ r.prev_free = IF g = n THEN p ELSE e.prev_free
            /\ r.size = e.size /\ r.used = e.used /\ r.next = e.next
            /\ r.prev = e.prev
<1> DEFINE a == IF g = p THEN n ELSE frags[g].next_free
           b == IF g = n THEN p ELSE frags[g].prev_free
<1>1. Bypass(frags, p, n)[g] = [frags[g] EXCEPT !.next_free = a, !.prev_free = b]
  BY DEF Bypass
<1>2. a \in Link0 /\ b \in Link0 /\ frags[g] \in RawFragment
  BY DEF RawFragment
<1> HIDE DEF a, b
<1>3. LET r == Bypass(frags, p, n)[g] e == frags[g]
         IN /\ r \in RawFragment /\ r.next_free = a /\ r.prev_free = b
            /\ r.size = e.size /\ r.used = e.used /\ r.next = e.next
            /\ r.prev = e.prev
  BY <1>1, <1>2 DEF RawFragment
<1> QED BY <1>3 DEF a, b

LEMMA PushFrontFact ==
  ASSUME NEW frags, \A x \in DOMAIN frags : frags[x] \in RawFragment,
         NEW f \in Link0, NEW head \in Link0, NEW g \in DOMAIN frags
  PROVE  LET r == PushFront(frags, f, head)[g] e == frags[g]
         IN /\ r \in RawFragment
            /\ r.next_free = IF g = f THEN head ELSE e.next_free
            /\ r.prev_free = IF g = f THEN NULL ELSE IF g = head THEN f ELSE e.prev_free
            /\ r.size = e.size /\ r.used = e.used /\ r.next = e.next
            /\ r.prev = e.prev
<1> DEFINE a == IF g = f THEN head ELSE frags[g].next_free
           b == IF g = f THEN NULL ELSE IF g = head THEN f ELSE frags[g].prev_free
<1>1. PushFront(frags, f, head)[g] = [frags[g] EXCEPT !.next_free = a, !.prev_free = b]
  BY DEF PushFront
<1>2. a \in Link0 /\ b \in Link0 /\ frags[g] \in RawFragment
  BY DEF RawFragment, NULL, Link0
<1> HIDE DEF a, b
<1>3. LET r == PushFront(frags, f, head)[g] e == frags[g]
         IN /\ r \in RawFragment /\ r.next_free = a /\ r.prev_free = b
            /\ r.size = e.size /\ r.used = e.used /\ r.next = e.next
            /\ r.prev = e.prev
  BY <1>1, <1>2 DEF RawFragment
<1> QED BY <1>3 DEF a, b

LEMMA UnbinRaw ==
  ASSUME NEW h, Raw(h), NEW f \in DOMAIN h.fragments, BinIndex(Size(h, f)) \in Bins
  PROVE  Raw(unbin(h, f)) /\ SameChain(h, unbin(h, f))
<1> DEFINE k == unbin(h, f)
           frag == h.fragments[f]
           idx == BinIndex(frag.size)
<1>1. /\ k.fragments = Bypass(h.fragments, frag.prev_free, frag.next_free)
      /\ k.bins = [h.bins EXCEPT ![idx] = IF @ = f THEN frag.next_free ELSE @]
      /\ k.nonempty_bin_mask = IF h.bins[idx] = f /\ frag.next_free = NULL
                               THEN h.nonempty_bin_mask \ {idx}
                               ELSE h.nonempty_bin_mask
      /\ k.diagnostics = h.diagnostics
      /\ DOMAIN k = DOMAIN h
  BY DEF unbin, Raw
<1> HIDE DEF k
<1>2. frag \in RawFragment
  BY DEF Raw
<1>3. DOMAIN k.fragments = DOMAIN h.fragments
  BY <1>1 DEF Bypass
<1>4. ASSUME NEW g \in DOMAIN h.fragments
      PROVE  /\ k.fragments[g] \in RawFragment
             /\ k.fragments[g].size = h.fragments[g].size
             /\ k.fragments[g].used = h.fragments[g].used
             /\ k.fragments[g].next = h.fragments[g].next
             /\ k.fragments[g].prev = h.fragments[g].prev
  <2>1. frag.prev_free \in Link0 /\ frag.next_free \in Link0
    BY <1>2 DEF RawFragment
  <2> QED BY <1>1, <2>1, BypassFact DEF Raw
<1>5. k.bins \in [Bins -> Link0] /\ k.nonempty_bin_mask \subseteq Bins
  BY <1>1, <1>2 DEF Raw, RawFragment
<1>6. Raw(k)
  BY <1>1, <1>3, <1>4, <1>5 DEF Raw
<1>7. SameChain(h, k)
  BY <1>1, <1>3, <1>4, SMTT(40) DEF SameChain
<1> QED BY <1>6, <1>7 DEF k

LEMMA UnbinListed ==
  ASSUME NEW h, Raw(h), NEW S, Listed(h, S), Binnable(h, S), NEW f \in S
  PROVE  Listed(unbin(h, f), S \ {f}) /\ Binnable(unbin(h, f), S \ {f})
<1> DEFINE k == unbin(h, f)
           frag == h.fragments[f]
           n == frag.next_free
           p == frag.prev_free
           idx == BinIndex(frag.size)
<1>0. f \in DOMAIN h.fragments /\ idx \in Bins
  BY DEF Binnable, Size
<1>1. /\ k.fragments = Bypass(h.fragments, p, n)
      /\ k.bins = [h.bins EXCEPT ![idx] = IF @ = f THEN n ELSE @]
      /\ k.nonempty_bin_mask = IF h.bins[idx] = f /\ n = NULL
                               THEN h.nonempty_bin_mask \ {idx}
                               ELSE h.nonempty_bin_mask
  BY DEF unbin, Raw
<1>2. Raw(k) /\ SameChain(h, k)
  BY <1>0, UnbinRaw DEF Size
<1> HIDE DEF k
<1>3. ASSUME NEW g \in DOMAIN h.fragments
      PROVE  /\ k.fragments[g].next_free = IF g = p THEN n ELSE h.fragments[g].next_free
             /\ k.fragments[g].prev_free = IF g = n THEN p ELSE h.fragments[g].prev_free
             /\ k.fragments[g].size = h.fragments[g].size
  <2>1. p \in Link0 /\ n \in Link0
    BY <1>0 DEF Raw, RawFragment
  <2> QED BY <1>1, <2>1, BypassFact DEF Raw
<1>4. \A i \in Bins : k.bins[i] = IF i = idx /\ h.bins[i] = f THEN n ELSE h.bins[i]
  BY <1>1 DEF Raw
<1>5. S \subseteq DOMAIN h.fragments /\ NULL \notin DOMAIN h.fragments
  BY DEF Binnable, Raw, Address, NULL
<1>6. Binnable(k, S \ {f})
  BY <1>2, <1>3, <1>5, SMTT(40) DEF Binnable, SameChain, Size
<1>7. k.nonempty_bin_mask = {i \in Bins : k.bins[i] # NULL}
  BY <1>0, <1>1, <1>4, <1>5 DEF Listed
<1> USE DEF Size
<1>8. ASSUME NEW i \in k.nonempty_bin_mask
      PROVE  /\ k.bins[i] \in S \ {f}
             /\ BinIndex(Size(k, k.bins[i])) = i
             /\ k.fragments[k.bins[i]].prev_free = NULL
  BY <1>0, <1>3, <1>4, <1>5, <1>7, SMTT(40) DEF Listed
<1>9. ASSUME NEW g \in S \ {f}
      PROVE  LET fr == k.fragments[g]
                 same(x) == x \in S \ {f} /\ BinIndex(Size(k, x)) = BinIndex(fr.size)
             IN /\ fr.next_free = NULL
                   \/ /\ same(fr.next_free)
                      /\ k.fragments[fr.next_free].prev_free = g
                /\ \/ fr.prev_free = NULL /\ k.bins[BinIndex(fr.size)] = g
                   \/ /\ same(fr.prev_free)
                      /\ k.fragments[fr.prev_free].next_free = g
  <2> DEFINE hg == h.fragments[g]
             bin(x) == BinIndex(h.fragments[x].size)
  <2>1. /\ g \in S /\ g # f /\ bin(g) \in Bins /\ g \in DOMAIN h.fragments
        /\ k.fragments[g].size = hg.size
    BY <1>3, <1>5 DEF Binnable
  <2>2. /\ \/ n = NULL
           \/ /\ n \in S /\ bin(n) = idx /\ n \in DOMAIN h.fragments
              /\ h.fragments[n].prev_free = f /\ n # NULL
        /\ \/ p = NULL /\ h.bins[idx] = f
           \/ /\ p \in S /\ bin(p) = idx /\ p \in DOMAIN h.fragments
              /\ h.fragments[p].next_free = f /\ p # NULL
    <3>1. \/ n = NULL
          \/ n \in S /\ bin(n) = idx /\ h.fragments[n].prev_free = f
      BY DEF Listed
    <3>2. \/ p = NULL /\ h.bins[idx] = f
          \/ p \in S /\ bin(p) = idx /\ h.fragments[p].next_free = f
      BY DEF Listed
    <3> QED BY <3>1, <3>2, <1>5
  <2>3. /\ hg.next_free = NULL
           \/ /\ hg.next_free \in S /\ bin(hg.next_free) = bin(g)
              /\ hg.next_free \in DOMAIN h.fragments
              /\ h.fragments[hg.next_free].prev_free = g
        /\ \/ hg.prev_free = NULL /\ h.bins[bin(g)] = g
           \/ /\ hg.prev_free \in S /\ bin(hg.prev_free) = bin(g)
              /\ hg.prev_free \in DOMAIN h.fragments
              /\ h.fragments[hg.prev_free].next_free = g
    BY <1>5, <2>1 DEF Listed
  <2>4. p # NULL => h.bins[idx] # f
    <3>1. h.bins[idx] = f => idx \in h.nonempty_bin_mask
      BY <1>0, <1>5 DEF Listed
    <3>2. \A i \in h.nonempty_bin_mask : h.fragments[h.bins[i]].prev_free = NULL
      BY DEF Listed
    <3> QED BY <3>1, <3>2
  <2>5. \A x \in DOMAIN h.fragments : BinIndex(Size(k, x)) = bin(x)
    BY <1>3
  <2>6. \/ k.fragments[g].next_free = NULL
        \/ /\ k.fragments[g].next_free \in S \ {f}
           /\ BinIndex(Size(k, k.fragments[g].next_free)) = bin(g)
           /\ k.fragments[k.fragments[g].next_free].prev_free = g
    BY <1>3, <1>5, <2>1, <2>2, <2>3, <2>5
  <2>7. \/ k.fragments[g].prev_free = NULL /\ k.bins[bin(g)] = g
        \/ /\ k.fragments[g].prev_free \in S \ {f}
           /\ BinIndex(Size(k, k.fragments[g].prev_free)) = bin(g)
           /\ k.fragments[k.fragments[g].prev_free].next_free = g
    BY <1>3, <1>4, <1>5, <2>1, <2>2, <2>3, <2>4, <2>5
  <2> QED BY <2>1, <2>6, <2>7
<1> QED BY <1>6, <1>7, <1>8, <1>9 DEF Listed, k
LEMMA RebinRaw ==
  ASSUME NEW h, Raw(h), NEW f \in DOMAIN h.fragments, BinIndex(Size(h, f)) \in Bins
  PROVE  Raw(rebin(h, f)) /\ SameChain(h, rebin(h, f))
<1> DEFINE k == rebin(h, f)
           idx == BinIndex(h.fragments[f].size)
           head == h.bins[idx]
<1>1. /\ k.fragments = PushFront(h.fragments, f, head)
      /\ k.bins = [h.bins EXCEPT ![idx] = f]
      /\ k.nonempty_bin_mask = h.nonempty_bin_mask \union {idx}
      /\ k.diagnostics = h.diagnostics
      /\ DOMAIN k = DOMAIN h
  BY DEF rebin, Raw
<1> HIDE DEF k
<1>2. head \in Link0 /\ f \in Link0 /\ idx \in Bins
  BY DEF Raw, Address, Size, Link0
<1>3. DOMAIN k.fragments = DOMAIN h.fragments
  BY <1>1 DEF PushFront
<1>4. ASSUME NEW g \in DOMAIN h.fragments
      PROVE  /\ k.fragments[g] \in RawFragment
             /\ k.fragments[g].size = h.fragments[g].size
             /\ k.fragments[g].used = h.fragments[g].used
             /\ k.fragments[g].next = h.fragments[g].next
             /\ k.fragments[g].prev = h.fragments[g].prev
  BY <1>1, <1>2, PushFrontFact DEF Raw
<1>5. k.bins \in [Bins -> Link0] /\ k.nonempty_bin_mask \subseteq Bins
  BY <1>1, <1>2, SMTT(40) DEF Raw
<1>6. Raw(k)
  BY <1>1, <1>3, <1>4, <1>5, SMTT(40) DEF Raw
<1>7. SameChain(h, k)
  BY <1>1, <1>3, <1>4 DEF SameChain
<1> QED BY <1>6, <1>7 DEF k

LEMMA RebinListed ==
  ASSUME NEW h, Raw(h), NEW S, Listed(h, S), Binnable(h, S),
         NEW f \in DOMAIN h.fragments, f \notin S, BinIndex(Size(h, f)) \in Bins
  PROVE  Listed(rebin(h, f), S \union {f}) /\ Binnable(rebin(h, f), S \union {f})
<1> DEFINE k == rebin(h, f)
           idx == BinIndex(h.fragments[f].size)
           head == h.bins[idx]
<1>1. /\ k.fragments = PushFront(h.fragments, f, head)
      /\ k.bins = [h.bins EXCEPT ![idx] = f]
      /\ k.nonempty_bin_mask = h.nonempty_bin_mask \union {idx}
  BY DEF rebin, Raw
<1>2. Raw(k) /\ SameChain(h, k)
  BY RebinRaw
<1> HIDE DEF k
<1>3. head \in Link0 /\ f \in Link0 /\ idx \in Bins
  BY DEF Raw, Address, Size, Link0
<1>4. ASSUME NEW g \in DOMAIN h.fragments
      PROVE  /\ k.fragments[g].next_free = IF g = f THEN head ELSE h.fragments[g].next_free
             /\ k.fragments[g].prev_free = IF g = f THEN NULL ELSE IF g = head THEN f
                                           ELSE h.fragments[g].prev_free
             /\ k.fragments[g].size = h.fragments[g].size
  BY <1>1, <1>3, PushFrontFact DEF Raw
<1>5. \A i \in Bins : k.bins[i] = IF i = idx THEN f ELSE h.bins[i]
  BY <1>1 DEF Raw
<1>6. S \subseteq DOMAIN h.fragments /\ NULL \notin DOMAIN h.fragments /\ f # NULL
  BY DEF Binnable, Raw, Address, NULL
<1>7. Binnable(k, S \union {f})
  BY <1>2, <1>3, <1>4, <1>6 DEF Binnable, SameChain, Size
<1>8. k.nonempty_bin_mask = {i \in Bins : k.bins[i] # NULL}
  BY <1>1, <1>3, <1>5, <1>6 DEF Listed
<1> USE DEF Size
<1>9. ASSUME NEW i \in k.nonempty_bin_mask
      PROVE  /\ k.bins[i] \in S \union {f}
             /\ BinIndex(Size(k, k.bins[i])) = i
             /\ k.fragments[k.bins[i]].prev_free = NULL
  <2>1. CASE i = idx
    BY <2>1, <1>3, <1>4, <1>5
  <2>2. CASE i # idx
    <3>1. /\ i \in h.nonempty_bin_mask /\ i \in Bins /\ k.bins[i] = h.bins[i]
      BY <2>2, <1>1, <1>2, <1>5 DEF Raw
    <3>2. /\ h.bins[i] \in S /\ BinIndex(Size(h, h.bins[i])) = i
          /\ h.fragments[h.bins[i]].prev_free = NULL
      BY <3>1 DEF Listed
    <3>3. head # NULL => BinIndex(Size(h, head)) = idx
      BY <1>3 DEF Listed
    <3>4. h.bins[i] # head
      BY <3>2, <3>3, <2>2, <1>6
    <3> QED BY <3>1, <3>2, <3>4, <1>4, <1>6
  <2> QED BY <2>1, <2>2
<1>10. ASSUME NEW g \in S \union {f}
      PROVE  LET fr == k.fragments[g]
                 same(x) == x \in S \union {f} /\ BinIndex(Size(k, x)) = BinIndex(fr.size)
             IN /\ fr.next_free = NULL
                   \/ /\ same(fr.next_free)
                      /\ k.fragments[fr.next_free].prev_free = g
                /\ \/ fr.prev_free = NULL /\ k.bins[BinIndex(fr.size)] = g
                   \/ /\ same(fr.prev_free)
                      /\ k.fragments[fr.prev_free].next_free = g
  <2> DEFINE hg == h.fragments[g]
             bin(x) == BinIndex(h.fragments[x].size)
  <2>1. /\ bin(g) \in Bins /\ g \in DOMAIN h.fragments
        /\ k.fragments[g].size = hg.size
    BY <1>4, <1>6, <1>3 DEF Binnable
  <2>2. \/ head = NULL
        \/ /\ head \in S /\ bin(head) = idx /\ head \in DOMAIN h.fragments
           /\ h.fragments[head].prev_free = NULL /\ head # NULL
    BY <1>3, <1>6 DEF Listed
  <2>3. \A x \in DOMAIN h.fragments : BinIndex(Size(k, x)) = bin(x)
    BY <1>4, SMTT(40)
  <2>4. CASE g = f
    <3>1. k.fragments[f].next_free = head /\ k.fragments[f].prev_free = NULL
      BY <1>4, SMTT(40)
    <3>2. head # NULL => k.fragments[head].prev_free = f
      BY <1>4, <2>2
    <3> QED BY <3>1, <3>2, <2>1, <2>2, <2>3, <2>4, <1>3, <1>5
  <2>5. CASE g # f
    <3>1. /\ \/ hg.next_free = NULL
             \/ /\ hg.next_free \in S /\ bin(hg.next_free) = bin(g)
                /\ h.fragments[hg.next_free].prev_free = g
          /\ \/ hg.prev_free = NULL /\ h.bins[bin(g)] = g
             \/ /\ hg.prev_free \in S /\ bin(hg.prev_free) = bin(g)
                /\ h.fragments[hg.prev_free].next_free = g
      BY <2>5 DEF Listed
    <3>2. /\ k.fragments[g].next_free = hg.next_free
          /\ k.fragments[g].prev_free = IF g = head THEN f ELSE hg.prev_free
      BY <2>1, <2>5, <1>4, SMTT(40)
    <3>3. \/ hg.next_free = NULL
          \/ /\ hg.next_free \in S /\ BinIndex(Size(k, hg.next_free)) = bin(g)
             /\ k.fragments[hg.next_free].prev_free = g
      <4>1. hg.next_free \in S => hg.next_free # f /\ hg.next_free \in DOMAIN h.fragments
        BY <1>6
      <4>2. hg.next_free = head => hg.next_free = NULL \/ h.fragments[head].prev_free = NULL
        BY <2>2, SMTT(40)
      <4> QED BY <3>1, <4>1, <4>2, <2>1, <2>3, <1>4, <1>6
    <3>4. CASE g = head
      BY <3>2, <3>3, <3>4, <2>1, <2>2, <2>3, <2>5, <1>3, <1>4, <1>5, <1>6, ZenonT(40)
    <3>5. CASE g # head
      <4>1. \/ hg.prev_free = NULL /\ k.bins[bin(g)] = g
            \/ /\ hg.prev_free \in S /\ BinIndex(Size(k, hg.prev_free)) = bin(g)
               /\ k.fragments[hg.prev_free].next_free = g
        BY <3>1, <3>5, <2>1, <2>3, <1>4, <1>5, <1>6
      <4> QED BY <4>1, <3>2, <3>3, <3>5, <2>1
    <3> QED BY <3>4, <3>5
  <2> QED BY <2>4, <2>5
<1> QED BY <1>7, <1>8, <1>9, <1>10 DEF Listed, k
-----------------------------------------------------------------------------
(* The lists have no cycle: a rank falls along prev_free.  A cycle would     *)
(* satisfy Listed without being reached from any bin.                       *)
Ordered(h, S) ==
  \E rank \in [S -> Nat] :
    \A f \in S : \/ h.fragments[f].prev_free = NULL
                 \/ rank[h.fragments[f].prev_free] < rank[f]

InLists(h, S) == Listed(h, S) /\ Ordered(h, S)

LEMMA InListsSame ==
  ASSUME NEW h, NEW k, NEW S, InLists(h, S), Binnable(h, S), SameBins(h, k, S)
  PROVE  InLists(k, S) /\ Binnable(k, S)
<1>1. Listed(k, S) /\ Binnable(k, S)
  BY ListedSame DEF InLists
<1>2. Ordered(k, S)
  BY DEF InLists, Ordered, SameBins
<1> QED BY <1>1, <1>2 DEF InLists

(* What f's right neighbour in the list is put behind ranks below f.        *)
LEMMA UnbinInLists ==
  ASSUME NEW h, Raw(h), NEW S, InLists(h, S), Binnable(h, S), NEW f \in S
  PROVE  InLists(unbin(h, f), S \ {f}) /\ Binnable(unbin(h, f), S \ {f})
<1> DEFINE k == unbin(h, f)
           n == h.fragments[f].next_free
           p == h.fragments[f].prev_free
           prior(g) == h.fragments[g].prev_free
<1>1. Listed(h, S) /\ Listed(k, S \ {f}) /\ Binnable(k, S \ {f})
  BY UnbinListed DEF InLists
<1>2. PICK rank \in [S -> Nat] :
        \A g \in S : prior(g) = NULL \/ rank[prior(g)] < rank[g]
  BY DEF InLists, Ordered
<1>3. f \in DOMAIN h.fragments /\ S \subseteq DOMAIN h.fragments
  BY DEF Binnable
<1>4. n \in Link0 /\ p \in Link0
  BY <1>3 DEF Raw, RawFragment
<1>5. ASSUME NEW g \in S
      PROVE  k.fragments[g].prev_free = IF g = n THEN p ELSE prior(g)
  BY <1>3, <1>4, BypassFact DEF Raw, unbin
<1> HIDE DEF k
<1>6. ASSUME NEW g \in S
      PROVE  /\ prior(g) = NULL \/ prior(g) \in S
             /\ prior(g) = f => n = g
             /\ g = n => prior(g) = f
  <2>1. n # NULL => prior(n) = f
    BY <1>1 DEF Listed
  <2>2. /\ prior(g) = NULL \/ prior(g) \in S
        /\ prior(g) = NULL \/ h.fragments[prior(g)].next_free = g
    BY <1>1 DEF Listed
  <2>3. g # NULL /\ f # NULL
    BY <1>3 DEF Raw, Address, NULL
  <2> QED BY <2>1, <2>2, <2>3
<1>7. \A g \in S : rank[g] \in Nat
  BY <1>2
<1> DEFINE r == [g \in S \ {f} |-> rank[g]]
<1>8. r \in [S \ {f} -> Nat] /\ \A g \in S \ {f} : r[g] = rank[g]
  BY <1>7
<1> HIDE DEF r
<1>9. ASSUME NEW g \in S \ {f}, k.fragments[g].prev_free # NULL
      PROVE  r[k.fragments[g].prev_free] < r[g]
  <2>1. CASE g = n
    <3>1. k.fragments[g].prev_free = p /\ p # NULL /\ p \in S /\ f \in S /\ prior(g) = f
      BY <2>1, <1>5, <1>6, <1>9
    <3>2. f # NULL /\ rank[f] < rank[g] /\ rank[p] < rank[f]
      BY <3>1, <1>2, <1>3 DEF Raw, Address, NULL
    <3>3. p # f
      BY <3>2, <1>7
    <3> QED BY <3>1, <3>2, <3>3, <1>7, <1>8
  <2>2. CASE g # n
    <3>1. k.fragments[g].prev_free = prior(g) /\ prior(g) \in S \ {f}
      BY <2>2, <1>5, <1>6, <1>9
    <3> QED BY <3>1, <1>2, <1>8, <1>9
  <2> QED BY <2>1, <2>2
<1>10. Ordered(k, S \ {f})
  BY <1>8, <1>9 DEF Ordered
<1> QED BY <1>1, <1>10 DEF InLists, k

(* The new head ranks below all others.                                     *)
LEMMA RebinInLists ==
  ASSUME NEW h, Raw(h), NEW S, InLists(h, S), Binnable(h, S),
         NEW f \in DOMAIN h.fragments, f \notin S, BinIndex(Size(h, f)) \in Bins
  PROVE  /\ InLists(rebin(h, f), S \union {f})
         /\ Binnable(rebin(h, f), S \union {f})
<1> DEFINE k == rebin(h, f)
           head == h.bins[BinIndex(h.fragments[f].size)]
           prior(g) == h.fragments[g].prev_free
<1>1. /\ Listed(h, S) /\ Listed(k, S \union {f}) /\ Binnable(k, S \union {f})
  BY RebinListed DEF InLists
<1>2. PICK rank \in [S -> Nat] :
        \A g \in S : prior(g) = NULL \/ rank[prior(g)] < rank[g]
  BY DEF InLists, Ordered
<1>3. S \subseteq DOMAIN h.fragments /\ head \in Link0 /\ f \in Link0
  BY DEF Binnable, Raw, Address, Link0, Size
<1>4. ASSUME NEW g \in S \union {f}
      PROVE  k.fragments[g].prev_free = IF g = f THEN NULL
                                        ELSE IF g = head THEN f ELSE prior(g)
  BY <1>3, PushFrontFact DEF Raw, rebin
<1> HIDE DEF k
<1>5. \A g \in S : prior(g) = NULL \/ prior(g) \in S
  BY <1>1 DEF Listed
<1>6. \A g \in S : rank[g] \in Nat
  BY <1>2
<1> DEFINE r == [g \in S \union {f} |-> IF g = f THEN 0 ELSE rank[g] + 1]
<1>7. /\ r \in [S \union {f} -> Nat] /\ r[f] = 0
      /\ \A g \in S : r[g] = rank[g] + 1
  BY <1>6
<1> HIDE DEF r
<1>8. ASSUME NEW g \in S \union {f}, k.fragments[g].prev_free # NULL
      PROVE  r[k.fragments[g].prev_free] < r[g]
  <2>1. g \in S /\ k.fragments[g].prev_free = IF g = head THEN f ELSE prior(g)
    BY <1>4, <1>8
  <2>2. CASE g = head
    BY <2>1, <2>2, <1>6, <1>7
  <2>3. CASE g # head
    <3>1. prior(g) \in S /\ rank[prior(g)] < rank[g]
      BY <2>1, <2>3, <1>2, <1>5, <1>8
    <3> QED BY <3>1, <2>1, <2>3, <1>6, <1>7
  <2> QED BY <2>2, <2>3
<1>9. Ordered(k, S \union {f})
  BY <1>7, <1>8 DEF Ordered
<1> QED BY <1>1, <1>9 DEF InLists, k

(* So the bin of a fragment that is listed is not empty: of the fragments   *)
(* in it the one of lowest rank is its head.                                *)
LEMMA BinTaken ==
  ASSUME NEW h, Raw(h), NEW S, InLists(h, S), Binnable(h, S), NEW f \in S
  PROVE  BinIndex(Size(h, f)) \in h.nonempty_bin_mask
<1> DEFINE bin(g) == BinIndex(Size(h, g))
           prior(g) == h.fragments[g].prev_free
<1>1. Listed(h, S) /\ bin(f) \in Bins /\ S \subseteq DOMAIN h.fragments
  BY DEF InLists, Binnable
<1>2. PICK rank \in [S -> Nat] :
        \A g \in S : prior(g) = NULL \/ rank[prior(g)] < rank[g]
  BY DEF InLists, Ordered
<1> DEFINE T == {rank[g] : g \in {x \in S : bin(x) = bin(f)}}
<1>3. T \subseteq Nat /\ T # {}
  BY <1>2
<1>4. PICK m \in T : \A x \in T : m <= x
  BY <1>3, NatMin
<1>5. PICK g \in S : bin(g) = bin(f) /\ rank[g] = m
  BY <1>4
<1>6. \/ prior(g) = NULL /\ h.bins[bin(g)] = g
      \/ prior(g) \in S /\ bin(prior(g)) = bin(g)
  BY <1>1, <1>5 DEF Listed, Size
<1>7. CASE prior(g) # NULL
  <2>1. prior(g) \in S /\ bin(prior(g)) = bin(f)
    BY <1>5, <1>6, <1>7
  <2>2. rank[prior(g)] < rank[g] /\ rank[prior(g)] \in Nat /\ rank[g] \in Nat
    BY <2>1, <1>2, <1>5, <1>7
  <2>3. rank[prior(g)] \in T
    BY <2>1
  <2> HIDE DEF T, bin, prior
  <2> QED BY <2>2, <2>3, <1>4, <1>5
<1>8. CASE prior(g) = NULL
  <2>1. h.bins[bin(f)] = g \/ NULL \in S
    BY <1>5, <1>6, <1>8
  <2>2. NULL \notin S /\ g # NULL
    BY <1>1, <1>5 DEF Raw, Address, NULL
  <2>3. h.nonempty_bin_mask = {i \in Bins : h.bins[i] # NULL}
    BY <1>1 DEF Listed
  <2> HIDE DEF bin
  <2>4. bin(f) \in h.nonempty_bin_mask
    BY <2>1, <2>2, <2>3, <1>1
  <2> QED BY <2>4 DEF bin
<1> QED BY <1>7, <1>8
-----------------------------------------------------------------------------
(* The fragments by address.                                                *)
Chain(h) ==
  /\ 0 \in DOMAIN h.fragments
  /\ Neighbours(h)
  /\ Disjoint(h)
  /\ \A f \in DOMAIN h.fragments : Whole(Size(h, f))

LEMMA ChainSame ==
  ASSUME NEW h, NEW k, Chain(h), SameChain(h, k)
  PROVE  Chain(k)
<1>1. Neighbours(k)
  BY SMTT(40) DEF Chain, SameChain, Neighbours
<1>2. Disjoint(k)
  BY DEF Chain, SameChain, Disjoint, Size
<1> QED BY <1>1, <1>2 DEF Chain, SameChain, Size

(* Every fragment of a chain has a bin, and ends inside the arena.          *)
LEMMA ChainBins ==
  ASSUME NEW h, Raw(h), Chain(h), NEW f \in DOMAIN h.fragments
  PROVE  /\ Size(h, f) \in Nat \ {0} /\ f + Size(h, f) <= Capacity
         /\ BinIndex(Size(h, f)) \in Bins
         /\ f \in Nat /\ f # NULL
<1>1. Whole(Size(h, f)) /\ Size(h, f) \in Nat \ {0} /\ f \in Nat
  BY UnitsOfWhole DEF Chain, Raw, Address
<1>2. f + Size(h, f) <= Capacity
  BY <1>1, CapacityFact DEF Chain, Neighbours, Raw, Address, Size
<1> QED BY <1>1, <1>2, BinOfWhole, CapacityFact DEF NULL

(* k is h with fragment r merged into l, its left neighbour.                *)
Merged(h, k, l, r) ==
  /\ DOMAIN k = DOMAIN h
  /\ DOMAIN k.fragments = DOMAIN h.fragments \ {r}
  /\ k.bins = h.bins /\ k.nonempty_bin_mask = h.nonempty_bin_mask
  /\ k.diagnostics = h.diagnostics
  /\ \A g \in DOMAIN k.fragments :
       /\ k.fragments[g] \in RawFragment
       /\ Size(k, g) = IF g = l THEN Size(h, l) + Size(h, r) ELSE Size(h, g)
       /\ k.fragments[g].used = h.fragments[g].used
       /\ k.fragments[g].next = IF g = l THEN h.fragments[r].next
                                ELSE h.fragments[g].next
       /\ k.fragments[g].prev = IF g = h.fragments[r].next THEN l
                                ELSE h.fragments[g].prev
       /\ k.fragments[g].next_free = h.fragments[g].next_free
       /\ k.fragments[g].prev_free = h.fragments[g].prev_free

LEMMA JoinFact ==
  ASSUME NEW h, Raw(h), NEW l \in DOMAIN h.fragments, NEW r \in DOMAIN h.fragments,
         l # r, h.fragments[r].next # r
  PROVE  Merged(h, Join(h, l, r), l, r)
<1> DEFINE k == Join(h, l, r)
           both == h.fragments[l].size + h.fragments[r].size
           n == h.fragments[r].next
           h1 == Resize(h, l, both)
           h2 == Drop(h1, r)
<1>1. /\ DOMAIN h1 = DOMAIN h /\ h1.bins = h.bins
      /\ h1.nonempty_bin_mask = h.nonempty_bin_mask /\ h1.diagnostics = h.diagnostics
      /\ h1.fragments = [h.fragments EXCEPT ![l] = [@ EXCEPT !.size = both]]
  BY DEF Resize, Raw
<1>2. /\ DOMAIN h2 = DOMAIN h /\ h2.bins = h.bins
      /\ h2.nonempty_bin_mask = h.nonempty_bin_mask /\ h2.diagnostics = h.diagnostics
      /\ h2.fragments = [g \in DOMAIN h.fragments \ {r} |-> h1.fragments[g]]
  BY <1>1 DEF Drop, Raw
<1>3. k = Link(h2, l, n)
  BY DEF Join
<1> HIDE DEF h1, h2
<1>4. /\ DOMAIN k = DOMAIN h /\ k.bins = h.bins
      /\ k.nonempty_bin_mask = h.nonempty_bin_mask /\ k.diagnostics = h.diagnostics
      /\ k.fragments = interlink(h2.fragments, l, n)
  BY <1>2, <1>3 DEF Link, Raw
<1> HIDE DEF k
<1>5. DOMAIN k.fragments = DOMAIN h.fragments \ {r}
  BY <1>2, <1>4 DEF interlink
<1>6. ASSUME NEW g \in DOMAIN k.fragments
      PROVE  /\ k.fragments[g] \in RawFragment
             /\ Size(k, g) = IF g = l THEN Size(h, l) + Size(h, r) ELSE Size(h, g)
             /\ k.fragments[g].used = h.fragments[g].used
             /\ k.fragments[g].next = IF g = l THEN n ELSE h.fragments[g].next
             /\ k.fragments[g].prev = IF g = n THEN l ELSE h.fragments[g].prev
             /\ k.fragments[g].next_free = h.fragments[g].next_free
             /\ k.fragments[g].prev_free = h.fragments[g].prev_free
  <2>1. /\ h.fragments[g] \in RawFragment /\ h.fragments[l] \in RawFragment
        /\ h.fragments[r] \in RawFragment /\ g \in DOMAIN h.fragments /\ g # r
        /\ l \in Int
    BY <1>5 DEF Raw, Address
  <2>2. both \in Int /\ n \in Int
    BY <2>1 DEF RawFragment
  <2> DEFINE e == h2.fragments[g]
  <2>3. e = IF g = l THEN [h.fragments[l] EXCEPT !.size = both] ELSE h.fragments[g]
    BY <2>1, <1>1, <1>2
  <2>4. k.fragments[g] = [e EXCEPT !.next = IF g = l THEN n ELSE @,
                                   !.prev = IF g = n THEN l ELSE @]
    BY <1>2, <1>4, <1>5 DEF interlink
  <2> HIDE DEF e, both, n
  <2>5. /\ e \in RawFragment
        /\ e.size = IF g = l THEN both ELSE h.fragments[g].size
        /\ e.used = h.fragments[g].used /\ e.next = h.fragments[g].next
        /\ e.prev = h.fragments[g].prev
        /\ e.next_free = h.fragments[g].next_free
        /\ e.prev_free = h.fragments[g].prev_free
    BY <2>1, <2>2, <2>3 DEF RawFragment
  <2>6. /\ k.fragments[g] \in RawFragment
        /\ k.fragments[g].size = e.size
        /\ k.fragments[g].used = e.used
        /\ k.fragments[g].next = IF g = l THEN n ELSE e.next
        /\ k.fragments[g].prev = IF g = n THEN l ELSE e.prev
        /\ k.fragments[g].next_free = e.next_free
        /\ k.fragments[g].prev_free = e.prev_free
    BY <2>1, <2>2, <2>4, <2>5 DEF RawFragment
  <2> QED BY <2>5, <2>6 DEF Size, both
<1> QED BY <1>4, <1>5, <1>6 DEF k, Merged

LEMMA JoinChain ==
  ASSUME NEW h, Raw(h), Chain(h), NEW l \in DOMAIN h.fragments,
         NEW r \in DOMAIN h.fragments, h.fragments[l].next = r
  PROVE  LET k == Join(h, l, r) IN
         Raw(k) /\ Chain(k) /\ l < r /\ h.fragments[r].next # r
<1> DEFINE k == Join(h, l, r)
           n == h.fragments[r].next
<1>1. /\ l \in Nat /\ r \in Nat /\ Size(h, l) \in Nat \ {0} /\ Size(h, r) \in Nat \ {0}
      /\ l # NULL /\ r # NULL
  BY ChainBins
<1>2. /\ r = l + Size(h, l)
      /\ \/ n = NULL /\ r + Size(h, r) = Capacity
         \/ /\ n \in DOMAIN h.fragments /\ n = r + Size(h, r)
            /\ h.fragments[n].prev = r
  BY <1>1 DEF Chain, Neighbours, Size
<1>3. l < r /\ n # r
  BY <1>1, <1>2
<1>4. /\ DOMAIN k = DOMAIN h
      /\ DOMAIN k.fragments = DOMAIN h.fragments \ {r}
      /\ k.bins = h.bins /\ k.nonempty_bin_mask = h.nonempty_bin_mask
      /\ \A g \in DOMAIN k.fragments :
           /\ k.fragments[g] \in RawFragment
           /\ Size(k, g) = IF g = l THEN Size(h, l) + Size(h, r) ELSE Size(h, g)
           /\ k.fragments[g].next = IF g = l THEN n ELSE h.fragments[g].next
           /\ k.fragments[g].prev = IF g = n THEN l ELSE h.fragments[g].prev
  BY <1>3, JoinFact DEF Merged
<1> HIDE DEF k
<1>5. Raw(k)
  BY <1>4 DEF Raw
<1>6. \A g \in DOMAIN h.fragments : g \in Nat /\ g # NULL /\ Size(h, g) \in Nat \ {0}
  BY ChainBins
<1>7. Disjoint(k)
  <2>1. SUFFICES ASSUME NEW f \in DOMAIN k.fragments, NEW g \in DOMAIN k.fragments, f < g
                 PROVE  f + Size(k, f) <= g
    BY DEF Disjoint
  <2>2. f + Size(h, f) <= g /\ g # r
    BY <2>1, <1>4 DEF Chain, Disjoint
  <2>3. CASE f = l
    <3>1. r < g
      BY <2>2, <2>3, <1>1, <1>2, <1>4, <1>6
    <3>2. r + Size(h, r) <= g
      BY <3>1, <1>4 DEF Chain, Disjoint
    <3> QED BY <3>2, <2>3, <1>1, <1>2, <1>4
  <2> QED BY <2>2, <2>3, <1>4
<1>8. Neighbours(k)
  <2>1. SUFFICES ASSUME NEW f \in DOMAIN k.fragments
        PROVE /\ \/ k.fragments[f].next = NULL /\ f + Size(k, f) = Capacity
                 \/ /\ k.fragments[f].next \in DOMAIN k.fragments
                    /\ k.fragments[f].next = f + Size(k, f)
                    /\ k.fragments[k.fragments[f].next].prev = f
              /\ \/ k.fragments[f].prev = NULL /\ f = 0
                 \/ /\ k.fragments[f].prev \in DOMAIN k.fragments
                    /\ k.fragments[k.fragments[f].prev].next = f
    BY DEF Neighbours, Size
  <2>2. f \in DOMAIN h.fragments /\ f # r
    BY <1>4
  <2> DEFINE hn == h.fragments[f].next
             hp == h.fragments[f].prev
  <2>3. /\ \/ hn = NULL /\ f + Size(h, f) = Capacity
           \/ /\ hn \in DOMAIN h.fragments /\ hn = f + Size(h, f)
              /\ h.fragments[hn].prev = f
        /\ \/ hp = NULL /\ f = 0
           \/ hp \in DOMAIN h.fragments /\ h.fragments[hp].next = f
    BY <2>2 DEF Chain, Neighbours, Size
  <2>4. h.fragments[r].prev = l
    BY <1>1 DEF Chain, Neighbours
  <2>5. \/ k.fragments[f].next = NULL /\ f + Size(k, f) = Capacity
        \/ /\ k.fragments[f].next \in DOMAIN k.fragments
           /\ k.fragments[f].next = f + Size(k, f)
           /\ k.fragments[k.fragments[f].next].prev = f
    <3>1. CASE f = l
      BY <3>1, <1>1, <1>2, <1>3, <1>4
    <3>2. CASE f # l
      <4>1. hn # r
        BY <3>2, <2>3, <2>4, <1>1
      <4>2. hn \in DOMAIN h.fragments => hn # n
        BY <2>2, <2>3, <1>2, <1>6
      <4> QED BY <3>2, <4>1, <4>2, <2>2, <2>3, <1>4
    <3> QED BY <3>1, <3>2
  <2>6. \/ k.fragments[f].prev = NULL /\ f = 0
        \/ /\ k.fragments[f].prev \in DOMAIN k.fragments
           /\ k.fragments[k.fragments[f].prev].next = f
    <3>1. CASE f = n
      BY <3>1, <1>3, <1>4
    <3>2. CASE f # n
      <4>1. hp # r
        BY <3>2, <2>3, <1>1
      <4>2. hp # l
        BY <2>2, <2>3, <1>1
      <4> QED BY <3>2, <4>1, <4>2, <2>2, <2>3, <1>4
    <3> QED BY <3>1, <3>2
  <2> QED BY <2>5, <2>6
<1>9. ASSUME NEW f \in DOMAIN k.fragments PROVE Whole(Size(k, f))
  <2>1. CASE f = l
    <3>1. PICK a \in Nat \ {0} : Size(h, l) = a * FRAGMENT_SIZE_MIN
      BY DEF Chain, Whole
    <3>2. PICK b \in Nat \ {0} : Size(h, r) = b * FRAGMENT_SIZE_MIN
      BY DEF Chain, Whole
    <3>3. a * FRAGMENT_SIZE_MIN + b * FRAGMENT_SIZE_MIN = (a + b) * FRAGMENT_SIZE_MIN
      BY MultDiff, Sizes
    <3>4. Size(k, f) = (a + b) * FRAGMENT_SIZE_MIN /\ a + b \in Nat \ {0}
      BY <2>1, <3>1, <3>2, <3>3, <1>4
    <3> QED BY <3>4 DEF Whole
  <2>2. CASE f # l
    BY <2>2, <1>4 DEF Chain
  <2> QED BY <2>1, <2>2
<1>10. 0 \in DOMAIN k.fragments
  BY <1>1, <1>3, <1>4 DEF Chain
<1> QED BY <1>3, <1>5, <1>7, <1>8, <1>9, <1>10 DEF Chain, k
(* The fragments after a split, before the new one is binned.               *)
Halves(h, f, size) ==
  LET new == f + size
      cut == Put(Resize(h, f, size), new, h.fragments[f].size - size)
  IN Link(Link(cut, new, h.fragments[f].next), f, new)

(* k is h with fragment f cut down to size.                                 *)
CutDown(h, k, f, size) ==
  LET new == f + size
      right == h.fragments[f].next
  IN /\ DOMAIN k = DOMAIN h
     /\ DOMAIN k.fragments = DOMAIN h.fragments \union {new}
     /\ k.bins = h.bins /\ k.nonempty_bin_mask = h.nonempty_bin_mask
     /\ k.diagnostics = h.diagnostics
     /\ \A g \in DOMAIN h.fragments :
          /\ k.fragments[g] \in RawFragment
          /\ Size(k, g) = IF g = f THEN size ELSE Size(h, g)
          /\ k.fragments[g].used = h.fragments[g].used
          /\ k.fragments[g].next = IF g = f THEN new ELSE h.fragments[g].next
          /\ k.fragments[g].prev = IF g = right THEN new ELSE h.fragments[g].prev
          /\ k.fragments[g].next_free = h.fragments[g].next_free
          /\ k.fragments[g].prev_free = h.fragments[g].prev_free
     /\ k.fragments[new] \in RawFragment
     /\ Size(k, new) = Size(h, f) - size
     /\ k.fragments[new].used = FALSE
     /\ k.fragments[new].next = right
     /\ k.fragments[new].prev = f

LEMMA HalvesFact ==
  ASSUME NEW h, Raw(h), NEW f \in DOMAIN h.fragments, NEW size \in Nat \ {0},
         f + size \notin DOMAIN h.fragments,
         h.fragments[f].next # f, h.fragments[f].next # f + size
  PROVE  CutDown(h, Halves(h, f, size), f, size)
<1> DEFINE k == Halves(h, f, size)
           new == f + size
           right == h.fragments[f].next
           rest == h.fragments[f].size - size
           h1 == Resize(h, f, size)
           h2 == Put(h1, new, rest)
           h3 == Link(h2, new, right)
<1>0. /\ h.fragments[f] \in RawFragment /\ f \in Nat /\ new \in Int /\ new # f
      /\ right \in Int /\ rest \in Int
  BY DEF Raw, Address, RawFragment
<1>1. /\ DOMAIN h1 = DOMAIN h /\ h1.bins = h.bins
      /\ h1.nonempty_bin_mask = h.nonempty_bin_mask /\ h1.diagnostics = h.diagnostics
      /\ h1.fragments = [h.fragments EXCEPT ![f] = [@ EXCEPT !.size = size]]
  BY DEF Resize, Raw
<1>2. /\ DOMAIN h2 = DOMAIN h /\ h2.bins = h.bins
      /\ h2.nonempty_bin_mask = h.nonempty_bin_mask /\ h2.diagnostics = h.diagnostics
      /\ h2.fragments = [g \in DOMAIN h.fragments \union {new} |->
                           IF g = new THEN Fragment(rest) ELSE h1.fragments[g]]
  BY <1>1 DEF Put, Raw
<1> HIDE DEF h1, h2
<1>3. /\ DOMAIN h3 = DOMAIN h /\ h3.bins = h.bins
      /\ h3.nonempty_bin_mask = h.nonempty_bin_mask /\ h3.diagnostics = h.diagnostics
      /\ h3.fragments = interlink(h2.fragments, new, right)
  BY <1>2 DEF Link, Raw
<1>4. k = Link(h3, f, new)
  BY DEF Halves, h1, h2
<1> HIDE DEF h3
<1>5. /\ DOMAIN k = DOMAIN h /\ k.bins = h.bins
      /\ k.nonempty_bin_mask = h.nonempty_bin_mask /\ k.diagnostics = h.diagnostics
      /\ k.fragments = interlink(h3.fragments, f, new)
  BY <1>3, <1>4, SMTT(40) DEF Link, Raw
<1> HIDE DEF k
<1>6. DOMAIN k.fragments = DOMAIN h.fragments \union {new}
  BY <1>2, <1>3, <1>5 DEF interlink
<1>7. ASSUME NEW g \in DOMAIN k.fragments, NEW e \in RawFragment, e = h2.fragments[g]
      PROVE  /\ k.fragments[g] \in RawFragment
             /\ k.fragments[g].size = e.size /\ k.fragments[g].used = e.used
             /\ k.fragments[g].next = IF g = f THEN new
                                      ELSE IF g = new THEN right ELSE e.next
             /\ k.fragments[g].prev = IF g = new THEN f
                                      ELSE IF g = right THEN new ELSE e.prev
             /\ k.fragments[g].next_free = e.next_free
             /\ k.fragments[g].prev_free = e.prev_free
  <2> DEFINE d == h3.fragments[g]
  <2>1. d = [e EXCEPT !.next = IF g = new THEN right ELSE @,
                      !.prev = IF g = right THEN new ELSE @]
    BY <1>2, <1>3, <1>6, <1>7, ZenonT(40) DEF interlink
  <2>2. k.fragments[g] = [d EXCEPT !.next = IF g = f THEN new ELSE @,
                                   !.prev = IF g = new THEN f ELSE @]
    BY <1>2, <1>3, <1>5, <1>6 DEF interlink
  <2> HIDE DEF d, right, new
  <2>3. /\ d \in RawFragment /\ d.size = e.size /\ d.used = e.used
        /\ d.next = IF g = new THEN right ELSE e.next
        /\ d.prev = IF g = right THEN new ELSE e.prev
        /\ d.next_free = e.next_free /\ d.prev_free = e.prev_free
    BY <2>1, <1>0 DEF RawFragment
  <2>4. /\ k.fragments[g] \in RawFragment
        /\ k.fragments[g].size = d.size /\ k.fragments[g].used = d.used
        /\ k.fragments[g].next = IF g = f THEN new ELSE d.next
        /\ k.fragments[g].prev = IF g = new THEN f ELSE d.prev
        /\ k.fragments[g].next_free = d.next_free
        /\ k.fragments[g].prev_free = d.prev_free
    <3> DEFINE a == IF g = f THEN new ELSE d.next
               b == IF g = new THEN f ELSE d.prev
    <3>1. k.fragments[g] = [d EXCEPT !.next = a, !.prev = b]
      BY <2>2
    <3>2. a \in Int /\ b \in Int
      BY <2>3, <1>0 DEF RawFragment
    <3> HIDE DEF a, b
    <3>3. /\ k.fragments[g] \in RawFragment
          /\ k.fragments[g].size = d.size /\ k.fragments[g].used = d.used
          /\ k.fragments[g].next = a /\ k.fragments[g].prev = b
          /\ k.fragments[g].next_free = d.next_free
          /\ k.fragments[g].prev_free = d.prev_free
      BY <2>3, <3>1, <3>2 DEF RawFragment
    <3> QED BY <3>3 DEF a, b
  <2> QED BY <2>3, <2>4
<1>8. ASSUME NEW g \in DOMAIN h.fragments
      PROVE  /\ k.fragments[g] \in RawFragment
             /\ Size(k, g) = IF g = f THEN size ELSE Size(h, g)
             /\ k.fragments[g].used = h.fragments[g].used
             /\ k.fragments[g].next = IF g = f THEN new ELSE h.fragments[g].next
             /\ k.fragments[g].prev = IF g = right THEN new ELSE h.fragments[g].prev
             /\ k.fragments[g].next_free = h.fragments[g].next_free
             /\ k.fragments[g].prev_free = h.fragments[g].prev_free
  <2> DEFINE e == h2.fragments[g]
  <2>1. g # new /\ h.fragments[g] \in RawFragment
    BY DEF Raw
  <2>2. e = IF g = f THEN [h.fragments[f] EXCEPT !.size = size] ELSE h.fragments[g]
    BY <2>1, <1>1, <1>2
  <2> HIDE DEF e
  <2>3. /\ e \in RawFragment
        /\ e.size = IF g = f THEN size ELSE h.fragments[g].size
        /\ e.used = h.fragments[g].used /\ e.next = h.fragments[g].next
        /\ e.prev = h.fragments[g].prev
        /\ e.next_free = h.fragments[g].next_free
        /\ e.prev_free = h.fragments[g].prev_free
    BY <2>1, <2>2, <1>0 DEF RawFragment
  <2> HIDE DEF new, right
  <2> QED BY <2>1, <2>3, <1>6, <1>7 DEF Size, e
<1>9. /\ k.fragments[new] \in RawFragment
      /\ Size(k, new) = rest
      /\ k.fragments[new].used = FALSE
      /\ k.fragments[new].next = right
      /\ k.fragments[new].prev = f
  <2>1. h2.fragments[new] = Fragment(rest)
    BY <1>2
  <2>2. /\ Fragment(rest) \in RawFragment
        /\ Fragment(rest).size = rest /\ Fragment(rest).used = FALSE
    BY <1>0 DEF Fragment, RawFragment, NULL, Link0
  <2> HIDE DEF new, right, rest
  <2> QED BY <2>1, <2>2, <1>0, <1>6, <1>7 DEF Size
<1> QED BY <1>5, <1>6, <1>8, <1>9 DEF k, Size, CutDown

LEMMA HalvesChain ==
  ASSUME NEW h, Raw(h), Chain(h), NEW f \in DOMAIN h.fragments,
         NEW size, Whole(size), size < Size(h, f)
  PROVE  LET k == Halves(h, f, size) IN
         /\ Raw(k) /\ Chain(k)
         /\ f + size \notin DOMAIN h.fragments
         /\ h.fragments[f].next # f /\ h.fragments[f].next # f + size
         /\ Size(h, f) - size >= FRAGMENT_SIZE_MIN
<1> DEFINE k == Halves(h, f, size)
           new == f + size
           right == h.fragments[f].next
<1>1. \A g \in DOMAIN h.fragments :
        /\ g \in Nat /\ g # NULL /\ Size(h, g) \in Nat \ {0}
        /\ g + Size(h, g) <= Capacity
  BY ChainBins
<1>2. size \in Nat \ {0} /\ new \in Nat /\ new \in Address /\ f < new
  BY <1>1, UnitsOfWhole, CapacityFact DEF Address
<1>3. new \notin DOMAIN h.fragments
  BY <1>1, <1>2 DEF Chain, Disjoint
<1>4. \/ right = NULL /\ f + Size(h, f) = Capacity
      \/ /\ right \in DOMAIN h.fragments /\ right = f + Size(h, f)
         /\ h.fragments[right].prev = f
  BY DEF Chain, Neighbours, Size
<1>5. right # f /\ right # new
  BY <1>1, <1>2, <1>3, <1>4 DEF NULL
<1>12. CutDown(h, k, f, size)
  BY <1>2, <1>3, <1>5, HalvesFact
<1> HIDE DEF k
<1>6. /\ DOMAIN k = DOMAIN h
      /\ DOMAIN k.fragments = DOMAIN h.fragments \union {new}
      /\ k.bins = h.bins /\ k.nonempty_bin_mask = h.nonempty_bin_mask
      /\ \A g \in DOMAIN h.fragments :
           /\ k.fragments[g] \in RawFragment
           /\ Size(k, g) = IF g = f THEN size ELSE Size(h, g)
           /\ k.fragments[g].next = IF g = f THEN new ELSE h.fragments[g].next
           /\ k.fragments[g].prev = IF g = right THEN new ELSE h.fragments[g].prev
      /\ k.fragments[new] \in RawFragment
      /\ Size(k, new) = Size(h, f) - size
      /\ k.fragments[new].next = right
      /\ k.fragments[new].prev = f
  BY <1>12 DEF CutDown
<1>7. Raw(k)
  BY <1>2, <1>6 DEF Raw
<1>8. Disjoint(k)
  <2>1. SUFFICES ASSUME NEW a \in DOMAIN k.fragments, NEW b \in DOMAIN k.fragments, a < b
                 PROVE  a + Size(k, a) <= b
    BY DEF Disjoint
  <2>2. CASE a = new
    <3>1. b \in DOMAIN h.fragments /\ f < b /\ f + Size(h, f) <= b
      BY <2>1, <2>2, <1>1, <1>2, <1>6 DEF Chain, Disjoint
    <3> QED BY <3>1, <2>2, <1>1, <1>2, <1>6
  <2>3. CASE b = new /\ a # new
    <3>1. a \in DOMAIN h.fragments
      BY <2>3, <1>6
    <3>2. CASE a = f
      BY <3>2, <2>3, <1>1, <1>2, <1>6
    <3>3. CASE a < f
      <4>1. a + Size(h, a) <= f
        BY <3>1, <3>3 DEF Chain, Disjoint
      <4> QED BY <4>1, <3>1, <3>3, <2>3, <1>1, <1>2, <1>6
    <3>4. CASE a > f
      <4>1. f + Size(h, f) <= a
        BY <3>1, <3>4 DEF Chain, Disjoint
      <4> QED BY <4>1, <3>1, <2>1, <2>3, <1>1, <1>2
    <3> QED BY <3>1, <3>2, <3>3, <3>4, <1>1
  <2>4. CASE a # new /\ b # new
    <3>1. /\ a \in DOMAIN h.fragments /\ b \in DOMAIN h.fragments
          /\ a + Size(h, a) <= b
      BY <2>1, <2>4, <1>6 DEF Chain, Disjoint
    <3> QED BY <3>1, <1>1, <1>2, <1>6
  <2> QED BY <2>2, <2>3, <2>4
<1>9. Neighbours(k)
  <2>1. SUFFICES ASSUME NEW g \in DOMAIN k.fragments
        PROVE /\ \/ k.fragments[g].next = NULL /\ g + Size(k, g) = Capacity
                 \/ /\ k.fragments[g].next \in DOMAIN k.fragments
                    /\ k.fragments[g].next = g + Size(k, g)
                    /\ k.fragments[k.fragments[g].next].prev = g
              /\ \/ k.fragments[g].prev = NULL /\ g = 0
                 \/ /\ k.fragments[g].prev \in DOMAIN k.fragments
                    /\ k.fragments[k.fragments[g].prev].next = g
    BY DEF Neighbours, Size
  <2>2. CASE g = new
    BY <2>2, <1>1, <1>2, <1>3, <1>4, <1>6
  <2>3. CASE g # new
    <3> DEFINE hn == h.fragments[g].next
               hp == h.fragments[g].prev
    <3>1. g \in DOMAIN h.fragments
      BY <2>3, <1>6
    <3>2. /\ \/ hn = NULL /\ g + Size(h, g) = Capacity
             \/ /\ hn \in DOMAIN h.fragments /\ hn = g + Size(h, g)
                /\ h.fragments[hn].prev = g
          /\ \/ hp = NULL /\ g = 0
             \/ hp \in DOMAIN h.fragments /\ h.fragments[hp].next = g
      BY <3>1 DEF Chain, Neighbours, Size
    <3>3. \/ k.fragments[g].next = NULL /\ g + Size(k, g) = Capacity
          \/ /\ k.fragments[g].next \in DOMAIN k.fragments
             /\ k.fragments[g].next = g + Size(k, g)
             /\ k.fragments[k.fragments[g].next].prev = g
      <4>1. CASE g = f
        BY <4>1, <1>2, <1>6
      <4>2. CASE g # f
        <5>1. hn \in DOMAIN h.fragments => hn # right
          BY <4>2, <3>1, <3>2, <1>1, <1>4
        <5> QED BY <5>1, <4>2, <3>1, <3>2, <1>6
      <4> QED BY <4>1, <4>2
    <3>4. \/ k.fragments[g].prev = NULL /\ g = 0
          \/ /\ k.fragments[g].prev \in DOMAIN k.fragments
             /\ k.fragments[k.fragments[g].prev].next = g
      <4>1. CASE g = right
        BY <4>1, <3>1, <1>6
      <4>2. CASE g # right
        <5>1. hp # f
          BY <4>2, <3>1, <3>2, <1>1
        <5> QED BY <5>1, <4>2, <3>1, <3>2, <1>6
      <4> QED BY <4>1, <4>2
    <3> QED BY <3>3, <3>4
  <2> QED BY <2>2, <2>3
<1>10. Whole(Size(h, f) - size) /\ Size(h, f) - size >= FRAGMENT_SIZE_MIN
  <2>1. PICK a \in Nat \ {0} : Size(h, f) = a * FRAGMENT_SIZE_MIN
    BY DEF Chain, Whole
  <2>2. PICK b \in Nat \ {0} : size = b * FRAGMENT_SIZE_MIN
    BY DEF Whole
  <2> DEFINE F == FRAGMENT_SIZE_MIN
  <2>3. F \in Nat \ {0} /\ a * F > b * F
    BY <2>1, <2>2, Sizes
  <2> HIDE DEF F
  <2>4. a * F - b * F = (a - b) * F /\ a - b >= 1 /\ (a - b) * F >= F
    BY <2>3, MultDiff
  <2>5. a - b \in Nat \ {0}
    BY <2>4
  <2>6. Whole((a - b) * F) /\ (a - b) * F >= FRAGMENT_SIZE_MIN
    BY <2>4, <2>5 DEF Whole, F
  <2> QED BY <2>1, <2>2, <2>4, <2>6 DEF F
<1>11. 0 \in DOMAIN k.fragments /\ \A g \in DOMAIN k.fragments : Whole(Size(k, g))
  BY <1>6, <1>10 DEF Chain
<1> QED BY <1>3, <1>5, <1>7, <1>8, <1>9, <1>10, <1>11 DEF Chain, k
-----------------------------------------------------------------------------
(* The inductive invariant.                                                 *)
Diagnosed(h) == h.diagnostics \in DiagnosticsType

HeapInv(h) ==
  /\ Raw(h)
  /\ Chain(h)
  /\ InLists(h, FreeFragments(h))
  /\ NoFreeNeighbours(h)
  /\ Diagnosed(h)

LEMMA FreeBinnable ==
  ASSUME NEW h, Raw(h), Chain(h)
  PROVE  Binnable(h, FreeFragments(h))
BY ChainBins DEF Binnable, FreeFragments

LEMMA SmallestFact ==
  ASSUME NEW S, S \subseteq Nat, S # {}
  PROVE  Smallest(S) \in S
BY NatMin DEF Smallest

(* k is h with fragment f marked.                                           *)
Marked(h, k, f, u) ==
  /\ DOMAIN k.fragments = DOMAIN h.fragments
  /\ k.bins = h.bins /\ k.nonempty_bin_mask = h.nonempty_bin_mask
  /\ k.diagnostics = h.diagnostics
  /\ \A g \in DOMAIN h.fragments :
       /\ k.fragments[g].used = IF g = f THEN u ELSE h.fragments[g].used
       /\ k.fragments[g].size = h.fragments[g].size
       /\ k.fragments[g].next = h.fragments[g].next
       /\ k.fragments[g].prev = h.fragments[g].prev
       /\ k.fragments[g].next_free = h.fragments[g].next_free
       /\ k.fragments[g].prev_free = h.fragments[g].prev_free

LEMMA MarkFact ==
  ASSUME NEW h, Raw(h), NEW f \in DOMAIN h.fragments, NEW u \in BOOLEAN
  PROVE  Raw(Mark(h, f, u)) /\ Marked(h, Mark(h, f, u), f, u)
<1> DEFINE k == Mark(h, f, u)
<1>1. /\ DOMAIN k = DOMAIN h /\ k.bins = h.bins
      /\ k.nonempty_bin_mask = h.nonempty_bin_mask /\ k.diagnostics = h.diagnostics
      /\ k.fragments = [h.fragments EXCEPT ![f] = [@ EXCEPT !.used = u]]
  BY DEF Mark, Raw
<1> HIDE DEF k
<1>2. ASSUME NEW g \in DOMAIN h.fragments
      PROVE  /\ k.fragments[g] \in RawFragment
             /\ k.fragments[g].used = IF g = f THEN u ELSE h.fragments[g].used
             /\ k.fragments[g].size = h.fragments[g].size
             /\ k.fragments[g].next = h.fragments[g].next
             /\ k.fragments[g].prev = h.fragments[g].prev
             /\ k.fragments[g].next_free = h.fragments[g].next_free
             /\ k.fragments[g].prev_free = h.fragments[g].prev_free
  <2>1. h.fragments[g] \in RawFragment
    BY DEF Raw
  <2>2. k.fragments[g] = IF g = f THEN [h.fragments[g] EXCEPT !.used = u]
                         ELSE h.fragments[g]
    BY <1>1
  <2> QED BY <2>1, <2>2 DEF RawFragment
<1>3. DOMAIN k.fragments = DOMAIN h.fragments
  BY <1>1
<1> QED BY <1>1, <1>2, <1>3 DEF k, Raw, Marked

LEMMA MarkedChain ==
  ASSUME NEW h, Chain(h), NEW k, NEW f, NEW u, Marked(h, k, f, u)
  PROVE  Chain(k)
<1>1. Neighbours(k)
  BY DEF Chain, Marked, Neighbours
<1>2. Disjoint(k)
  BY DEF Chain, Marked, Disjoint, Size
<1> QED BY <1>1, <1>2 DEF Chain, Marked, Size

LEMMA MarkedInLists ==
  ASSUME NEW h, NEW S, InLists(h, S), Binnable(h, S),
         NEW k, NEW f, NEW u, Marked(h, k, f, u)
  PROVE  InLists(k, S) /\ Binnable(k, S)
<1>1. SameBins(h, k, S)
  BY DEF Marked, SameBins, Binnable
<1> QED BY <1>1, InListsSame

LEMMA SplitFact ==
  ASSUME NEW h, Raw(h), Chain(h), NEW S, InLists(h, S), Binnable(h, S),
         NEW f \in DOMAIN h.fragments, f \notin S,
         NEW size, Whole(size), size <= Size(h, f)
  PROVE  LET k == Split(h, f, size)
             new == f + size IN
         /\ Raw(k) /\ Chain(k) /\ k.diagnostics = h.diagnostics
         /\ DOMAIN h.fragments \subseteq DOMAIN k.fragments
         /\ Size(k, f) = size
         /\ \A g \in DOMAIN h.fragments : k.fragments[g].used = h.fragments[g].used
         /\ \A g \in DOMAIN h.fragments \ {f} :
              /\ Size(k, g) = Size(h, g)
              /\ k.fragments[g].next = h.fragments[g].next
         /\ \/ /\ DOMAIN k.fragments = DOMAIN h.fragments
               /\ k.fragments[f].next = h.fragments[f].next
               /\ InLists(k, S)
            \/ /\ DOMAIN k.fragments = DOMAIN h.fragments \union {new}
               /\ new \notin DOMAIN h.fragments /\ ~k.fragments[new].used
               /\ k.fragments[f].next = new
               /\ k.fragments[new].next = h.fragments[f].next
               /\ InLists(k, S \union {new})
<1> DEFINE k == Split(h, f, size)
           new == f + size
           rest == h.fragments[f].size - size
<1>0. /\ size \in Nat \ {0} /\ Size(h, f) \in Nat /\ FRAGMENT_SIZE_MIN \in Nat \ {0}
      /\ rest = Size(h, f) - size
  BY UnitsOfWhole, ChainBins, Sizes DEF Size
<1>1. CASE size = Size(h, f)
  <2>1. k = Resize(h, f, size)
    BY <1>0, <1>1 DEF Split
  <2>2. /\ DOMAIN k = DOMAIN h /\ k.bins = h.bins
        /\ k.nonempty_bin_mask = h.nonempty_bin_mask
        /\ k.diagnostics = h.diagnostics
        /\ k.fragments = [h.fragments EXCEPT ![f] = [@ EXCEPT !.size = size]]
    BY <2>1 DEF Resize, Raw
  <2>3. h.fragments[f] \in RawFragment /\ h.fragments[f].size = size
    BY <1>1 DEF Raw, Size
  <2> HIDE DEF k
  <2>4. [h.fragments[f] EXCEPT !.size = size] = h.fragments[f]
    BY <2>3 DEF RawFragment
  <2>5. /\ DOMAIN k.fragments = DOMAIN h.fragments
        /\ \A g \in DOMAIN h.fragments : k.fragments[g] = h.fragments[g]
    BY <2>2, <2>4
  <2>6. Raw(k)
    BY <2>2, <2>5 DEF Raw
  <2>7. SameChain(h, k) /\ SameBins(h, k, S)
    BY <2>2, <2>5 DEF SameChain, SameBins, Binnable
  <2>8. Chain(k) /\ InLists(k, S)
    BY <2>7, ChainSame, InListsSame
  <2> QED BY <2>2, <2>3, <2>5, <2>6, <2>8 DEF k, Size
<1>2. CASE size < Size(h, f)
  <2> DEFINE m == Halves(h, f, size)
  <2>1. /\ Raw(m) /\ Chain(m) /\ new \notin DOMAIN h.fragments
        /\ h.fragments[f].next # f /\ h.fragments[f].next # new
        /\ rest >= FRAGMENT_SIZE_MIN
    BY <1>0, <1>2, HalvesChain
  <2>2. CutDown(h, m, f, size)
    BY <2>1, <1>0, HalvesFact
  <2>3. k = rebin(m, new)
    BY <2>1 DEF Split, Halves
  <2> HIDE DEF m, k, rest, new
  <2>4. /\ DOMAIN m.fragments = DOMAIN h.fragments \union {new}
        /\ m.bins = h.bins /\ m.nonempty_bin_mask = h.nonempty_bin_mask
        /\ m.diagnostics = h.diagnostics
        /\ \A g \in DOMAIN h.fragments :
             /\ Size(m, g) = IF g = f THEN size ELSE Size(h, g)
             /\ m.fragments[g].used = h.fragments[g].used
             /\ m.fragments[g].next = IF g = f THEN new ELSE h.fragments[g].next
             /\ m.fragments[g].next_free = h.fragments[g].next_free
             /\ m.fragments[g].prev_free = h.fragments[g].prev_free
        /\ m.fragments[new].used = FALSE
        /\ m.fragments[new].next = h.fragments[f].next
    BY <2>2 DEF CutDown, new
  <2>5. S \subseteq DOMAIN h.fragments
    BY DEF Binnable
  <2>6. SameBins(h, m, S)
    BY <2>4, <2>5 DEF SameBins, Size
  <2>7. InLists(m, S) /\ Binnable(m, S)
    BY <2>6, InListsSame
  <2>8. BinIndex(Size(m, new)) \in Bins
    BY <2>1, <2>4, ChainBins
  <2>9. Raw(k) /\ SameChain(m, k)
    BY <2>1, <2>3, <2>4, <2>8, RebinRaw
  <2>10. InLists(k, S \union {new})
    BY <2>1, <2>3, <2>4, <2>5, <2>7, <2>8, RebinInLists
  <2>11. Chain(k)
    BY <2>1, <2>9, ChainSame
  <2> QED BY <2>1, <2>4, <2>9, <2>10, <2>11 DEF SameChain, Size, k, new
<1> QED BY <1>0, <1>1, <1>2
LEMMA DiagnosticsFact ==
  ASSUME NEW h, Raw(h), NEW d
  PROVE  LET k == [h EXCEPT !.diagnostics = d] IN
         /\ Raw(k) /\ k.diagnostics = d
         /\ k.fragments = h.fragments /\ k.bins = h.bins
         /\ k.nonempty_bin_mask = h.nonempty_bin_mask
         /\ Chain(h) => Chain(k)
         /\ \A S : InLists(h, S) => InLists(k, S)
<1> DEFINE k == [h EXCEPT !.diagnostics = d]
<1>1. /\ Raw(k) /\ k.diagnostics = d
      /\ k.fragments = h.fragments /\ k.bins = h.bins
      /\ k.nonempty_bin_mask = h.nonempty_bin_mask
  BY DEF Raw
<1> HIDE DEF k
<1>2. Chain(h) => Chain(k)
  BY <1>1 DEF Chain, Neighbours, Disjoint, Size
<1>3. ASSUME NEW S, InLists(h, S) PROVE InLists(k, S)
  BY <1>1, <1>3 DEF InLists, Listed, Ordered, Size
<1> QED BY <1>1, <1>2, <1>3 DEF k

LEMMA AccountFact ==
  ASSUME NEW d \in DiagnosticsType, NEW size \in Int, NEW amount \in Nat,
         NEW failed
  PROVE  /\ Account(d, size) \in DiagnosticsType
         /\ Unaccount(d, size) \in DiagnosticsType
         /\ CountRequest(d, amount, failed) \in DiagnosticsType
<1>1. /\ d.allocated \in Int /\ d.peak_allocated \in Int
      /\ d.peak_request_size \in Nat /\ d.oom_count \in Nat
  BY DEF DiagnosticsType
<1>2. /\ MaxOf(d.peak_allocated, d.allocated + size) \in Int
      /\ MaxOf(d.peak_request_size, amount) \in Nat
  BY <1>1 DEF MaxOf
<1>3. Account(d, size) \in DiagnosticsType
  <2> DEFINE a == d.allocated + size
             p == MaxOf(d.peak_allocated, a)
  <2>1. Account(d, size) = [d EXCEPT !.allocated = a, !.peak_allocated = p]
    BY DEF Account
  <2>2. a \in Int /\ p \in Int
    BY <1>1, <1>2
  <2> HIDE DEF a, p
  <2> QED BY <2>1, <2>2 DEF DiagnosticsType
<1>4. Unaccount(d, size) \in DiagnosticsType
  BY <1>1 DEF Unaccount, DiagnosticsType
<1>5. CountRequest(d, amount, failed) \in DiagnosticsType
  <2> DEFINE c == IF failed /\ amount > 0 THEN d.oom_count + 1 ELSE d.oom_count
  <2>1. c \in Nat
    BY <1>1
  <2>2. CountRequest(d, amount, failed)
          = [d EXCEPT !.peak_request_size = MaxOf(d.peak_request_size, amount),
                      !.oom_count = c]
    BY DEF CountRequest
  <2> HIDE DEF c
  <2> QED BY <2>1, <2>2, <1>2 DEF DiagnosticsType
<1> QED BY <1>3, <1>4, <1>5

LEMMA CarvePreserves ==
  ASSUME NEW h, HeapInv(h), NEW f \in FreeFragments(h),
         NEW size, Whole(size), size <= Size(h, f)
  PROVE  LET k == Carve(h, f, size) IN
         /\ HeapInv(k) /\ k.diagnostics = Account(h.diagnostics, size)
         /\ UsedFragments(k) = UsedFragments(h) \union {f} /\ Size(k, f) = size
         /\ \A g \in UsedFragments(h) : Size(k, g) = Size(h, g)
<1> DEFINE S  == FreeFragments(h)
           u  == unbin(h, f)
           sp == Split(u, f, size)
           a  == [sp EXCEPT !.diagnostics = Account(@, size)]
           k  == Carve(h, f, size)
           new == f + size
<1>0. /\ Raw(h) /\ Chain(h) /\ InLists(h, S) /\ NoFreeNeighbours(h) /\ Diagnosed(h)
      /\ f \in DOMAIN h.fragments /\ S \subseteq DOMAIN h.fragments
  BY DEF HeapInv, FreeFragments
<1>1. Binnable(h, S) /\ BinIndex(Size(h, f)) \in Bins /\ size \in Int
  BY <1>0, FreeBinnable, ChainBins, UnitsOfWhole
<1>2. Raw(u) /\ SameChain(h, u) /\ Chain(u)
  BY <1>0, <1>1, UnbinRaw, ChainSame
<1>3. InLists(u, S \ {f}) /\ Binnable(u, S \ {f})
  BY <1>0, <1>1, UnbinInLists
<1> HIDE DEF u, S
<1>4. /\ DOMAIN u.fragments = DOMAIN h.fragments /\ Size(u, f) = Size(h, f)
      /\ u.diagnostics = h.diagnostics
      /\ \A g \in DOMAIN h.fragments :
           /\ u.fragments[g].used = h.fragments[g].used
           /\ u.fragments[g].next = h.fragments[g].next
           /\ Size(u, g) = Size(h, g)
  BY <1>0, <1>2 DEF SameChain, Size
<1>5. /\ Raw(sp) /\ Chain(sp) /\ sp.diagnostics = h.diagnostics
      /\ DOMAIN h.fragments \subseteq DOMAIN sp.fragments
      /\ \A g \in DOMAIN h.fragments : sp.fragments[g].used = h.fragments[g].used
      /\ Size(sp, f) = size
      /\ \A g \in DOMAIN h.fragments \ {f} :
           /\ Size(sp, g) = Size(h, g)
           /\ sp.fragments[g].next = h.fragments[g].next
      /\ \/ /\ DOMAIN sp.fragments = DOMAIN h.fragments
            /\ sp.fragments[f].next = h.fragments[f].next
            /\ InLists(sp, S \ {f})
         \/ /\ DOMAIN sp.fragments = DOMAIN h.fragments \union {new}
            /\ new \notin DOMAIN h.fragments /\ ~sp.fragments[new].used
            /\ sp.fragments[f].next = new
            /\ sp.fragments[new].next = h.fragments[f].next
            /\ InLists(sp, (S \ {f}) \union {new})
  <2> HIDE DEF sp, new
  <2>1. /\ Raw(sp) /\ Chain(sp) /\ sp.diagnostics = u.diagnostics
        /\ DOMAIN u.fragments \subseteq DOMAIN sp.fragments
        /\ Size(sp, f) = size
        /\ \A g \in DOMAIN u.fragments : sp.fragments[g].used = u.fragments[g].used
        /\ \A g \in DOMAIN u.fragments \ {f} :
             /\ Size(sp, g) = Size(u, g)
             /\ sp.fragments[g].next = u.fragments[g].next
        /\ \/ /\ DOMAIN sp.fragments = DOMAIN u.fragments
              /\ sp.fragments[f].next = u.fragments[f].next
              /\ InLists(sp, S \ {f})
           \/ /\ DOMAIN sp.fragments = DOMAIN u.fragments \union {new}
              /\ new \notin DOMAIN u.fragments /\ ~sp.fragments[new].used
              /\ sp.fragments[f].next = new
              /\ sp.fragments[new].next = u.fragments[f].next
              /\ InLists(sp, (S \ {f}) \union {new})
    <3>1. f \in DOMAIN u.fragments /\ f \notin S \ {f} /\ size <= Size(u, f)
      BY <1>0, <1>4
    <3> QED BY <3>1, <1>2, <1>3, SplitFact, SMTT(40) DEF sp, new
  <2> QED BY <2>1, <1>0, <1>4, SMTT(40)
<1> HIDE DEF sp
<1>6. /\ Raw(a) /\ Chain(a) /\ a.diagnostics = Account(h.diagnostics, size)
      /\ a.fragments = sp.fragments
      /\ \A T : InLists(sp, T) => InLists(a, T)
  <2> DEFINE d == Account(sp.diagnostics, size)
  <2>1. a = [sp EXCEPT !.diagnostics = d]
    OBVIOUS
  <2> HIDE DEF a, d
  <2>2. /\ Raw(a) /\ a.diagnostics = d /\ a.fragments = sp.fragments
        /\ Chain(sp) => Chain(a)
        /\ \A T : InLists(sp, T) => InLists(a, T)
    BY <2>1, <1>5, DiagnosticsFact
  <2> QED BY <2>2, <1>5 DEF d
<1>7. k = Mark(a, f, TRUE)
  BY DEF Carve, sp, u
<1> HIDE DEF a, k
<1>8. Raw(k) /\ Marked(a, k, f, TRUE)
  BY <1>0, <1>5, <1>6, <1>7, MarkFact
<1>9. Chain(k)
  BY <1>6, <1>8, MarkedChain
<1>15. /\ DOMAIN k.fragments = DOMAIN sp.fragments
       /\ k.diagnostics = Account(h.diagnostics, size)
       /\ \A g \in DOMAIN sp.fragments :
            /\ k.fragments[g].used = IF g = f THEN TRUE ELSE sp.fragments[g].used
            /\ k.fragments[g].next = sp.fragments[g].next
            /\ Size(k, g) = Size(sp, g)
  BY <1>6, <1>8, ZenonT(60) DEF Marked, Size
<1>10. ASSUME NEW T, T \subseteq DOMAIN sp.fragments, InLists(sp, T)
       PROVE  InLists(k, T)
  <2>1. Binnable(a, T)
    BY <1>6, <1>10, ChainBins DEF Binnable
  <2> QED BY <2>1, <1>6, <1>8, <1>10, MarkedInLists
<1>11. /\ ~h.fragments[f].used
       /\ \A g \in DOMAIN h.fragments : g \in S <=> ~h.fragments[g].used
  BY <1>0 DEF S, FreeFragments
<1>12. InLists(k, FreeFragments(k))
  <2>1. CASE DOMAIN sp.fragments = DOMAIN h.fragments /\ InLists(sp, S \ {f})
    <3>1. FreeFragments(k) = S \ {f}
      BY <2>1, <1>0, <1>5, <1>15, <1>11 DEF FreeFragments
    <3> QED BY <3>1, <2>1, <1>0, <1>10
  <2>2. CASE /\ DOMAIN sp.fragments = DOMAIN h.fragments \union {new}
             /\ new \notin DOMAIN h.fragments /\ ~sp.fragments[new].used
             /\ InLists(sp, (S \ {f}) \union {new})
    <3>1. FreeFragments(k) = (S \ {f}) \union {new}
      BY <2>2, <1>0, <1>5, <1>15, <1>11 DEF FreeFragments
    <3>2. (S \ {f}) \union {new} \subseteq DOMAIN sp.fragments
      BY <2>2, <1>0
    <3> QED BY <3>1, <3>2, <2>2, <1>10
  <2> QED BY <2>1, <2>2, <1>5
<1>13. NoFreeNeighbours(k)
  <2>1. SUFFICES ASSUME NEW g \in DOMAIN k.fragments, ~k.fragments[g].used,
                        k.fragments[g].next # NULL
                 PROVE  k.fragments[k.fragments[g].next].used
    BY DEF NoFreeNeighbours, FreeFragments
  <2>2. g # f /\ g \in DOMAIN sp.fragments /\ ~sp.fragments[g].used
        /\ k.fragments[g].next = sp.fragments[g].next
    BY <2>1, <1>15
  <2>3. \A x \in DOMAIN h.fragments : ~h.fragments[x].used /\ h.fragments[x].next # NULL
           => h.fragments[x].next \in DOMAIN h.fragments
              /\ h.fragments[h.fragments[x].next].used
    BY <1>0 DEF NoFreeNeighbours, FreeFragments, Chain, Neighbours
  <2>4. CASE g \in DOMAIN h.fragments
    <3>1. sp.fragments[g].next = h.fragments[g].next /\ ~h.fragments[g].used
      BY <2>2, <2>4, <1>5
    <3>2. /\ h.fragments[g].next \in DOMAIN h.fragments
          /\ h.fragments[h.fragments[g].next].used
      BY <3>1, <2>1, <2>2, <2>3, <2>4
    <3> QED BY <3>1, <3>2, <2>2, <1>5, <1>15
  <2>5. CASE g \notin DOMAIN h.fragments
    <3>1. /\ g = new /\ sp.fragments[g].next = h.fragments[f].next
          /\ new \notin DOMAIN h.fragments
      BY <2>2, <2>5, <1>5
    <3>2. h.fragments[f].next \in DOMAIN h.fragments
          /\ h.fragments[h.fragments[f].next].used
      BY <3>1, <2>1, <2>2, <2>3, <1>0, <1>11
    <3> QED BY <3>1, <3>2, <2>2, <1>5, <1>15, ZenonT(60)
  <2> QED BY <2>4, <2>5
<1>14. Diagnosed(k)
  BY <1>0, <1>1, <1>15, AccountFact DEF Diagnosed
<1>16. HeapInv(k)
  BY <1>8, <1>9, <1>12, <1>13, <1>14 DEF HeapInv
<1>17. UsedFragments(k) = UsedFragments(h) \union {f}
  BY <1>0, <1>5, <1>15 DEF UsedFragments
<1>18. \A g \in UsedFragments(h) : Size(k, g) = Size(h, g)
  BY <1>5, <1>11, <1>15 DEF UsedFragments
<1> QED BY <1>0, <1>5, <1>15, <1>16, <1>17, <1>18 DEF k

LEMMA DiagnosticsPreserve ==
  ASSUME NEW h, HeapInv(h), NEW d \in DiagnosticsType
  PROVE  HeapInv([h EXCEPT !.diagnostics = d])
<1> DEFINE k == [h EXCEPT !.diagnostics = d]
<1>1. /\ Raw(k) /\ Chain(k) /\ k.diagnostics = d
      /\ k.fragments = h.fragments
      /\ InLists(k, FreeFragments(h))
  BY DiagnosticsFact DEF HeapInv
<1> HIDE DEF k
<1>2. NoFreeNeighbours(k) /\ FreeFragments(k) = FreeFragments(h)
  BY <1>1 DEF HeapInv, NoFreeNeighbours, FreeFragments
<1> QED BY <1>1, <1>2 DEF HeapInv, Diagnosed, k

LEMMA HeadFact ==
  ASSUME NEW h, NEW S, InLists(h, S), NEW i \in h.nonempty_bin_mask
  PROVE  h.bins[i] \in S /\ BinIndex(Size(h, h.bins[i])) = i
BY DEF InLists, Listed

(* The head of the list chosen can be cut.                                  *)
LEMMA ChosenFits ==
  ASSUME NEW h, HeapInv(h), NEW amount \in Nat,
         Requestable(h, amount), SuitableBins(h, amount) # {}
  PROVE  LET f == h.bins[Smallest(SuitableBins(h, amount))]
             size == FragmentSize(amount)
         IN f \in FreeFragments(h) /\ Whole(size) /\ size <= Size(h, f)
<1> DEFINE i == Smallest(SuitableBins(h, amount))
           f == h.bins[i]
           size == FragmentSize(amount)
<1>1. i \in SuitableBins(h, amount)
  <2>1. SuitableBins(h, amount) \subseteq Nat
    BY DEF SuitableBins, HeapInv, Raw, Bins
  <2> QED BY <2>1, SmallestFact
<1>2. /\ i \in h.nonempty_bin_mask /\ i >= log2Ceil(Units(size))
  BY <1>1 DEF SuitableBins
<1> HIDE DEF i
<1>3. f \in FreeFragments(h) /\ BinIndex(Size(h, f)) = i
  <2>1. InLists(h, FreeFragments(h))
    BY DEF HeapInv
  <2> QED BY <1>2, <2>1, HeadFact
<1>4. amount > 0 /\ amount <= Capacity - O1HEAP_ALIGNMENT
  BY DEF Requestable, HeapInv, Diagnosed, DiagnosticsType
<1>5. Whole(size) /\ size <= FRAGMENT_SIZE_MAX
  BY <1>4, FragmentSizeFact
<1>6. Whole(Size(h, f)) /\ Size(h, f) <= Capacity
  <2>1. f \in DOMAIN h.fragments /\ Raw(h) /\ Chain(h)
    BY <1>3 DEF HeapInv, FreeFragments
  <2>2. f \in Nat /\ Size(h, f) \in Nat /\ f + Size(h, f) <= Capacity
    BY <2>1, ChainBins
  <2> QED BY <2>1, <2>2, CapacityFact DEF Chain
<1> HIDE DEF size, f
<1>7. size <= Size(h, f)
  BY <1>2, <1>3, <1>5, <1>6, SuitableFits
<1> QED BY <1>3, <1>5, <1>7 DEF size, f, i

LEMMA AllocatePreserves ==
  ASSUME NEW h, HeapInv(h), NEW amount \in Nat
  PROVE  HeapInv(o1heapAllocate(h, amount).heap)
<1> DEFINE fits == Requestable(h, amount) /\ SuitableBins(h, amount) # {}
           i == Smallest(SuitableBins(h, amount))
           f == h.bins[i]
           size == FragmentSize(amount)
           left == IF fits THEN Carve(h, f, size) ELSE h
<1>1. o1heapAllocate(h, amount).heap
        = [left EXCEPT !.diagnostics = CountRequest(@, amount, ~fits)]
  BY DEF o1heapAllocate
<1>2. ASSUME fits PROVE HeapInv(Carve(h, f, size))
  BY <1>2, ChosenFits, CarvePreserves
<1>3. HeapInv(left)
  BY <1>2
<1> HIDE DEF left
<1>4. CountRequest(left.diagnostics, amount, ~fits) \in DiagnosticsType
  <2>1. left.diagnostics \in DiagnosticsType /\ 0 \in Int
    BY <1>3 DEF HeapInv, Diagnosed
  <2> HIDE DEF fits
  <2> QED BY <2>1, AccountFact
<1>5. o1heapAllocate(h, amount).heap
        = [left EXCEPT !.diagnostics = CountRequest(left.diagnostics, amount, ~fits)]
  BY <1>1
<1> QED BY <1>3, <1>4, <1>5, DiagnosticsPreserve

(* Unlinking a neighbour that may be free, during a free.                   *)
LEMMA UnbinIfFreeFact ==
  ASSUME NEW h, Raw(h), Chain(h), NEW S, InLists(h, S), Binnable(h, S),
         NEW x, IsFree(h, x) => x \in S
  PROVE  LET k == UnbinIfFree(h, x)
             T == IF IsFree(h, x) THEN S \ {x} ELSE S IN
         /\ Raw(k) /\ Chain(k) /\ SameChain(h, k)
         /\ InLists(k, T) /\ Binnable(k, T)
<1>1. CASE IsFree(h, x)
  <2>1. x \in S /\ x \in DOMAIN h.fragments /\ BinIndex(Size(h, x)) \in Bins
    BY <1>1 DEF Binnable
  <2> DEFINE k == unbin(h, x)
  <2>2. Raw(k) /\ SameChain(h, k)
    BY <2>1, UnbinRaw
  <2>3. InLists(k, S \ {x}) /\ Binnable(k, S \ {x})
    BY <2>1, UnbinInLists
  <2> HIDE DEF k
  <2>4. Chain(k)
    BY <2>2, ChainSame
  <2> QED BY <1>1, <2>2, <2>3, <2>4 DEF UnbinIfFree, k
<1>2. CASE ~IsFree(h, x)
  BY <1>2 DEF UnbinIfFree, SameChain
<1> QED BY <1>1, <1>2

LEMMA JoinPreserves ==
  ASSUME NEW h, Raw(h), Chain(h), NEW S, InLists(h, S), Binnable(h, S),
         NEW l \in DOMAIN h.fragments, NEW r \in DOMAIN h.fragments,
         h.fragments[l].next = r, l \notin S, r \notin S
  PROVE  LET k == Join(h, l, r) IN
         /\ Raw(k) /\ Chain(k) /\ InLists(k, S) /\ Binnable(k, S)
         /\ l # r /\ Merged(h, k, l, r)
<1> DEFINE k == Join(h, l, r)
<1>1. Raw(k) /\ Chain(k) /\ l < r /\ h.fragments[r].next # r
  BY JoinChain
<1>2. l # r
  BY <1>1, ChainBins
<1>3. Merged(h, k, l, r)
  BY <1>1, <1>2, JoinFact
<1> HIDE DEF k
<1>4. SameBins(h, k, S)
  BY <1>3 DEF Merged, SameBins, Binnable, Size
<1>5. InLists(k, S) /\ Binnable(k, S)
  BY <1>4, InListsSame
<1> QED BY <1>1, <1>2, <1>3, <1>5 DEF k

LEMMA FreePreserves ==
  ASSUME NEW h, HeapInv(h), NEW f \in UsedFragments(h)
  PROVE  LET k == o1heapFree(h, f + O1HEAP_ALIGNMENT) IN
         /\ HeapInv(k)
         /\ k.diagnostics = Unaccount(h.diagnostics, Size(h, f))
         /\ UsedFragments(k) = UsedFragments(h) \ {f}
         /\ \A g \in UsedFragments(k) : Size(k, g) = Size(h, g)
<1> DEFINE S    == FreeFragments(h)
           prev == h.fragments[f].prev
           next == h.fragments[f].next
           pf   == IsFree(h, prev)
           nf   == IsFree(h, next)
           d    == Unaccount(h.diagnostics, h.fragments[f].size)
           a    == [h EXCEPT !.diagnostics = d]
           freed == Mark(a, f, FALSE)
           left  == UnbinIfFree(freed, prev)
           apart == UnbinIfFree(left, next)
           right == IF nf THEN Join(apart, f, next) ELSE apart
           whole == IF pf THEN Join(right, prev, f) ELSE right
           c     == IF pf THEN prev ELSE f
           k     == rebin(whole, c)
           S1    == IF pf THEN S \ {prev} ELSE S
           S2    == IF nf THEN S1 \ {next} ELSE S1
<1>0. o1heapFree(h, f + O1HEAP_ALIGNMENT) = k
  <2>1. f \in Nat /\ f + O1HEAP_ALIGNMENT # NULL
        /\ (f + O1HEAP_ALIGNMENT) - O1HEAP_ALIGNMENT = f
    BY Sizes DEF HeapInv, Raw, Address, UsedFragments, NULL
  <2>2. O1HEAP_ALIGNMENT \in Int
    BY Sizes
  <2> HIDE DEF k
  <2> QED BY <2>1 DEF o1heapFree, k
<1>1. /\ Raw(h) /\ Chain(h) /\ InLists(h, S) /\ NoFreeNeighbours(h) /\ Binnable(h, S)
      /\ h.diagnostics \in DiagnosticsType
      /\ f \in DOMAIN h.fragments /\ h.fragments[f].used /\ f \notin S
      /\ \A g \in DOMAIN h.fragments : g \in S <=> ~h.fragments[g].used
      /\ S \subseteq DOMAIN h.fragments
  BY FreeBinnable DEF HeapInv, Diagnosed, FreeFragments, UsedFragments
<1>2. /\ \A g \in DOMAIN h.fragments : g \in Nat /\ g # NULL /\ Size(h, g) \in Nat \ {0}
      /\ h.fragments[f].size \in Int
  BY <1>1, ChainBins DEF Size
<1>3. \A g \in DOMAIN h.fragments :
        /\ \/ h.fragments[g].next = NULL
           \/ /\ h.fragments[g].next \in DOMAIN h.fragments
              /\ h.fragments[g].next > g
              /\ h.fragments[h.fragments[g].next].prev = g
        /\ \/ h.fragments[g].prev = NULL
           \/ /\ h.fragments[g].prev \in DOMAIN h.fragments
              /\ h.fragments[h.fragments[g].prev].next = g
  BY <1>1, <1>2 DEF Chain, Neighbours, Size
<1>4. /\ pf => prev \in S /\ prev \in DOMAIN h.fragments /\ h.fragments[prev].next = f
      /\ nf => next \in S /\ next \in DOMAIN h.fragments
      /\ prev # f /\ next # f
      /\ prev # NULL \/ next # NULL => prev # next
  <2>1. next # NULL => next > f
    BY <1>1, <1>2, <1>3
  <2>2. prev # NULL => prev \in DOMAIN h.fragments /\ h.fragments[prev].next = f /\ prev < f
    BY <1>1, <1>2, <1>3
  <2> QED BY <2>1, <2>2, <1>1, <1>2, <1>3 DEF IsFree
<1> HIDE DEF S
<1>5. Raw(a) /\ Chain(a) /\ a.diagnostics = d /\ a.fragments = h.fragments /\ InLists(a, S)
  <2> HIDE DEF d, a
  <2>1. a = [h EXCEPT !.diagnostics = d]
    BY DEF a
  <2> QED BY <2>1, <1>1, DiagnosticsFact
<1>6. d \in DiagnosticsType
  BY <1>1, <1>2, AccountFact
<1> HIDE DEF a, d
<1>7. Raw(freed) /\ Marked(a, freed, f, FALSE)
  BY <1>1, <1>5, MarkFact
<1>8. Binnable(a, S)
  BY <1>1, <1>5 DEF Binnable, Size
<1> HIDE DEF freed
<1>9. Chain(freed) /\ InLists(freed, S) /\ Binnable(freed, S)
  BY <1>5, <1>7, <1>8, MarkedChain, MarkedInLists
<1>10. /\ DOMAIN freed.fragments = DOMAIN h.fragments /\ freed.diagnostics = d
       /\ \A g \in DOMAIN h.fragments :
            /\ freed.fragments[g].used = IF g = f THEN FALSE ELSE h.fragments[g].used
            /\ freed.fragments[g].next = h.fragments[g].next
            /\ freed.fragments[g].size = h.fragments[g].size
  BY <1>5, <1>7, ZenonT(60) DEF Marked
<1>11. IsFree(freed, prev) = pf
  BY <1>1, <1>3, <1>4, <1>10, ZenonT(40) DEF IsFree
<1> HIDE DEF prev, next
<1>12. Raw(left) /\ Chain(left) /\ SameChain(freed, left) /\ InLists(left, S1) /\ Binnable(left, S1)
  <2> HIDE DEF left
  <2>1. LET T == IF IsFree(freed, prev) THEN S \ {prev} ELSE S IN
        Raw(left) /\ Chain(left) /\ SameChain(freed, left) /\ InLists(left, T) /\ Binnable(left, T)
    BY <1>4, <1>7, <1>9, <1>11, UnbinIfFreeFact DEF left
  <2> QED BY <2>1, <1>11
<1> HIDE DEF left, S1
<1>13. IsFree(left, next) = nf
  BY <1>1, <1>3, <1>4, <1>10, <1>12, ZenonT(40) DEF IsFree, SameChain, next
<1>14. nf => next \in S1
  BY <1>4 DEF S1, IsFree
<1>15. Raw(apart) /\ Chain(apart) /\ SameChain(left, apart) /\ InLists(apart, S2)
       /\ Binnable(apart, S2)
  <2> HIDE DEF apart
  <2>1. LET T == IF IsFree(left, next) THEN S1 \ {next} ELSE S1 IN
        Raw(apart) /\ Chain(apart) /\ SameChain(left, apart) /\ InLists(apart, T)
        /\ Binnable(apart, T)
    BY <1>12, <1>13, <1>14, UnbinIfFreeFact DEF apart
  <2> QED BY <2>1, <1>13
<1> HIDE DEF apart, S2
<1>16. /\ DOMAIN apart.fragments = DOMAIN h.fragments /\ apart.diagnostics = d
       /\ \A g \in DOMAIN h.fragments :
            /\ apart.fragments[g].used = IF g = f THEN FALSE ELSE h.fragments[g].used
            /\ apart.fragments[g].next = h.fragments[g].next
            /\ Size(apart, g) = Size(h, g)
  BY <1>10, <1>12, <1>15, ZenonT(40) DEF SameChain, Size
<1> HIDE DEF nf, pf
<1>17. /\ \A g : g \in S2 <=> g \in S /\ ~(pf /\ g = prev) /\ ~(nf /\ g = next)
       /\ f \notin S2 /\ (nf => next \notin S2) /\ (pf => prev \notin S2)
  <2>1. \A g : g \in S2 <=> g \in S /\ ~(pf /\ g = prev) /\ ~(nf /\ g = next)
    BY DEF S1, S2
  <2> QED BY <2>1, <1>1
<1>18. /\ Raw(right) /\ Chain(right) /\ InLists(right, S2) /\ Binnable(right, S2)
       /\ right.diagnostics = d
       /\ DOMAIN right.fragments = DOMAIN h.fragments \ {g \in {next} : nf}
       /\ \A g \in DOMAIN right.fragments :
            /\ right.fragments[g].used = apart.fragments[g].used
            /\ right.fragments[g].next = IF nf /\ g = f THEN h.fragments[next].next
                                         ELSE h.fragments[g].next
            /\ g # f => Size(right, g) = Size(apart, g)
  <2>1. CASE nf
    <3> DEFINE j == Join(apart, f, next)
    <3>1. /\ f \in DOMAIN apart.fragments /\ next \in DOMAIN apart.fragments
          /\ apart.fragments[f].next = next
      BY <2>1, <1>1, <1>4, <1>16 DEF next
    <3>2. Raw(j) /\ Chain(j) /\ InLists(j, S2) /\ Binnable(j, S2) /\ Merged(apart, j, f, next)
      BY <2>1, <3>1, <1>15, <1>17, JoinPreserves
    <3>3. right = j
      BY <2>1
    <3> HIDE DEF j, right
    <3>4. Merged(apart, right, f, next)
      BY <3>2, <3>3
    <3>5. Raw(right) /\ Chain(right) /\ InLists(right, S2) /\ Binnable(right, S2)
      BY <3>2, <3>3
    <3>6. right.diagnostics = apart.diagnostics
          /\ DOMAIN right.fragments = DOMAIN apart.fragments \ {next}
      BY <3>4 DEF Merged
    <3>7. \A g \in DOMAIN right.fragments :
            /\ right.fragments[g].used = apart.fragments[g].used
            /\ right.fragments[g].next = IF g = f THEN apart.fragments[next].next
                                         ELSE apart.fragments[g].next
            /\ g # f => Size(right, g) = Size(apart, g)
      BY <3>4 DEF Merged
    <3>8. DOMAIN right.fragments = DOMAIN h.fragments \ {next}
      BY <3>6, <1>16
    <3>9. next \in DOMAIN h.fragments
      BY <3>1, <1>16
    <3>10. \A g \in DOMAIN right.fragments :
             /\ right.fragments[g].used = apart.fragments[g].used
             /\ right.fragments[g].next = IF nf /\ g = f THEN h.fragments[next].next
                                          ELSE h.fragments[g].next
             /\ g # f => Size(right, g) = Size(apart, g)
      BY <2>1, <3>7, <3>8, <3>9, <1>16
    <3>11. DOMAIN right.fragments = DOMAIN h.fragments \ {g \in {next} : nf}
      BY <2>1, <3>8
    <3> QED BY <3>5, <3>6, <3>10, <3>11, <1>16
  <2>2. CASE ~nf
    BY <2>2, <1>15, <1>16
  <2> QED BY <2>1, <2>2
<1> HIDE DEF right
<1>19. f \in DOMAIN right.fragments /\ (pf => prev \in DOMAIN right.fragments
         /\ right.fragments[prev].next = f)
  BY <1>1, <1>2, <1>4, <1>18
<1>20. /\ Raw(whole) /\ Chain(whole) /\ InLists(whole, S2) /\ Binnable(whole, S2)
       /\ whole.diagnostics = d
       /\ DOMAIN whole.fragments = DOMAIN right.fragments \ {g \in {f} : pf}
       /\ \A g \in DOMAIN whole.fragments :
            /\ whole.fragments[g].used = right.fragments[g].used
            /\ whole.fragments[g].next = IF g = c THEN right.fragments[f].next
                                         ELSE right.fragments[g].next
            /\ g # c => Size(whole, g) = Size(right, g)
  <2>1. CASE pf
    <3> DEFINE j == Join(right, prev, f)
    <3>1. Raw(j) /\ Chain(j) /\ InLists(j, S2) /\ Binnable(j, S2) /\ Merged(right, j, prev, f)
      BY <2>1, <1>17, <1>18, <1>19, JoinPreserves
    <3>2. whole = j /\ c = prev
      BY <2>1
    <3> HIDE DEF j, whole, c
    <3>3. Merged(right, whole, prev, f)
      BY <3>1, <3>2
    <3>4. /\ whole.diagnostics = right.diagnostics
          /\ DOMAIN whole.fragments = DOMAIN right.fragments \ {f}
      BY <3>3 DEF Merged
    <3>5. \A g \in DOMAIN whole.fragments :
            /\ whole.fragments[g].used = right.fragments[g].used
            /\ whole.fragments[g].next = IF g = c THEN right.fragments[f].next
                                         ELSE right.fragments[g].next
            /\ g # c => Size(whole, g) = Size(right, g)
      BY <3>2, <3>3 DEF Merged
    <3>6. DOMAIN whole.fragments = DOMAIN right.fragments \ {g \in {f} : pf}
      BY <2>1, <3>4
    <3> QED BY <3>1, <3>2, <3>4, <3>5, <3>6, <1>18
  <2>2. CASE ~pf
    BY <2>2, <1>18
  <2> QED BY <2>1, <2>2
<1> HIDE DEF whole
<1>21. c \in DOMAIN whole.fragments /\ c \notin S2 /\ BinIndex(Size(whole, c)) \in Bins
  <2>1. c \in DOMAIN whole.fragments /\ c \notin S2
    BY <1>4, <1>17, <1>19, <1>20
  <2> QED BY <2>1, <1>20, ChainBins
<1> HIDE DEF c
<1>22. /\ Raw(k) /\ SameChain(whole, k) /\ Chain(k)
       /\ InLists(k, S2 \union {c})
  <2>1. Raw(k) /\ SameChain(whole, k)
    BY <1>20, <1>21, RebinRaw
  <2>2. InLists(k, S2 \union {c})
    BY <1>20, <1>21, RebinInLists
  <2> QED BY <2>1, <2>2, <1>20, ChainSame
<1> HIDE DEF k
<1>23. /\ DOMAIN k.fragments = DOMAIN whole.fragments /\ k.diagnostics = d
       /\ \A g \in DOMAIN k.fragments :
            /\ g \in DOMAIN h.fragments
            /\ k.fragments[g].used = IF g = f THEN FALSE ELSE h.fragments[g].used
            /\ k.fragments[g].next =
                 IF g = c THEN IF nf THEN h.fragments[next].next ELSE next
                 ELSE h.fragments[g].next
  <2>1. right.fragments[f].next = IF nf THEN h.fragments[next].next ELSE next
    BY <1>18, <1>19 DEF next
  <2>2. \A g \in DOMAIN whole.fragments : g # c => g # f
    BY <1>20 DEF c
  <2>3. DOMAIN k.fragments = DOMAIN whole.fragments /\ k.diagnostics = d
    BY <1>20, <1>22 DEF SameChain
  <2>4. ASSUME NEW g \in DOMAIN k.fragments
        PROVE  /\ g \in DOMAIN h.fragments
               /\ k.fragments[g].used = IF g = f THEN FALSE ELSE h.fragments[g].used
               /\ k.fragments[g].next =
                    IF g = c THEN IF nf THEN h.fragments[next].next ELSE next
                    ELSE h.fragments[g].next
    <3>1. g \in DOMAIN right.fragments /\ g \in DOMAIN h.fragments
      BY <2>3, <1>18, <1>20
    <3>2. /\ k.fragments[g].used = whole.fragments[g].used
          /\ k.fragments[g].next = whole.fragments[g].next
      BY <2>3, <1>22 DEF SameChain
    <3>3. whole.fragments[g].used = IF g = f THEN FALSE ELSE h.fragments[g].used
      BY <2>3, <3>1, <1>16, <1>18, <1>20
    <3>4. whole.fragments[g].next =
            IF g = c THEN IF nf THEN h.fragments[next].next ELSE next
            ELSE h.fragments[g].next
      BY <2>1, <2>2, <2>3, <3>1, <1>18, <1>20
    <3> QED BY <3>1, <3>2, <3>3, <3>4
  <2> QED BY <2>3, <2>4
<1>24. FreeFragments(k) = S2 \union {c}
  <2>1. ASSUME NEW g \in DOMAIN k.fragments
        PROVE  ~k.fragments[g].used <=> g \in S2 \/ g = c
    <3>1. CASE g = f
      BY <3>1, <1>20, <1>23 DEF c
    <3>2. CASE g # f
      BY <3>2, <2>1, <1>1, <1>4, <1>17, <1>18, <1>20, <1>23, ZenonT(60) DEF c
    <3> QED BY <3>1, <3>2
  <2>2. S2 \union {c} \subseteq DOMAIN k.fragments
    BY <1>20, <1>21, <1>23 DEF Binnable
  <2> QED BY <2>1, <2>2 DEF FreeFragments
<1>25. NoFreeNeighbours(k)
  <2>1. SUFFICES ASSUME NEW g \in DOMAIN k.fragments, ~k.fragments[g].used,
                        k.fragments[g].next # NULL
                 PROVE  k.fragments[k.fragments[g].next].used
    BY DEF NoFreeNeighbours, FreeFragments
  <2>2. k.fragments[g].next \in DOMAIN k.fragments
    BY <2>1, <1>22 DEF Chain, Neighbours
  <2>3. \A x \in DOMAIN h.fragments : ~h.fragments[x].used /\ h.fragments[x].next # NULL
           => h.fragments[h.fragments[x].next].used
    BY <1>1 DEF NoFreeNeighbours, FreeFragments
  <2>4. CASE g = c
    <3> DEFINE e == IF nf THEN h.fragments[next].next ELSE next
    <3>1. e # f
      <4>1. CASE nf
        <5>1. next \in DOMAIN h.fragments /\ next # NULL /\ next > f
          BY <4>1, <1>1, <1>2, <1>3, <1>4 DEF next
        <5>2. h.fragments[next].next = NULL \/ h.fragments[next].next > next
          BY <5>1, <1>3
        <5>3. f \in Nat /\ next \in Nat /\ f # NULL
          BY <5>1, <1>1, <1>2
        <5> QED BY <4>1, <5>1, <5>2, <5>3
      <4>2. CASE ~nf
        BY <4>2, <1>4
      <4> QED BY <4>1, <4>2
    <3>2. e # NULL => h.fragments[e].used
      BY <1>1, <1>3, <1>4, <2>3 DEF nf, IsFree, next
    <3>3. k.fragments[g].next = e
      BY <2>4, <1>23
    <3> HIDE DEF e
    <3> QED BY <2>1, <2>2, <3>1, <3>2, <3>3, <1>23
  <2>5. CASE g # c
    <3>1. /\ g \in DOMAIN h.fragments /\ g # f /\ ~h.fragments[g].used
          /\ k.fragments[g].next = h.fragments[g].next
      BY <2>1, <2>5, <1>20, <1>23 DEF c
    <3>2. h.fragments[g].next # f
      <4>1. SUFFICES ASSUME h.fragments[g].next = f PROVE FALSE
        OBVIOUS
      <4>2. prev = g
        BY <4>1, <3>1, <1>2, <1>1, <1>3 DEF prev
      <4>3. pf
        BY <4>2, <3>1, <1>2 DEF pf, IsFree
      <4> QED BY <4>2, <4>3, <2>5 DEF c
    <3> QED BY <3>1, <3>2, <2>1, <2>2, <2>3, <1>23
  <2> QED BY <2>4, <2>5
<1>26. Diagnosed(k)
  BY <1>6, <1>23 DEF Diagnosed
<1>27. UsedFragments(k) = UsedFragments(h) \ {f}
  <2>1. ASSUME NEW g \in DOMAIN h.fragments, h.fragments[g].used, g # f
        PROVE  g \in DOMAIN k.fragments
    <3>1. ~(nf /\ g = next)
      BY <2>1, <1>1, <1>4
    <3> QED BY <3>1, <2>1, <1>18, <1>20, <1>23
  <2>2. f \in DOMAIN k.fragments => ~k.fragments[f].used
    BY <1>23
  <2> QED BY <2>1, <2>2, <1>23 DEF UsedFragments
<1>28. ASSUME NEW g \in UsedFragments(k) PROVE Size(k, g) = Size(h, g)
  <2>1. g \in DOMAIN k.fragments /\ g # f /\ h.fragments[g].used
        /\ g \in DOMAIN h.fragments
    BY <1>27, <1>28 DEF UsedFragments
  <2>2. g # c
    BY <2>1, <1>1, <1>4 DEF c
  <2>3. Size(k, g) = Size(whole, g)
    BY <2>1, <1>22, <1>23 DEF SameChain, Size
  <2>4. Size(whole, g) = Size(right, g) /\ g \in DOMAIN right.fragments
    BY <2>1, <2>2, <1>20, <1>23
  <2>5. Size(right, g) = Size(apart, g)
    BY <2>1, <2>4, <1>18
  <2> QED BY <2>1, <2>3, <2>4, <2>5, <1>16
<1>29. HeapInv(k)
  BY <1>22, <1>24, <1>25, <1>26 DEF HeapInv
<1>30. k.diagnostics = Unaccount(h.diagnostics, Size(h, f))
  BY <1>23 DEF d, Size
<1> QED BY <1>0, <1>27, <1>28, <1>29, <1>30
-----------------------------------------------------------------------------
(* The specification.                                                       *)

(* o1heapInit leaves one free fragment, in the bin of its size.             *)
LEMMA InitFact == HeapInv(o1heapInit) /\ UsedFragments(o1heapInit) = {}
<1> DEFINE fr == Fragment(Capacity)
           d  == [capacity |-> Capacity, allocated |-> 0, peak_allocated |-> 0,
                  peak_request_size |-> 0, oom_count |-> 0]
           h  == [fragments |-> [f \in {0} |-> fr], bins |-> [i \in Bins |-> NULL],
                  nonempty_bin_mask |-> {}, diagnostics |-> d]
           k  == rebin(h, 0)
<1>1. o1heapInit = k
  BY DEF o1heapInit
<1>2. /\ fr \in RawFragment /\ fr.size = Capacity /\ ~fr.used
      /\ fr.next = NULL /\ fr.prev = NULL
  BY CapacityFact DEF Fragment, RawFragment, NULL, Link0
<1>3. d \in DiagnosticsType
  BY DEF DiagnosticsType
<1> HIDE DEF fr, d
<1>4. /\ DOMAIN h = {"fragments", "bins", "nonempty_bin_mask", "diagnostics"}
      /\ h.fragments = [f \in {0} |-> fr] /\ h.bins = [i \in Bins |-> NULL]
      /\ h.nonempty_bin_mask = {} /\ h.diagnostics = d
  OBVIOUS
<1> HIDE DEF h
<1>5. DOMAIN h.fragments = {0} /\ h.fragments[0] = fr
  BY <1>4
<1>6. Raw(h)
  BY <1>2, <1>4, <1>5, CapacityFact DEF Raw, Address, NULL, Link0
<1>7. Chain(h)
  BY <1>2, <1>5, CapacityFact DEF Chain, Neighbours, Disjoint, Size, Whole
<1>8. InLists(h, {}) /\ Binnable(h, {})
  BY <1>4 DEF InLists, Listed, Ordered, Binnable, NULL
<1>9. 0 \in DOMAIN h.fragments /\ BinIndex(Size(h, 0)) \in Bins
  BY <1>5, <1>6, <1>7, ChainBins
<1>10. Raw(k) /\ SameChain(h, k) /\ Chain(k)
  BY <1>6, <1>7, <1>9, RebinRaw, ChainSame
<1>11. InLists(k, {} \union {0})
  BY <1>6, <1>8, <1>9, RebinInLists
<1> HIDE DEF k
<1>12. /\ DOMAIN k.fragments = {0} /\ ~k.fragments[0].used
       /\ k.fragments[0].next = NULL /\ k.diagnostics = d
  BY <1>2, <1>4, <1>5, <1>10 DEF SameChain
<1>13. FreeFragments(k) = {} \union {0} /\ NoFreeNeighbours(k)
  BY <1>12 DEF FreeFragments, NoFreeNeighbours
<1>14. HeapInv(k)
  BY <1>3, <1>10, <1>11, <1>12, <1>13 DEF HeapInv, Diagnosed
<1>15. UsedFragments(k) = {}
  BY <1>12 DEF UsedFragments
<1> QED BY <1>1, <1>14, <1>15

(* What a request that is met does to the heap.                             *)
LEMMA AllocateFact ==
  ASSUME NEW h, HeapInv(h), NEW amount \in Nat,
         Requestable(h, amount), SuitableBins(h, amount) # {}
  PROVE  LET k == o1heapAllocate(h, amount).heap IN
         /\ k.diagnostics.oom_count = h.diagnostics.oom_count
         /\ \E f \in FreeFragments(h) :
              /\ o1heapAllocate(h, amount).out = f + O1HEAP_ALIGNMENT
              /\ UsedFragments(k) = UsedFragments(h) \union {f}
              /\ Size(k, f) = FragmentSize(amount)
              /\ \A g \in UsedFragments(h) : Size(k, g) = Size(h, g)
<1> DEFINE k == o1heapAllocate(h, amount).heap
           i == Smallest(SuitableBins(h, amount))
           f == h.bins[i]
           size == FragmentSize(amount)
           left == Carve(h, f, size)
           d == CountRequest(left.diagnostics, amount, FALSE)
<1>1. /\ k = [left EXCEPT !.diagnostics = d]
      /\ o1heapAllocate(h, amount).out = f + O1HEAP_ALIGNMENT
  BY DEF o1heapAllocate
<1>2. /\ f \in FreeFragments(h) /\ Whole(size) /\ size <= Size(h, f)
  BY ChosenFits
<1> HIDE DEF f, size
<1>3. /\ HeapInv(left) /\ left.diagnostics = Account(h.diagnostics, size)
      /\ UsedFragments(left) = UsedFragments(h) \union {f} /\ Size(left, f) = size
      /\ \A g \in UsedFragments(h) : Size(left, g) = Size(h, g)
  BY <1>2, CarvePreserves
<1> HIDE DEF left, d
<1>4. k.fragments = left.fragments /\ k.diagnostics = d
  BY <1>1, <1>3, DiagnosticsFact DEF HeapInv
<1> HIDE DEF k
<1>5. d.oom_count = h.diagnostics.oom_count
  <2>1. h.diagnostics \in DiagnosticsType
    BY DEF HeapInv, Diagnosed
  <2>2. left.diagnostics.oom_count = h.diagnostics.oom_count
        /\ left.diagnostics \in DiagnosticsType
    BY <2>1, <1>3 DEF Account, DiagnosticsType, HeapInv, Diagnosed
  <2> QED BY <2>2 DEF d, CountRequest, DiagnosticsType
<1> QED BY <1>1, <1>2, <1>3, <1>4, <1>5 DEF UsedFragments, Size, k, size

(* A request that is not met leaves the fragments alone.                    *)
LEMMA RefusedFact ==
  ASSUME NEW h, HeapInv(h), NEW amount \in Nat,
         ~(Requestable(h, amount) /\ SuitableBins(h, amount) # {})
  PROVE  /\ o1heapAllocate(h, amount).out = NULL
         /\ o1heapAllocate(h, amount).heap.fragments = h.fragments
<1> DEFINE d == CountRequest(h.diagnostics, amount, TRUE)
<1>1. /\ o1heapAllocate(h, amount).heap = [h EXCEPT !.diagnostics = d]
      /\ o1heapAllocate(h, amount).out = NULL
  BY DEF o1heapAllocate
<1> HIDE DEF d
<1> QED BY <1>1, DiagnosticsFact DEF HeapInv

LEMMA PointerFact ==
  ASSUME NEW h, HeapInv(h)
  PROVE  /\ \A f \in UsedFragments(h) :
              /\ f \in Nat /\ f + O1HEAP_ALIGNMENT \in Pointers(h)
              /\ (f + O1HEAP_ALIGNMENT) - O1HEAP_ALIGNMENT = f
         /\ \A p \in Pointers(h) :
              /\ p \in Nat /\ p - O1HEAP_ALIGNMENT \in UsedFragments(h)
              /\ p = (p - O1HEAP_ALIGNMENT) + O1HEAP_ALIGNMENT
<1>1. \A f \in UsedFragments(h) : f \in Nat
  BY DEF HeapInv, Raw, Address, UsedFragments
<1>2. O1HEAP_ALIGNMENT \in Nat
  BY Sizes
<1>3. \A f \in UsedFragments(h) :
        /\ f + O1HEAP_ALIGNMENT \in Pointers(h)
        /\ (f + O1HEAP_ALIGNMENT) - O1HEAP_ALIGNMENT = f
  BY <1>1, <1>2 DEF Pointers
<1>4. \A p \in Pointers(h) :
        /\ p \in Nat /\ p - O1HEAP_ALIGNMENT \in UsedFragments(h)
        /\ p = (p - O1HEAP_ALIGNMENT) + O1HEAP_ALIGNMENT
  <2>1. ASSUME NEW p \in Pointers(h)
        PROVE  /\ p \in Nat /\ p - O1HEAP_ALIGNMENT \in UsedFragments(h)
               /\ p = (p - O1HEAP_ALIGNMENT) + O1HEAP_ALIGNMENT
    <3>1. PICK f \in UsedFragments(h) : p = f + O1HEAP_ALIGNMENT
      BY DEF Pointers
    <3>2. p - O1HEAP_ALIGNMENT = f
      BY <3>1, <1>3
    <3> QED BY <3>1, <3>2, <1>1, <1>2
  <2> QED BY <2>1
<1> QED BY <1>1, <1>3, <1>4

(* The client holds the used fragments, and each block the amount it was    *)
(* asked for, behind its header.                                            *)
Held(h, b) ==
  /\ DOMAIN b = Pointers(h) /\ b = [p \in DOMAIN b |-> b[p]]
  /\ \A f \in UsedFragments(h) :
       LET n == b[f + O1HEAP_ALIGNMENT]
       IN n \in Nat \ {0} /\ n + O1HEAP_ALIGNMENT <= Size(h, f)

With(b, p, amount) == [q \in DOMAIN b \union {p} |-> IF q = p THEN amount ELSE b[q]]
Without(b, p) == [q \in DOMAIN b \ {p} |-> b[q]]

LEMMA HeldGrow ==
  ASSUME NEW h, HeapInv(h), NEW k, HeapInv(k), NEW f \in FreeFragments(h),
         UsedFragments(k) = UsedFragments(h) \union {f},
         \A g \in UsedFragments(h) : Size(k, g) = Size(h, g),
         NEW amount \in Nat \ {0}, Size(k, f) >= amount + O1HEAP_ALIGNMENT,
         NEW b, Held(h, b)
  PROVE  Held(k, With(b, f + O1HEAP_ALIGNMENT, amount))
<1> DEFINE p == f + O1HEAP_ALIGNMENT
           c == With(b, p, amount)
<1>1. f \in UsedFragments(k) /\ f \notin UsedFragments(h) /\ O1HEAP_ALIGNMENT \in Nat
  BY Sizes DEF UsedFragments, FreeFragments
<1>2. /\ DOMAIN c = DOMAIN b \union {p} /\ c[p] = amount
      /\ \A q \in DOMAIN b : q # p => c[q] = b[q]
      /\ c = [q \in DOMAIN c |-> c[q]]
  BY DEF With
<1> HIDE DEF c
<1>3. DOMAIN c = Pointers(k)
  BY <1>2 DEF Held, Pointers
<1>4. Size(k, f) \in Nat
  <2>1. Raw(k) /\ Chain(k) /\ f \in DOMAIN k.fragments
    BY <1>1 DEF HeapInv, UsedFragments
  <2> QED BY <2>1, ChainBins
<1>5. ASSUME NEW g \in UsedFragments(k)
      PROVE  LET n == c[g + O1HEAP_ALIGNMENT]
             IN n \in Nat \ {0} /\ n + O1HEAP_ALIGNMENT <= Size(k, g)
  <2>1. CASE g = f
    BY <2>1, <1>1, <1>2, <1>4
  <2>2. CASE g # f
    <3>1. g \in UsedFragments(h) /\ Size(k, g) = Size(h, g)
      BY <2>2
    <3>2. g + O1HEAP_ALIGNMENT \in DOMAIN b
      BY <3>1, PointerFact DEF Held
    <3>3. g + O1HEAP_ALIGNMENT # p
      <4>1. g \in Nat /\ f \in Nat
        BY <1>1, PointerFact
      <4> QED BY <4>1, <2>2, <1>1
    <3>4. c[g + O1HEAP_ALIGNMENT] = b[g + O1HEAP_ALIGNMENT]
      BY <1>2, <3>2, <3>3
    <3> QED BY <3>1, <3>4 DEF Held
  <2> QED BY <2>1, <2>2
<1> QED BY <1>2, <1>3, <1>5 DEF Held, c

LEMMA HeldShrink ==
  ASSUME NEW h, HeapInv(h), NEW k, HeapInv(k), NEW f \in UsedFragments(h),
         UsedFragments(k) = UsedFragments(h) \ {f},
         \A g \in UsedFragments(k) : Size(k, g) = Size(h, g),
         NEW b, Held(h, b)
  PROVE  Held(k, Without(b, f + O1HEAP_ALIGNMENT))
<1> DEFINE p == f + O1HEAP_ALIGNMENT
           c == Without(b, p)
<1>1. /\ DOMAIN c = DOMAIN b \ {p} /\ \A q \in DOMAIN c : c[q] = b[q]
      /\ c = [q \in DOMAIN c |-> c[q]]
  BY DEF Without
<1> HIDE DEF c
<1>2. O1HEAP_ALIGNMENT \in Nat /\ f \in Nat
  BY Sizes, PointerFact
<1>3. ASSUME NEW g \in UsedFragments(k)
      PROVE  g + O1HEAP_ALIGNMENT \in DOMAIN c
  <2>1. g \in UsedFragments(h) /\ g # f /\ g \in Nat
    BY PointerFact
  <2> QED BY <2>1, <1>1, <1>2, PointerFact DEF Held
<1>4. DOMAIN c = Pointers(k)
  <2>1. ASSUME NEW q \in DOMAIN c PROVE q \in Pointers(k)
    <3>1. q \in Pointers(h) /\ q # p
      BY <1>1 DEF Held
    <3>2. PICK g \in UsedFragments(h) : q = g + O1HEAP_ALIGNMENT
      BY <3>1 DEF Pointers
    <3> QED BY <3>1, <3>2 DEF Pointers
  <2> QED BY <2>1, <1>3 DEF Pointers
<1>5. ASSUME NEW g \in UsedFragments(k)
      PROVE  LET n == c[g + O1HEAP_ALIGNMENT]
             IN n \in Nat \ {0} /\ n + O1HEAP_ALIGNMENT <= Size(k, g)
  <2>1. g \in UsedFragments(h) /\ Size(k, g) = Size(h, g)
    OBVIOUS
  <2>2. c[g + O1HEAP_ALIGNMENT] = b[g + O1HEAP_ALIGNMENT]
    BY <1>1, <1>3
  <2> QED BY <2>1, <2>2 DEF Held
<1> QED BY <1>1, <1>4, <1>5 DEF Held, c

(* Each call keeps the invariant.                                           *)
HeapHeld == HeapInv(heap) /\ Held(heap, blocks)

(* What Allocate does: it is refused, or a free fragment becomes the block. *)
Granted(amount, f) ==
  /\ UsedFragments(heap') = UsedFragments(heap) \union {f}
  /\ \A g \in UsedFragments(heap) : Size(heap', g) = Size(heap, g)
  /\ amount \in Nat \ {0} /\ Size(heap', f) >= amount + O1HEAP_ALIGNMENT
  /\ blocks' = With(blocks, f + O1HEAP_ALIGNMENT, amount)

LEMMA AllocateCase ==
  ASSUME HeapHeld, NEW amount \in Amounts, Allocate(amount)
  PROVE  /\ HeapInv(heap') /\ Held(heap', blocks')
         /\ \/ blocks' = blocks
            \/ \E f \in FreeFragments(heap) : Granted(amount, f)
<1> DEFINE new == o1heapAllocate(heap, amount)
<1>1. /\ amount \in Nat /\ heap' = new.heap /\ HeapInv(heap)
      /\ blocks' = IF new.out = NULL THEN blocks ELSE With(blocks, new.out, amount)
  BY SizesAssumption DEF Allocate, With, HeapHeld
<1>2. HeapInv(heap')
  BY <1>1, AllocatePreserves
<1>3. CASE Requestable(heap, amount) /\ SuitableBins(heap, amount) # {}
  <2>1. PICK f \in FreeFragments(heap) :
          /\ new.out = f + O1HEAP_ALIGNMENT
          /\ UsedFragments(new.heap) = UsedFragments(heap) \union {f}
          /\ Size(new.heap, f) = FragmentSize(amount)
          /\ \A g \in UsedFragments(heap) : Size(new.heap, g) = Size(heap, g)
    BY <1>1, <1>3, AllocateFact
  <2> HIDE DEF new
  <2>2. amount > 0 /\ amount <= Capacity - O1HEAP_ALIGNMENT
    BY <1>1, <1>3 DEF Requestable, HeapInv, Diagnosed, DiagnosticsType
  <2>3. FragmentSize(amount) >= amount + O1HEAP_ALIGNMENT
    BY <1>1, <2>2, FragmentSizeFact
  <2>4. new.out # NULL
    <3>1. f \in Nat /\ O1HEAP_ALIGNMENT \in Nat
      BY <1>1, Sizes DEF HeapInv, Raw, Address, FreeFragments
    <3> QED BY <3>1, <2>1 DEF NULL
  <2>5. Granted(amount, f)
    BY <1>1, <2>1, <2>2, <2>3, <2>4 DEF Granted
  <2>6. Held(heap', blocks')
    BY <1>1, <1>2, <2>5, HeldGrow DEF Granted, HeapHeld
  <2> QED BY <1>2, <2>5, <2>6
<1>4. CASE ~(Requestable(heap, amount) /\ SuitableBins(heap, amount) # {})
  <2>1. heap'.fragments = heap.fragments /\ new.out = NULL
    BY <1>1, <1>4, RefusedFact
  <2>2. blocks' = blocks
    BY <1>1, <2>1
  <2>3. Held(heap', blocks')
    BY <2>1, <2>2 DEF HeapHeld, Held, Pointers, UsedFragments, Size
  <2> QED BY <1>2, <2>2, <2>3
<1> QED BY <1>3, <1>4

LEMMA FreeCase ==
  ASSUME HeapHeld, NEW pointer \in DOMAIN blocks \union {NULL}, Free(pointer)
  PROVE  /\ HeapInv(heap') /\ Held(heap', blocks')
         /\ (blocks' = blocks /\ heap' = heap) \/ pointer \in DOMAIN blocks
<1>1. HeapInv(heap) /\ Held(heap, blocks) /\ DOMAIN blocks = Pointers(heap)
  BY DEF HeapHeld, Held
<1>2. CASE pointer = NULL
  <2>1. heap' = heap
    BY <1>2 DEF Free, o1heapFree
  <2>2. NULL \notin DOMAIN blocks
    BY <1>1, PointerFact DEF NULL
  <2>3. blocks' = [p \in DOMAIN blocks |-> blocks[p]]
    BY <1>2, <2>2 DEF Free
  <2>4. blocks' = blocks
    BY <2>3, <1>1 DEF Held
  <2> QED BY <2>1, <2>4, <1>1
<1>3. CASE pointer \in DOMAIN blocks
  <2>1. PICK f \in UsedFragments(heap) : pointer = f + O1HEAP_ALIGNMENT
    BY <1>1, <1>3 DEF Pointers
  <2>2. /\ HeapInv(heap') /\ UsedFragments(heap') = UsedFragments(heap) \ {f}
        /\ \A g \in UsedFragments(heap') : Size(heap', g) = Size(heap, g)
    BY <1>1, <2>1, FreePreserves DEF Free
  <2>3. blocks' = Without(blocks, f + O1HEAP_ALIGNMENT)
    BY <2>1 DEF Free, Without
  <2>4. Held(heap', blocks')
    BY <1>1, <2>2, <2>3, HeldShrink
  <2> QED BY <2>2, <2>4, <1>3
<1> QED BY <1>2, <1>3

LEMMA NextInv ==
  ASSUME HeapHeld, [Next]_heapVars
  PROVE  HeapInv(heap') /\ Held(heap', blocks')
<1>1. ASSUME UNCHANGED heapVars PROVE HeapInv(heap') /\ Held(heap', blocks')
  BY <1>1 DEF heapVars, HeapHeld
<1> QED BY <1>1, AllocateCase, FreeCase DEF Next

(* The invariant of every reachable heap.                                   *)
LEMMA AlwaysHeld == Spec => []HeapHeld
<1>1. Init => HeapHeld
  <2>1. SUFFICES ASSUME Init PROVE HeapHeld
    OBVIOUS
  <2>2. HeapInv(heap) /\ UsedFragments(heap) = {} /\ blocks = <<>>
    BY <2>1, InitFact DEF Init
  <2>3. Held(heap, blocks)
    <3>1. DOMAIN blocks = {} /\ blocks = [p \in {} |-> blocks[p]]
      BY <2>2
    <3> QED BY <2>2, <3>1 DEF Held, Pointers
  <2> QED BY <2>2, <2>3 DEF HeapHeld
<1>2. HeapHeld /\ [Next]_heapVars => HeapHeld'
  BY NextInv DEF HeapHeld
<1> QED BY <1>1, <1>2, PTL DEF Spec

THEOREM AlwaysHeapInv == Spec => []HeapInv(heap)
BY AlwaysHeld, PTL DEF HeapHeld

(* Whatever the calls made, every field of the heap keeps its range and     *)
(* every link is NULL or the offset of a fragment.                          *)
THEOREM TypeCorrect == Spec => []TypeOK
<1>1. ASSUME HeapInv(heap) PROVE TypeOK
  <2>1. Raw(heap) /\ Chain(heap) /\ InLists(heap, FreeFragments(heap))
    BY <1>1 DEF HeapInv
  <2>2. ASSUME NEW f \in DOMAIN heap.fragments
        PROVE  heap.fragments[f] \in FragmentType
    <3>1. heap.fragments[f] \in RawFragment
      BY <2>1 DEF Raw
    <3>2. heap.fragments[f].size \in 1 .. Capacity
      BY <2>1, ChainBins, CapacityFact DEF Size
    <3>3. heap.fragments[f].next \in Link0 /\ heap.fragments[f].prev \in Link0
      BY <2>1 DEF Chain, Neighbours, Raw, Link0
    <3>4. heap.fragments[f].next_free \in Link0 /\ heap.fragments[f].prev_free \in Link0
      BY <3>1 DEF RawFragment
    <3> QED BY <3>1, <3>2, <3>3, <3>4 DEF RawFragment, FragmentType
  <2>3. heap.bins \in [Bins -> Link0]
    BY <2>1 DEF InLists, Listed, Raw, Link0, FreeFragments
  <2> QED BY <1>1, <2>1, <2>2, <2>3 DEF TypeOK, Raw, HeapInv, Diagnosed
<1> QED BY <1>1, AlwaysHeapInv, PTL

(* Every fragment stays a whole number of smallest fragments, so a split    *)
(* that leaves anything leaves enough for a fragment header.                *)
LEMMA AlwaysWhole == Spec => []WholeFragments
<1>1. ASSUME HeapInv(heap), NEW f \in DOMAIN heap.fragments
      PROVE  \E k \in 1 .. Capacity : Size(heap, f) = k * FRAGMENT_SIZE_MIN
  <2>1. Raw(heap) /\ Chain(heap)
    BY <1>1 DEF HeapInv
  <2>2. Whole(Size(heap, f)) /\ Size(heap, f) \in Nat /\ f \in Nat
        /\ f + Size(heap, f) <= Capacity
    BY <2>1, ChainBins DEF Chain
  <2>3. /\ Units(Size(heap, f)) \in Nat \ {0}
        /\ Size(heap, f) = Units(Size(heap, f)) * FRAGMENT_SIZE_MIN
        /\ Units(Size(heap, f)) <= Size(heap, f)
    BY <2>2, UnitsOfWhole
  <2> QED BY <2>2, <2>3, CapacityFact
<1>2. HeapInv(heap) => WholeFragments
  BY <1>1 DEF WholeFragments
<1> QED BY <1>2, AlwaysHeapInv, PTL

(* After any calls the fragments, followed by address in either direction,  *)
(* cover the arena without a gap or an overlap, each a whole number of the  *)
(* smallest: a split and the two merges of o1heapFree keep both links and   *)
(* the sizes in step.                                                       *)
THEOREM AlwaysTiled == Spec => []Tiling
<1>1. HeapInv(heap) /\ WholeFragments => Tiling
  BY DEF HeapInv, Chain, Tiling
<1> QED BY <1>1, AlwaysHeapInv, AlwaysWhole, PTL

(* After any calls every free fragment is in the list of its size, linked   *)
(* both ways, and the mask names the lists that are not empty, so that      *)
(* o1heapAllocate never takes the head of an empty list.                    *)
THEOREM AlwaysListed == Spec => []FreeLists
<1>1. HeapInv(heap) => FreeLists
  BY DEF HeapInv, InLists, FreeLists
<1> QED BY <1>1, AlwaysHeapInv, PTL

(* Whatever the order of the frees, no two free fragments stay side by      *)
(* side: o1heapFree merges on both sides and o1heapAllocate leaves the      *)
(* remainder next to a used fragment.                                       *)
THEOREM AlwaysCoalesced == Spec => []Coalesced
<1>1. HeapInv(heap) => Coalesced
  BY DEF HeapInv, Coalesced
<1> QED BY <1>1, AlwaysHeapInv, PTL
-----------------------------------------------------------------------------
(* Bytes in a set of fragments.  The sum is the recursion of the community  *)
(* modules: take a member away, add its size.                               *)
Total(h, S) == MapThenSumSet(LAMBDA f : Size(h, f), S)

AnyOf(s) == CHOOSE x \in s : TRUE

(* t computes the sum of every set of D.                                    *)
Computes(h, t, D) ==
  t = [s \in D |-> IF s = {} THEN 0 ELSE Size(h, AnyOf(s)) + t[s \ {AnyOf(s)}]]

LEMMA TotalDef ==
  ASSUME NEW h, NEW S
  PROVE  Total(h, S) = (CHOOSE t : Computes(h, t, SUBSET S))[S]
BY DEF Total, MapThenSumSet, MapThenFoldSet, Computes, AnyOf

(* Among finite sets there is a smallest.                                   *)
LEMMA LeastSet ==
  ASSUME NEW B, B # {}, \A s \in B : IsFiniteSet(s)
  PROVE  \E s \in B : \A r \in B : ~(Cardinality(r) < Cardinality(s))
<1> DEFINE N == {Cardinality(s) : s \in B}
<1>1. \A s \in B : Cardinality(s) \in Nat
  BY FS_CardinalityType
<1>2. N \subseteq Nat /\ N # {}
  BY <1>1
<1>3. PICK n \in N : \A m \in N : n <= m
  BY <1>2, NatMin
<1>4. PICK s \in B : n = Cardinality(s)
  BY <1>3
<1>5. ASSUME NEW r \in B PROVE ~(Cardinality(r) < Cardinality(s))
  <2>1. Cardinality(r) \in N
    OBVIOUS
  <2> HIDE DEF N
  <2> QED BY <2>1, <1>1, <1>3, <1>4
<1> QED BY <1>5

(* A set of sets with fewer members than n.                                 *)
Small(S, n) == {s \in SUBSET S : Cardinality(s) < n}

LEMMA SmallLess ==
  ASSUME NEW S, IsFiniteSet(S), NEW s \in SUBSET S, s # {}
  PROVE  /\ AnyOf(s) \in s /\ s \ {AnyOf(s)} \in SUBSET S
         /\ Cardinality(s) \in Nat
         /\ Cardinality(s \ {AnyOf(s)}) = Cardinality(s) - 1
<1>1. AnyOf(s) \in s
  BY DEF AnyOf
<1>2. IsFiniteSet(s)
  BY FS_Subset
<1> QED BY <1>1, <1>2, FS_RemoveElement, FS_CardinalityType

(* The recursion defines a function: it can be followed down to sets of     *)
(* any cardinality.                                                         *)
LEMMA ComputesExists ==
  ASSUME NEW h, NEW S, IsFiniteSet(S)
  PROVE  \E t : Computes(h, t, SUBSET S)
<1> DEFINE Bad == {n \in Nat : ~ \E t : Computes(h, t, Small(S, n))}
<1>1. Bad = {}
  <2>1. SUFFICES ASSUME Bad # {} PROVE FALSE
    OBVIOUS
  <2>2. PICK n \in Bad : \A m \in Bad : n <= m
    BY <2>1, NatMin
  <2>3. n \in Nat /\ ~ \E t : Computes(h, t, Small(S, n))
    BY <2>2
  <2>4. n # 0
    <3>1. Small(S, 0) = {}
      BY FS_Subset, FS_CardinalityType DEF Small
    <3> DEFINE t == [s \in {} |-> 0]
    <3>2. t = [s \in {} |-> IF s = {} THEN 0 ELSE Size(h, AnyOf(s)) + t[s \ {AnyOf(s)}]]
      OBVIOUS
    <3>3. Computes(h, t, {})
      BY <3>2 DEF Computes
    <3> QED BY <2>3, <3>1, <3>3
  <2>5. PICK t : Computes(h, t, Small(S, n - 1))
    <3>1. n - 1 \in Nat /\ n - 1 \notin Bad
      BY <2>2, <2>3, <2>4
    <3> QED BY <3>1
  <2> DEFINE u == [s \in Small(S, n) |->
                     IF s = {} THEN 0 ELSE Size(h, AnyOf(s)) + t[s \ {AnyOf(s)}]]
  <2>6. ASSUME NEW s \in Small(S, n), s # {}
        PROVE  t[s \ {AnyOf(s)}] = u[s \ {AnyOf(s)}]
    <3> DEFINE r == s \ {AnyOf(s)}
    <3>1. r \in Small(S, n - 1) /\ r \in Small(S, n)
      BY <2>3, <2>6, SmallLess DEF Small
    <3> HIDE DEF r
    <3>2. t[r] = IF r = {} THEN 0 ELSE Size(h, AnyOf(r)) + t[r \ {AnyOf(r)}]
      BY <2>5, <3>1 DEF Computes
    <3>3. t[r] = u[r]
      BY <3>1, <3>2
    <3> QED BY <3>3 DEF r
  <2>7. u = [s \in Small(S, n) |->
               IF s = {} THEN 0 ELSE Size(h, AnyOf(s)) + u[s \ {AnyOf(s)}]]
    BY <2>6
  <2>8. Computes(h, u, Small(S, n))
    BY <2>7 DEF Computes
  <2> QED BY <2>3, <2>8
<1>2. Cardinality(S) + 1 \in Nat
  BY FS_CardinalityType
<1>3. Small(S, Cardinality(S) + 1) = SUBSET S
  <2>1. ASSUME NEW s \in SUBSET S PROVE Cardinality(s) < Cardinality(S) + 1
    BY FS_Subset, FS_CardinalityType
  <2> QED BY <2>1 DEF Small
<1>4. Cardinality(S) + 1 \notin Bad
  BY <1>1
<1> QED BY <1>2, <1>3, <1>4

Summed(h, t, S) == Computes(h, t, SUBSET S)

(* Two computations agree on the sets both know.                            *)
LEMMA ComputesUnique ==
  ASSUME NEW h, NEW S, IsFiniteSet(S), NEW t, Summed(h, t, S),
         NEW T, IsFiniteSet(T), NEW u, Summed(h, u, T)
  PROVE  \A s \in SUBSET S : s \in SUBSET T => t[s] = u[s]
<1> DEFINE Bad == {s \in SUBSET (S \cap T) : t[s] # u[s]}
<1>1. SUFFICES ASSUME Bad # {} PROVE FALSE
  OBVIOUS
<1>2. \A s \in Bad : IsFiniteSet(s)
  BY FS_Subset
<1>3. PICK s \in Bad : \A r \in Bad : ~(Cardinality(r) < Cardinality(s))
  <2> HIDE DEF Bad
  <2> QED BY <1>1, <1>2, LeastSet
<1>4. /\ t[s] = IF s = {} THEN 0 ELSE Size(h, AnyOf(s)) + t[s \ {AnyOf(s)}]
      /\ u[s] = IF s = {} THEN 0 ELSE Size(h, AnyOf(s)) + u[s \ {AnyOf(s)}]
  BY DEF Summed, Computes
<1>5. s # {} /\ s \in SUBSET (S \cap T) /\ IsFiniteSet(S \cap T)
  BY <1>4, FS_Subset
<1>6. /\ s \ {AnyOf(s)} \in SUBSET (S \cap T)
      /\ Cardinality(s) \in Nat
      /\ Cardinality(s \ {AnyOf(s)}) = Cardinality(s) - 1
  BY <1>5, SmallLess
<1>7. s \ {AnyOf(s)} \in Bad
  BY <1>4, <1>5, <1>6
<1> HIDE DEF Bad
<1> QED BY <1>3, <1>6, <1>7

LEMMA TotalComputed ==
  ASSUME NEW h, NEW S, IsFiniteSet(S)
  PROVE  \E t : Summed(h, t, S) /\ Total(h, S) = t[S]
<1> DEFINE t == CHOOSE x : Summed(h, x, S)
<1>1. Summed(h, t, S)
  BY ComputesExists DEF Summed
<1>2. Total(h, S) = t[S]
  BY TotalDef DEF Summed
<1> QED BY <1>1, <1>2

(* The recursion, on the sum itself.                                        *)
LEMMA TotalStep ==
  ASSUME NEW h, NEW S, IsFiniteSet(S)
  PROVE  Total(h, S) = IF S = {} THEN 0
                       ELSE Size(h, AnyOf(S)) + Total(h, S \ {AnyOf(S)})
<1>1. PICK T : T = S \ {AnyOf(S)}
  OBVIOUS
<1>2. IsFiniteSet(T) /\ T \in SUBSET S /\ T \in SUBSET T
  BY <1>1, FS_RemoveElement
<1>3. PICK t : Summed(h, t, S) /\ Total(h, S) = t[S]
  BY TotalComputed
<1>4. PICK u : Summed(h, u, T) /\ Total(h, T) = u[T]
  BY <1>2, TotalComputed
<1>5. t[T] = u[T]
  BY <1>2, <1>3, <1>4, ComputesUnique
<1>6. t[S] = IF S = {} THEN 0 ELSE Size(h, AnyOf(S)) + t[S \ {AnyOf(S)}]
  BY <1>3 DEF Summed, Computes
<1> QED BY <1>1, <1>3, <1>4, <1>5, <1>6

Removable(h, S) == \A x \in S : Total(h, S) = Size(h, x) + Total(h, S \ {x})

(* Any member may be taken out.                                             *)
LEMMA TotalRemove ==
  ASSUME NEW h, NEW D, IsFiniteSet(D), \A f \in D : Size(h, f) \in Nat
  PROVE  /\ Total(h, {}) = 0
         /\ \A S \in SUBSET D : Total(h, S) \in Nat
         /\ \A S \in SUBSET D : \A x \in S :
              Total(h, S) = Size(h, x) + Total(h, S \ {x})
<1>0. Total(h, {}) = 0
  BY FS_EmptySet, TotalStep
<1>1. \A S \in SUBSET D : IsFiniteSet(S)
  BY FS_Subset
<1>2. \A S \in SUBSET D : S # {} =>
        /\ AnyOf(S) \in S /\ S \ {AnyOf(S)} \in SUBSET D
        /\ Cardinality(S \ {AnyOf(S)}) < Cardinality(S)
        /\ Size(h, AnyOf(S)) \in Nat
        /\ Total(h, S) = Size(h, AnyOf(S)) + Total(h, S \ {AnyOf(S)})
  <2>1. ASSUME NEW S \in SUBSET D, S # {}
        PROVE  /\ AnyOf(S) \in S /\ S \ {AnyOf(S)} \in SUBSET D
               /\ Cardinality(S \ {AnyOf(S)}) < Cardinality(S)
    BY <2>1, SmallLess
  <2>2. ASSUME NEW S \in SUBSET D, S # {}
        PROVE  Total(h, S) = Size(h, AnyOf(S)) + Total(h, S \ {AnyOf(S)})
    BY <2>2, <1>1, TotalStep
  <2> QED BY <2>1, <2>2
<1>3. \A S \in SUBSET D : Total(h, S) \in Nat
  <2> DEFINE Bad == {S \in SUBSET D : Total(h, S) \notin Nat}
  <2>1. SUFFICES ASSUME Bad # {} PROVE FALSE
    OBVIOUS
  <2>2. \A S \in Bad : IsFiniteSet(S)
    BY <1>1
  <2>3. PICK S \in Bad : \A r \in Bad : ~(Cardinality(r) < Cardinality(S))
    <3> HIDE DEF Bad
    <3> QED BY <2>1, <2>2, LeastSet
  <2>4. S \in SUBSET D /\ S # {} /\ Total(h, S) \notin Nat
    BY <1>0
  <2>5. S \ {AnyOf(S)} \notin Bad
    BY <1>2, <2>3, <2>4
  <2>6. Total(h, S \ {AnyOf(S)}) \in Nat
    BY <1>2, <2>4, <2>5
  <2> QED BY <1>2, <2>4, <2>6
<1>4. \A S \in SUBSET D : Removable(h, S)
  <2> DEFINE Bad == {S \in SUBSET D : ~Removable(h, S)}
  <2>1. SUFFICES ASSUME Bad # {} PROVE FALSE
    OBVIOUS
  <2>2. \A S \in Bad : IsFiniteSet(S)
    BY <1>1
  <2>3. PICK S \in Bad : \A r \in Bad : ~(Cardinality(r) < Cardinality(S))
    <3> HIDE DEF Bad
    <3> QED BY <2>1, <2>2, LeastSet
  <2>4. S \in SUBSET D /\ ~Removable(h, S)
    OBVIOUS
  <2>5. PICK x \in S : Total(h, S) # Size(h, x) + Total(h, S \ {x})
    BY <2>4 DEF Removable
  <2> DEFINE a == AnyOf(S)
             R == S \ {a}
  <2>6. /\ S # {} /\ a \in S /\ R \in SUBSET D /\ x \in D /\ S \ {x} \in SUBSET D
        /\ Cardinality(R) < Cardinality(S)
        /\ Total(h, S) = Size(h, a) + Total(h, R)
    BY <1>2, <2>4, <2>5
  <2>7. x # a
    BY <2>5, <2>6
  <2>8. R \notin Bad
    BY <2>3, <2>6
  <2>9. Total(h, R) = Size(h, x) + Total(h, R \ {x})
    BY <2>6, <2>7, <2>8 DEF Removable
  <2> DEFINE Q == S \ {x}
  <2>10. Q # {} /\ Q \in SUBSET D /\ a \in Q /\ Cardinality(Q) < Cardinality(S)
    <3>1. IsFiniteSet(S)
      BY <1>1, <2>4
    <3>2. Cardinality(Q) = Cardinality(S) - 1 /\ Cardinality(S) \in Nat
      BY <3>1, FS_RemoveElement, FS_CardinalityType
    <3> QED BY <3>2, <2>6, <2>7
  <2>11. Q \notin Bad
    BY <2>3, <2>10
  <2>12. Total(h, Q) = Size(h, a) + Total(h, Q \ {a})
    BY <2>10, <2>11 DEF Removable
  <2>13. Q \ {a} = R \ {x} /\ R \ {x} \in SUBSET D
    OBVIOUS
  <2>14. Total(h, R \ {x}) \in Nat /\ Size(h, a) \in Nat /\ Size(h, x) \in Nat
    BY <1>3, <2>6, <2>13
  <2> HIDE DEF Q, R, a, Bad
  <2>15. Total(h, Q \ {a}) = Total(h, R \ {x})
    BY <2>13
  <2>16. Total(h, S) = Size(h, x) + Total(h, Q)
    BY <2>6, <2>9, <2>12, <2>14, <2>15
  <2> QED BY <2>5, <2>16 DEF Q
<1> QED BY <1>0, <1>3, <1>4 DEF Removable

LEMMA TotalTake ==
  ASSUME NEW h, NEW S, IsFiniteSet(S), \A f \in S : Size(h, f) \in Nat, NEW x \in S
  PROVE  Total(h, S) = Size(h, x) + Total(h, S \ {x})
<1>1. S \in SUBSET S
  OBVIOUS
<1> QED BY <1>1, TotalRemove

(* The sum depends on the sizes of the members alone.                       *)
LEMMA TotalSame ==
  ASSUME NEW h, NEW k, NEW D, IsFiniteSet(D),
         \A f \in D : Size(h, f) \in Nat /\ Size(k, f) = Size(h, f)
  PROVE  Total(k, D) = Total(h, D)
<1> DEFINE Bad == {S \in SUBSET D : Total(k, S) # Total(h, S)}
<1>1. SUFFICES ASSUME Bad # {} PROVE FALSE
  OBVIOUS
<1>2. \A S \in Bad : IsFiniteSet(S)
  BY FS_Subset
<1>3. PICK S \in Bad : \A r \in Bad : ~(Cardinality(r) < Cardinality(S))
  <2> HIDE DEF Bad
  <2> QED BY <1>1, <1>2, LeastSet
<1>4. S \in SUBSET D /\ Total(k, S) # Total(h, S)
  OBVIOUS
<1>5. S # {}
  BY <1>4, FS_EmptySet, TotalStep
<1>6. PICK x : x \in S
  BY <1>5
<1>7. S \ {x} \in Bad \/ Total(k, S \ {x}) = Total(h, S \ {x})
  BY <1>4
<1> HIDE DEF Bad
<1>8. IsFiniteSet(S) /\ \A f \in S : Size(h, f) \in Nat /\ Size(k, f) = Size(h, f)
  BY <1>2, <1>4
<1>9. /\ Total(h, S) = Size(h, x) + Total(h, S \ {x})
      /\ Total(k, S) = Size(k, x) + Total(k, S \ {x})
  <2>1. \A f \in S : Size(h, f) \in Nat
    BY <1>8
  <2>2. \A f \in S : Size(k, f) \in Nat
    BY <1>8
  <2> QED BY <2>1, <2>2, <1>6, <1>8, TotalTake
<1>10. Cardinality(S \ {x}) < Cardinality(S)
  <2>1. Cardinality(S) \in Nat
    BY <1>8, FS_CardinalityType
  <2>2. Cardinality(S \ {x}) = Cardinality(S) - 1
    BY <1>6, <1>8, FS_RemoveElement
  <2> QED BY <2>1, <2>2
<1>11. Total(k, S \ {x}) = Total(h, S \ {x}) /\ Size(k, x) = Size(h, x)
  BY <1>3, <1>6, <1>7, <1>8, <1>10
<1> QED BY <1>4, <1>9, <1>11

(* A sum of whole sizes is whole.                                           *)
LEMMA TotalWhole ==
  ASSUME NEW h, NEW D, IsFiniteSet(D), \A f \in D : Whole(Size(h, f))
  PROVE  \E j \in Nat : Total(h, D) = j * FRAGMENT_SIZE_MIN
<1> DEFINE Holds(S) == \E j \in Nat : Total(h, S) = j * FRAGMENT_SIZE_MIN
           Bad == {S \in SUBSET D : ~Holds(S)}
<1>1. SUFFICES ASSUME Bad # {} PROVE FALSE
  OBVIOUS
<1>2. PICK S \in Bad : \A r \in Bad : ~(Cardinality(r) < Cardinality(S))
  <2>1. \A S \in Bad : IsFiniteSet(S)
    BY FS_Subset
  <2> HIDE DEF Bad
  <2> QED BY <1>1, <2>1, LeastSet
<1>3. S \in SUBSET D /\ ~Holds(S) /\ IsFiniteSet(S)
  BY FS_Subset
<1>4. S # {}
  <2>1. Total(h, {}) = 0
    BY FS_EmptySet, TotalStep
  <2>2. 0 = 0 * FRAGMENT_SIZE_MIN
    BY Sizes
  <2> QED BY <2>1, <2>2, <1>3
<1>5. PICK x : x \in S
  BY <1>4
<1>6. S \ {x} \in Bad \/ Holds(S \ {x})
  BY <1>3
<1> HIDE DEF Bad
<1>7. Cardinality(S \ {x}) < Cardinality(S)
  <2>1. Cardinality(S) \in Nat
    BY <1>3, FS_CardinalityType
  <2>2. Cardinality(S \ {x}) = Cardinality(S) - 1
    BY <1>3, <1>5, FS_RemoveElement
  <2> QED BY <2>1, <2>2
<1>8. PICK j \in Nat : Total(h, S \ {x}) = j * FRAGMENT_SIZE_MIN
  BY <1>2, <1>6, <1>7
<1>9. PICK i \in Nat \ {0} : Size(h, x) = i * FRAGMENT_SIZE_MIN
  BY <1>3, <1>5 DEF Whole
<1>10. Total(h, S) = Size(h, x) + Total(h, S \ {x})
  <2>1. \A f \in S : Size(h, f) \in Nat
    BY <1>3, UnitsOfWhole
  <2> QED BY <2>1, <1>3, <1>5, TotalTake
<1>11. i * FRAGMENT_SIZE_MIN + j * FRAGMENT_SIZE_MIN = (i + j) * FRAGMENT_SIZE_MIN
  BY Sizes, MultDiff
<1>12. i + j \in Nat /\ Total(h, S) = (i + j) * FRAGMENT_SIZE_MIN
  BY <1>8, <1>9, <1>10, <1>11
<1> QED BY <1>3, <1>12

LEMMA FragmentsFinite ==
  ASSUME NEW h, Raw(h)
  PROVE  \A S \in SUBSET DOMAIN h.fragments : IsFiniteSet(S)
<1>1. IsFiniteSet(Address)
  <2>1. 0 \in Int /\ Capacity - 1 \in Int
    BY CapacityFact
  <2> QED BY <2>1, FS_Interval DEF Address
<1>2. DOMAIN h.fragments \subseteq Address
  BY DEF Raw
<1> QED BY <1>1, <1>2, FS_Subset

(* Fragments that do not overlap take no more room than they span: the last *)
(* of them begins where the others have ended.                              *)
LEMMA TotalFits ==
  ASSUME NEW h, Raw(h), Chain(h)
  PROVE  \A S \in SUBSET DOMAIN h.fragments : \A n \in Nat :
           (\A f \in S : f + Size(h, f) <= n) => Total(h, S) <= n
<1> DEFINE D == DOMAIN h.fragments
           Fits(S) == \A n \in Nat : (\A f \in S : f + Size(h, f) <= n) => Total(h, S) <= n
           Bad == {S \in SUBSET D : ~Fits(S)}
<1>1. IsFiniteSet(D) /\ \A f \in D : f \in Nat /\ Size(h, f) \in Nat /\ f < Capacity
  <2>1. IsFiniteSet(D)
    BY FragmentsFinite
  <2>2. \A f \in D : f \in Nat /\ f < Capacity
    BY CapacityFact DEF Raw, Address
  <2> QED BY <2>1, <2>2, ChainBins
<1>2. SUFFICES ASSUME Bad # {} PROVE FALSE
  OBVIOUS
<1>3. PICK S \in Bad : \A r \in Bad : ~(Cardinality(r) < Cardinality(S))
  <2>1. \A S \in Bad : IsFiniteSet(S)
    BY <1>1, FS_Subset
  <2> HIDE DEF Bad
  <2> QED BY <1>2, <2>1, LeastSet
<1>4. S \in SUBSET D /\ ~Fits(S) /\ IsFiniteSet(S)
  BY <1>1, FS_Subset
<1>5. PICK n \in Nat : (\A f \in S : f + Size(h, f) <= n) /\ ~(Total(h, S) <= n)
  BY <1>4
<1>6. S # {}
  <2>1. Total(h, {}) = 0
    BY FS_EmptySet, TotalStep
  <2> QED BY <2>1, <1>5
<1>7. PICK m \in S : \A f \in S : f <= m
  <2> DEFINE N == {Capacity - f : f \in S}
  <2>1. N \subseteq Nat /\ N # {}
    BY <1>1, <1>4, <1>6, CapacityFact
  <2>2. PICK c \in N : \A e \in N : c <= e
    BY <2>1, NatMin
  <2>3. PICK m \in S : c = Capacity - m
    BY <2>2
  <2>4. ASSUME NEW f \in S PROVE f <= m
    <3>1. Capacity - f \in N
      OBVIOUS
    <3>2. c <= Capacity - f
      BY <2>2, <3>1
    <3>3. f \in Nat /\ m \in Nat /\ Capacity \in Nat
      BY <1>1, <1>4, CapacityFact
    <3> QED BY <2>3, <3>2, <3>3
  <2> QED BY <2>4
<1> DEFINE R == S \ {m}
<1>8. R \in Bad \/ Fits(R)
  BY <1>4
<1> HIDE DEF Bad
<1>9. Cardinality(R) < Cardinality(S)
  <2>1. Cardinality(S) \in Nat
    BY <1>4, FS_CardinalityType
  <2>2. Cardinality(R) = Cardinality(S) - 1
    BY <1>4, FS_RemoveElement
  <2> QED BY <2>1, <2>2
<1>10. Fits(R)
  BY <1>3, <1>8, <1>9
<1>11. \A f \in R : f + Size(h, f) <= m
  <2>1. SUFFICES ASSUME NEW f \in R PROVE f + Size(h, f) <= m
    OBVIOUS
  <2>2. f \in D /\ m \in D /\ f <= m /\ f # m
    BY <1>4, <1>7
  <2> QED BY <2>2, <1>1 DEF Chain, Disjoint
<1>12. m \in Nat /\ Size(h, m) \in Nat /\ m + Size(h, m) <= n
  BY <1>1, <1>4, <1>5
<1>13. Total(h, R) <= m
  BY <1>10, <1>11, <1>12
<1>14. Total(h, S) = Size(h, m) + Total(h, R) /\ Total(h, R) \in Nat
  <2>1. \A f \in S : Size(h, f) \in Nat
    BY <1>1, <1>4
  <2>2. R \in SUBSET S
    OBVIOUS
  <2> QED BY <2>1, <2>2, <1>4, TotalTake, TotalRemove
<1> HIDE DEF R, Fits
<1> QED BY <1>5, <1>12, <1>13, <1>14

(* The bytes in use.                                                        *)
LEMMA UsedTotal ==
  ASSUME NEW h, HeapInv(h)
  PROVE  LET U == UsedFragments(h) IN
         /\ IsFiniteSet(U) /\ \A f \in U : Size(h, f) \in Nat
         /\ Total(h, U) \in Nat /\ Total(h, U) <= Capacity
         /\ \E j \in Nat : Total(h, U) = j * FRAGMENT_SIZE_MIN
<1> DEFINE U == UsedFragments(h)
<1>1. Raw(h) /\ Chain(h) /\ U \in SUBSET DOMAIN h.fragments
  BY DEF HeapInv, UsedFragments
<1>2. IsFiniteSet(U)
  BY <1>1, FragmentsFinite
<1>3. \A f \in U : Size(h, f) \in Nat /\ Whole(Size(h, f)) /\ f + Size(h, f) <= Capacity
  BY <1>1, ChainBins DEF Chain
<1> HIDE DEF U
<1>4. Total(h, U) <= Capacity
  BY <1>1, <1>3, TotalFits, CapacityFact
<1>5. \E j \in Nat : Total(h, U) = j * FRAGMENT_SIZE_MIN
  BY <1>2, <1>3, TotalWhole
<1>6. Total(h, U) \in Nat
  BY <1>5, Sizes
<1> QED BY <1>2, <1>3, <1>4, <1>5, <1>6 DEF U
(* What the diagnostics count: the bytes in use; a peak they have not       *)
(* passed; and a request that is remembered was met, and lifted the peak,   *)
(* unless one has failed.                                                   *)
Counted(h) ==
  LET d == h.diagnostics
  IN /\ d.allocated = Total(h, UsedFragments(h))
     /\ \E j \in Nat : d.peak_allocated = j * FRAGMENT_SIZE_MIN
     /\ d.allocated <= d.peak_allocated /\ d.peak_allocated <= Capacity
     /\ d.peak_request_size < Capacity \/ d.oom_count > 0
     /\ \/ d.peak_request_size = 0 /\ d.peak_allocated = 0 /\ d.oom_count = 0
        \/ /\ d.peak_request_size > 0
           /\ \/ d.peak_request_size + O1HEAP_ALIGNMENT <= d.peak_allocated
              \/ d.oom_count > 0

LEMMA CountedUsed ==
  ASSUME NEW h, NEW k, HeapInv(h), HeapInv(k),
         NEW f \in UsedFragments(k), UsedFragments(h) = UsedFragments(k) \ {f},
         \A g \in UsedFragments(h) : Size(k, g) = Size(h, g)
  PROVE  Total(k, UsedFragments(k)) = Size(k, f) + Total(h, UsedFragments(h))
<1>1. Total(k, UsedFragments(k)) = Size(k, f) + Total(k, UsedFragments(k) \ {f})
  BY UsedTotal, TotalTake
<1>2. Total(k, UsedFragments(h)) = Total(h, UsedFragments(h))
  <2>1. IsFiniteSet(UsedFragments(h))
        /\ \A g \in UsedFragments(h) : Size(h, g) \in Nat /\ Size(k, g) = Size(h, g)
    BY UsedTotal
  <2> QED BY <2>1, TotalSame
<1> QED BY <1>1, <1>2

(* A block taken, as the diagnostics see it.                                *)
LEMMA CarveCounted ==
  ASSUME NEW h, HeapInv(h), Counted(h), NEW amount \in Nat,
         Requestable(h, amount), SuitableBins(h, amount) # {}
  PROVE  Counted(o1heapAllocate(h, amount).heap)
<1> DEFINE i == Smallest(SuitableBins(h, amount))
           f == h.bins[i]
           size == FragmentSize(amount)
           left == Carve(h, f, size)
           e == Account(h.diagnostics, size)
           d == CountRequest(e, amount, FALSE)
           k == o1heapAllocate(h, amount).heap
           U == UsedFragments(h)
<1>1. k = [left EXCEPT !.diagnostics = CountRequest(left.diagnostics, amount, FALSE)]
  BY DEF o1heapAllocate
<1>2. f \in FreeFragments(h) /\ Whole(size) /\ size <= Size(h, f)
  BY ChosenFits
<1>3. amount > 0 /\ amount < Capacity /\ size >= amount + O1HEAP_ALIGNMENT
  <2>1. amount > 0 /\ amount <= Capacity - O1HEAP_ALIGNMENT
    BY DEF Requestable, HeapInv, Diagnosed, DiagnosticsType
  <2> QED BY <2>1, FragmentSizeFact, CapacityFact, Sizes
<1> HIDE DEF f, size
<1>4. /\ HeapInv(left) /\ left.diagnostics = e
      /\ UsedFragments(left) = U \union {f} /\ Size(left, f) = size
      /\ \A g \in U : Size(left, g) = Size(h, g)
  BY <1>2, CarvePreserves
<1>5. Total(left, UsedFragments(left)) = size + Total(h, U)
  <2>1. f \in UsedFragments(left) /\ U = UsedFragments(left) \ {f}
    BY <1>2, <1>4 DEF FreeFragments, UsedFragments
  <2> QED BY <2>1, <1>4, CountedUsed, ZenonT(60)
<1> HIDE DEF left
<1>6. k.fragments = left.fragments /\ k.diagnostics = d
  BY <1>1, <1>4, DiagnosticsFact DEF HeapInv
<1> HIDE DEF k
<1>7. UsedFragments(k) = UsedFragments(left) /\ \A g : Size(k, g) = Size(left, g)
  BY <1>6 DEF UsedFragments, Size
<1>8. Total(k, UsedFragments(k)) = Total(left, UsedFragments(left))
  <2>1. IsFiniteSet(UsedFragments(left))
        /\ \A g \in UsedFragments(left) : Size(left, g) \in Nat /\ Size(k, g) = Size(left, g)
    BY <1>4, <1>7, UsedTotal
  <2> QED BY <2>1, <1>7, TotalSame
<1> DEFINE now == h.diagnostics.allocated + size
<1>9. /\ d.allocated = now
      /\ d.peak_allocated = MaxOf(h.diagnostics.peak_allocated, now)
      /\ d.peak_request_size = MaxOf(h.diagnostics.peak_request_size, amount)
      /\ d.oom_count = h.diagnostics.oom_count
  <2>1. h.diagnostics \in DiagnosticsType
    BY DEF HeapInv, Diagnosed
  <2>2. /\ e.allocated = now
        /\ e.peak_allocated = MaxOf(h.diagnostics.peak_allocated, now)
        /\ e.peak_request_size = h.diagnostics.peak_request_size
        /\ e.oom_count = h.diagnostics.oom_count
        /\ e \in DiagnosticsType
    <3>1. size \in Int
      BY <1>2, UnitsOfWhole
    <3>2. e \in DiagnosticsType
      BY <2>1, <3>1, AccountFact
    <3> QED BY <2>1, <3>2 DEF Account, DiagnosticsType
  <2> HIDE DEF e
  <2> QED BY <2>2 DEF CountRequest, DiagnosticsType
<1>10. now = Total(left, UsedFragments(left))
  <2>1. h.diagnostics.allocated = Total(h, U)
    BY DEF Counted
  <2>2. Total(h, U) \in Nat /\ size \in Nat
    BY <1>2, UsedTotal, UnitsOfWhole
  <2> QED BY <2>1, <2>2, <1>5
<1>11. now \in Nat /\ now <= Capacity /\ \E j \in Nat : now = j * FRAGMENT_SIZE_MIN
  BY <1>4, <1>10, UsedTotal
<1>12. h.diagnostics.allocated \in Nat
  BY UsedTotal DEF Counted
<1>13. h.diagnostics.peak_request_size \in Nat /\ h.diagnostics.oom_count \in Nat
       /\ h.diagnostics.peak_allocated \in Int /\ Capacity \in Nat
       /\ O1HEAP_ALIGNMENT \in Nat /\ size \in Nat
  BY <1>2, UnitsOfWhole, Sizes, CapacityFact DEF HeapInv, Diagnosed, DiagnosticsType
<1>14. now >= size
  BY <1>12, <1>13
<1> HIDE DEF now, d, e
<1>15. d.allocated = Total(k, UsedFragments(k))
  BY <1>8, <1>9, <1>10
<1>16. /\ \E j \in Nat : d.peak_allocated = j * FRAGMENT_SIZE_MIN
       /\ d.peak_allocated <= Capacity
  BY <1>9, <1>11 DEF Counted, MaxOf
<1>17. /\ d.allocated <= d.peak_allocated
       /\ d.peak_request_size < Capacity \/ d.oom_count > 0
       /\ d.peak_request_size > 0
       /\ \/ d.peak_request_size + O1HEAP_ALIGNMENT <= d.peak_allocated
          \/ d.oom_count > 0
  BY <1>3, <1>9, <1>11, <1>13, <1>14 DEF Counted, MaxOf
<1> QED BY <1>6, <1>15, <1>16, <1>17 DEF Counted, k

(* A request refused, or of nothing.                                        *)
LEMMA RefusedCounted ==
  ASSUME NEW h, HeapInv(h), Counted(h), NEW amount \in Nat,
         ~(Requestable(h, amount) /\ SuitableBins(h, amount) # {})
  PROVE  Counted(o1heapAllocate(h, amount).heap)
<1> DEFINE d == CountRequest(h.diagnostics, amount, TRUE)
           k == o1heapAllocate(h, amount).heap
<1>1. k = [h EXCEPT !.diagnostics = d]
  BY DEF o1heapAllocate
<1>2. k.fragments = h.fragments /\ k.diagnostics = d
  <2> HIDE DEF d, k
  <2> QED BY <1>1, DiagnosticsFact DEF HeapInv
<1> HIDE DEF k
<1>3. UsedFragments(k) = UsedFragments(h) /\ \A g : Size(k, g) = Size(h, g)
  BY <1>2 DEF UsedFragments, Size
<1>4. Total(k, UsedFragments(k)) = Total(h, UsedFragments(h))
  <2>1. IsFiniteSet(UsedFragments(h))
        /\ \A g \in UsedFragments(h) : Size(h, g) \in Nat /\ Size(k, g) = Size(h, g)
    BY <1>3, UsedTotal
  <2> QED BY <2>1, <1>3, TotalSame
<1>5. h.diagnostics \in DiagnosticsType
  BY DEF HeapInv, Diagnosed
<1>6. /\ d.allocated = h.diagnostics.allocated
      /\ d.peak_allocated = h.diagnostics.peak_allocated
      /\ d.peak_request_size = MaxOf(h.diagnostics.peak_request_size, amount)
      /\ d.oom_count = IF amount > 0 THEN h.diagnostics.oom_count + 1
                       ELSE h.diagnostics.oom_count
  BY <1>5 DEF CountRequest, DiagnosticsType
<1>7. h.diagnostics.peak_request_size \in Nat /\ h.diagnostics.oom_count \in Nat
  BY <1>5 DEF DiagnosticsType
<1> HIDE DEF d
<1>8. CASE amount = 0
  <2>1. d.peak_request_size = h.diagnostics.peak_request_size
        /\ d.oom_count = h.diagnostics.oom_count
    BY <1>6, <1>7, <1>8 DEF MaxOf
  <2> QED BY <2>1, <1>2, <1>4, <1>6 DEF Counted, k
<1>9. CASE amount > 0
  <2>1. d.peak_request_size > 0 /\ d.oom_count > 0
    BY <1>6, <1>7, <1>9 DEF MaxOf
  <2> QED BY <2>1, <1>2, <1>4, <1>6 DEF Counted, k
<1> QED BY <1>8, <1>9

(* A block given back.                                                      *)
LEMMA FreeCounted ==
  ASSUME NEW h, HeapInv(h), Counted(h), NEW f \in UsedFragments(h)
  PROVE  Counted(o1heapFree(h, f + O1HEAP_ALIGNMENT))
<1> DEFINE k == o1heapFree(h, f + O1HEAP_ALIGNMENT)
           d == Unaccount(h.diagnostics, Size(h, f))
<1>1. /\ HeapInv(k) /\ k.diagnostics = d
      /\ UsedFragments(k) = UsedFragments(h) \ {f}
      /\ \A g \in UsedFragments(k) : Size(k, g) = Size(h, g)
  BY FreePreserves
<1> HIDE DEF k
<1>2. Total(h, UsedFragments(h)) = Size(h, f) + Total(k, UsedFragments(k))
  <2>1. HeapInv(k) /\ UsedFragments(k) = UsedFragments(h) \ {f}
    BY <1>1
  <2>2. \A g \in UsedFragments(k) : Size(h, g) = Size(k, g)
    BY <1>1
  <2> QED BY <2>1, <2>2, CountedUsed
<1>3. /\ d.allocated = h.diagnostics.allocated - Size(h, f)
      /\ d.peak_allocated = h.diagnostics.peak_allocated
      /\ d.peak_request_size = h.diagnostics.peak_request_size
      /\ d.oom_count = h.diagnostics.oom_count
      /\ h.diagnostics.peak_allocated \in Int
  BY DEF Unaccount, DiagnosticsType, HeapInv, Diagnosed
<1> HIDE DEF d
<1>4. Size(h, f) \in Nat /\ Total(k, UsedFragments(k)) \in Nat
  BY <1>1, UsedTotal
<1>5. d.allocated = Total(k, UsedFragments(k)) /\ d.allocated <= h.diagnostics.allocated
  BY <1>2, <1>3, <1>4 DEF Counted
<1>6. d.allocated <= d.peak_allocated
  BY <1>2, <1>3, <1>4, <1>5 DEF Counted
<1> QED BY <1>1, <1>3, <1>5, <1>6 DEF Counted, k

LEMMA InitCounted == Counted(o1heapInit)
<1> DEFINE h == o1heapInit
<1>1. h.diagnostics = [capacity |-> Capacity, allocated |-> 0, peak_allocated |-> 0,
                       peak_request_size |-> 0, oom_count |-> 0]
  BY DEF o1heapInit, rebin
<1>2. UsedFragments(h) = {}
  BY InitFact
<1>3. Total(h, {}) = 0
  BY FS_EmptySet, TotalStep
<1>4. 0 = 0 * FRAGMENT_SIZE_MIN /\ Capacity \in Nat \ {0}
  BY Sizes, CapacityFact
<1> HIDE DEF h
<1> QED BY <1>1, <1>2, <1>3, <1>4 DEF Counted, h

LEMMA AlwaysCounted == Spec => [](HeapInv(heap) /\ Counted(heap))
<1>1. Init => Counted(heap)
  BY InitCounted DEF Init
<1>2. ASSUME HeapHeld, Counted(heap), [Next]_heapVars
      PROVE  Counted(heap')
  <2>1. HeapInv(heap) /\ DOMAIN blocks = Pointers(heap)
    BY <1>2 DEF HeapHeld, Held
  <2>2. ASSUME NEW amount \in Amounts, Allocate(amount) PROVE Counted(heap')
    BY <1>2, <2>1, <2>2, CarveCounted, RefusedCounted, SizesAssumption DEF Allocate
  <2>3. ASSUME NEW pointer \in Pointers(heap) \union {NULL}, Free(pointer)
        PROVE  Counted(heap')
    <3>1. CASE pointer = NULL
      BY <1>2, <2>3, <3>1 DEF Free, o1heapFree
    <3>2. CASE pointer \in Pointers(heap)
      <4>1. PICK f \in UsedFragments(heap) : pointer = f + O1HEAP_ALIGNMENT
        BY <3>2 DEF Pointers
      <4> QED BY <1>2, <2>1, <2>3, <4>1, FreeCounted DEF Free
    <3> QED BY <2>3, <3>1, <3>2
  <2>4. ASSUME UNCHANGED heapVars PROVE Counted(heap')
    BY <1>2, <2>4 DEF heapVars
  <2> QED BY <1>2, <2>1, <2>2, <2>3, <2>4 DEF Next
<1>3. HeapHeld /\ Counted(heap) /\ [Next]_heapVars => Counted(heap)'
  BY <1>2
<1>4. Spec => []Counted(heap)
  BY <1>1, <1>3, AlwaysHeld, PTL DEF Spec
<1> QED BY <1>4, AlwaysHeapInv, PTL

(* The self-check the source makes of its diagnostics never fails, and the  *)
(* bytes they count as allocated are those of the blocks that are out: a    *)
(* request adds the size it has cut, and o1heapFree subtracts the size      *)
(* before a merge changes it.                                               *)
THEOREM AlwaysDiagnosed == Spec => []DiagnosticsHold
<1>1. ASSUME HeapInv(heap), Counted(heap) PROVE DiagnosticsHold
  <2> DEFINE d == heap.diagnostics
             F == FRAGMENT_SIZE_MIN
  <2>1. AllocatedAccounts
    BY <1>1 DEF AllocatedAccounts, Counted, Total
  <2>2. /\ d.capacity = Capacity /\ d.allocated \in Nat /\ d.peak_allocated \in Int
        /\ d.peak_request_size \in Nat /\ d.oom_count \in Nat
    BY <1>1, UsedTotal DEF HeapInv, Diagnosed, DiagnosticsType, Counted
  <2>3. \A i \in Bins : i \in heap.nonempty_bin_mask <=> heap.bins[i] # NULL
    BY <1>1 DEF HeapInv, InLists, Listed
  <2>4. Capacity <= FRAGMENT_SIZE_MAX /\ Capacity >= F /\ Capacity % F = 0
    <3>1. PICK j \in Nat \ {0} : Capacity = j * F
      BY CapacityFact
    <3>2. 1 * F <= j * F /\ (j * F) % F = 0
      BY Sizes, MultMono, ModMult
    <3> QED BY <3>1, <3>2, CapacityFact, Sizes
  <2>5. d.allocated % F = 0 /\ d.peak_allocated % F = 0
    <3>1. PICK j \in Nat : d.allocated = j * F
      BY <1>1, UsedTotal DEF Counted
    <3>2. PICK m \in Nat : d.peak_allocated = m * F
      BY <1>1 DEF Counted
    <3> QED BY <3>1, <3>2, ModMult, Sizes
  <2>6. /\ d.allocated <= Capacity /\ d.peak_allocated <= Capacity
        /\ d.peak_allocated >= d.allocated
        /\ d.peak_request_size < Capacity \/ d.oom_count > 0
    BY <1>1, <2>2, CapacityFact DEF Counted
  <2>7. IF d.peak_request_size = 0
        THEN d.peak_allocated = 0 /\ d.allocated = 0 /\ d.oom_count = 0
        ELSE \/ d.peak_request_size + O1HEAP_ALIGNMENT <= d.peak_allocated
             \/ d.oom_count > 0
    BY <1>1, <2>2, <2>6 DEF Counted
  <2> QED BY <2>1, <2>2, <2>3, <2>4, <2>5, <2>6, <2>7 DEF DiagnosticsHold, o1heapDoInvariantsHold
<1>2. HeapInv(heap) /\ Counted(heap) => DiagnosticsHold
  BY <1>1
<1> QED BY <1>2, AlwaysCounted, PTL
-----------------------------------------------------------------------------
(* Requests that fail.                                                      *)
LEMMA NothingFits ==
  ASSUME NEW h, HeapInv(h), NEW amount \in Nat, Requestable(h, amount),
         SuitableBins(h, amount) = {}, NEW f \in FreeFragments(h)
  PROVE  Size(h, f) < FragmentSize(amount)
<1> DEFINE want == FragmentSize(amount)
<1>1. /\ Raw(h) /\ Chain(h) /\ InLists(h, FreeFragments(h))
      /\ f \in DOMAIN h.fragments /\ Binnable(h, FreeFragments(h))
      /\ amount > 0 /\ amount <= Capacity - O1HEAP_ALIGNMENT
  BY FreeBinnable DEF HeapInv, FreeFragments, Requestable, Diagnosed, DiagnosticsType
<1>2. Whole(want) /\ want \in Nat
  BY <1>1, FragmentSizeFact, UnitsOfWhole
<1>3. Whole(Size(h, f)) /\ Size(h, f) \in Nat /\ Size(h, f) <= Capacity
  <2>1. f \in Nat /\ Size(h, f) \in Nat /\ f + Size(h, f) <= Capacity
    BY <1>1, ChainBins
  <2> QED BY <2>1, <1>1, CapacityFact DEF Chain
<1>4. BinIndex(Size(h, f)) \in h.nonempty_bin_mask
  BY <1>1, BinTaken
<1>5. SUFFICES ASSUME want <= Size(h, f) PROVE FALSE
  BY <1>2, <1>3
<1>6. BinIndex(Size(h, f)) >= log2Ceil(Units(want))
  BY <1>1, <1>3, <1>5, FitsSuitable
<1> QED BY <1>4, <1>6 DEF SuitableBins

(* A request within the capacity that is refused was refused rightly: no    *)
(* free fragment is as large as the block.  A power of two of every size is *)
(* in a bin that is searched, no list has lost its head, and the mask       *)
(* (o1heapAllocate's smallest_bin_mask) names every list that holds one.    *)
THEOREM RefusedOnlyWhenFull == Spec => OutOfMemoryOnlyWhenFull
<1> DEFINE A == \A amount \in Amounts :
                  (/\ Allocate(amount) /\ Requestable(heap, amount)
                   /\ heap'.diagnostics.oom_count > heap.diagnostics.oom_count)
                  => \A f \in FreeFragments(heap) : Size(heap, f) < FragmentSize(amount)
<1>1. ASSUME HeapInv(heap) PROVE A
  <2>1. SUFFICES ASSUME NEW amount \in Amounts, Allocate(amount),
                        Requestable(heap, amount),
                        heap'.diagnostics.oom_count > heap.diagnostics.oom_count,
                        NEW f \in FreeFragments(heap)
                 PROVE  Size(heap, f) < FragmentSize(amount)
    OBVIOUS
  <2>2. amount \in Nat /\ heap.diagnostics.oom_count \in Nat
    BY <1>1, SizesAssumption DEF HeapInv, Diagnosed, DiagnosticsType
  <2>3. heap' = o1heapAllocate(heap, amount).heap
    BY <2>1 DEF Allocate
  <2>4. SuitableBins(heap, amount) = {}
    BY <1>1, <2>1, <2>2, <2>3, AllocateFact
  <2> QED BY <1>1, <2>1, <2>2, <2>4, NothingFits
<1>2. HeapInv(heap) => [A]_heapVars
  BY <1>1
<1> QED BY <1>2, AlwaysHeapInv, PTL DEF OutOfMemoryOnlyWhenFull
-----------------------------------------------------------------------------
(* The heap implements an allocator.                                        *)
(* Every fragment lies at a whole number of smallest fragments.             *)
LEMMA WholeOffsets ==
  ASSUME NEW h, Raw(h), Chain(h), NEW f \in DOMAIN h.fragments
  PROVE  \E k \in Nat : f = k * FRAGMENT_SIZE_MIN
<1> DEFINE T == {g \in DOMAIN h.fragments : ~\E k \in Nat : g = k * FRAGMENT_SIZE_MIN}
<1>1. SUFFICES ASSUME T # {} PROVE FALSE
  OBVIOUS
<1>2. T \subseteq Nat
  BY DEF Raw, Address
<1>3. PICK g \in T : \A x \in T : g <= x
  BY <1>1, <1>2, NatMin
<1>4. FRAGMENT_SIZE_MIN \in Nat \ {0} /\ 0 * FRAGMENT_SIZE_MIN = 0
  BY Sizes
<1>5. g # 0 /\ g \in DOMAIN h.fragments
  BY <1>3, <1>4
<1> DEFINE p == h.fragments[g].prev
<1>6. p \in DOMAIN h.fragments /\ h.fragments[p].next = g
  BY <1>5 DEF Chain, Neighbours
<1>7. /\ g = p + Size(h, p) /\ Whole(Size(h, p)) /\ Size(h, p) \in Nat \ {0}
      /\ p \in Nat
  BY <1>5, <1>6, ChainBins DEF Chain, Neighbours, Size
<1>8. p \notin T
  BY <1>3, <1>7
<1>9. PICK a \in Nat : p = a * FRAGMENT_SIZE_MIN
  BY <1>6, <1>8
<1>10. PICK b \in Nat \ {0} : Size(h, p) = b * FRAGMENT_SIZE_MIN
  BY <1>7 DEF Whole
<1>11. g = (a + b) * FRAGMENT_SIZE_MIN /\ a + b \in Nat
  BY <1>4, <1>7, <1>9, <1>10, MultDiff
<1> QED BY <1>3, <1>11

(* So the block behind a header is aligned.                                 *)
LEMMA Aligned ==
  ASSUME NEW h, Raw(h), Chain(h), NEW f \in DOMAIN h.fragments
  PROVE  (f + O1HEAP_ALIGNMENT) % O1HEAP_ALIGNMENT = 0
<1>1. PICK k \in Nat : f = k * FRAGMENT_SIZE_MIN
  BY WholeOffsets
<1>2. O1HEAP_ALIGNMENT \in Nat \ {0} /\ FRAGMENT_SIZE_MIN = 2 * O1HEAP_ALIGNMENT
  BY Sizes, Pow2Laws, SizesAssumption DEF O1HEAP_ALIGNMENT, FRAGMENT_SIZE_MIN
<1>3. f + O1HEAP_ALIGNMENT = (2 * k + 1) * O1HEAP_ALIGNMENT /\ 2 * k + 1 \in Nat
  <2>1. /\ k * (2 * O1HEAP_ALIGNMENT) = (2 * k) * O1HEAP_ALIGNMENT
        /\ (2 * k) * O1HEAP_ALIGNMENT + 1 * O1HEAP_ALIGNMENT
              = (2 * k + 1) * O1HEAP_ALIGNMENT
    BY <1>2
  <2> QED BY <2>1, <1>1, <1>2
<1> QED BY <1>2, <1>3, ModMult

(* A block granted lies in the arena, clear of what is out and its headers. *)
LEMMA Placing ==
  ASSUME HeapHeld, HeapInv(heap'), NEW f \in FreeFragments(heap), NEW amount,
         Granted(amount, f)
  PROVE  Promise!Placed(f + O1HEAP_ALIGNMENT, amount)
<1> DEFINE p == f + O1HEAP_ALIGNMENT
           A == O1HEAP_ALIGNMENT
<1>1. /\ A \in Nat \ {0} /\ HeapInv(heap) /\ Held(heap, blocks)
      /\ amount \in Nat \ {0} /\ Size(heap', f) >= amount + A
  BY Sizes DEF HeapHeld, Granted
<1>2. /\ Raw(heap') /\ Chain(heap') /\ f \in DOMAIN heap'.fragments
      /\ f \notin UsedFragments(heap)
      /\ \A g \in UsedFragments(heap) :
           g \in DOMAIN heap'.fragments /\ Size(heap', g) = Size(heap, g)
  BY DEF Granted, HeapInv, UsedFragments, FreeFragments
<1>3. f \in Nat /\ Size(heap', f) \in Nat /\ f + Size(heap', f) <= Capacity
  BY <1>2, ChainBins
<1>4. /\ p \in A .. Capacity - 1 /\ p % A = 0 /\ p + amount <= Capacity
  BY <1>1, <1>2, <1>3, Aligned, CapacityFact
<1>5. ASSUME NEW q \in DOMAIN blocks
      PROVE  p + amount <= q - A \/ q + blocks[q] <= p - A
  <2> DEFINE g == q - A
             n == blocks[q]
  <2>1. g \in UsedFragments(heap) /\ q = g + A
    BY <1>1, PointerFact DEF Held
  <2>2. blocks[g + A] = n
    BY <2>1
  <2> HIDE DEF g, n
  <2>3. n \in Nat /\ n + A <= Size(heap, g)
    BY <1>1, <2>1, <2>2 DEF Held
  <2>4. /\ g \in Nat /\ g # f /\ Size(heap', g) = Size(heap, g) /\ Size(heap', g) \in Nat
        /\ g < f => g + Size(heap', g) <= f
        /\ f < g => f + Size(heap', f) <= g
    BY <2>1, <1>2, ChainBins DEF Chain, Disjoint
  <2>5. p + amount <= q - A \/ q + n <= p - A
    <3>0. p = f + A
      OBVIOUS
    <3> HIDE DEF A, p
    <3>1. CASE g < f
      BY <2>1, <2>3, <2>4, <3>0, <3>1, <1>1, <1>3
    <3>2. CASE f < g
      BY <2>1, <2>3, <2>4, <3>0, <3>2, <1>1, <1>3
    <3> QED BY <2>4, <3>1, <3>2, <1>3
  <2> QED BY <2>5 DEF n
<1> QED BY <1>4, <1>5 DEF Promise!Placed, Promise!Apart

(* To its client the heap is an allocator: a block holds the amount that    *)
(* was asked for, aligned and inside the arena, and filling it touches      *)
(* neither another block nor a header; no call moves or changes a block     *)
(* that is out, until it is freed (o1heapAllocate, o1heapFree).             *)
THEOREM Implements == Spec => RefinesAllocator
<1>1. Init => Promise!Init
  BY DEF Init, Promise!Init
<1>2. HeapHeld /\ [Next]_heapVars => [Promise!Next]_blocks
  <2>1. SUFFICES ASSUME HeapHeld, [Next]_heapVars PROVE [Promise!Next]_blocks
    OBVIOUS
  <2>2. ASSUME NEW amount \in Amounts, Allocate(amount) PROVE [Promise!Next]_blocks
    <3>1. CASE blocks' = blocks
      BY <3>1
    <3>2. ASSUME NEW f \in FreeFragments(heap), Granted(amount, f)
          PROVE  Promise!Next
      <4>1. Promise!Placed(f + O1HEAP_ALIGNMENT, amount)
        BY <2>1, <2>2, <3>2, AllocateCase, Placing
      <4>2. amount \in Amounts \ {0} /\ blocks' = With(blocks, f + O1HEAP_ALIGNMENT, amount)
        BY <3>2 DEF Granted
      <4>3. f + O1HEAP_ALIGNMENT \in DOMAIN blocks'
        BY <4>2 DEF With
      <4>4. Promise!Obtain(amount)
        BY <4>1, <4>2, <4>3 DEF Promise!Obtain, With
      <4> QED BY <4>2, <4>4 DEF Promise!Next
    <3> QED BY <2>1, <2>2, <3>1, <3>2, AllocateCase
  <2>3. ASSUME NEW pointer \in DOMAIN blocks \union {NULL}, Free(pointer)
        PROVE  [Promise!Next]_blocks
    <3>1. CASE pointer \in DOMAIN blocks
      BY <2>3, <3>1 DEF Free, Promise!Next, Promise!Release
    <3> QED BY <2>1, <2>3, <3>1, FreeCase
  <2>4. CASE UNCHANGED heapVars
    BY <2>4 DEF heapVars
  <2> QED BY <2>1, <2>2, <2>3, <2>4 DEF Next
<1> QED BY <1>1, <1>2, AlwaysHeld, PTL DEF Spec, RefinesAllocator, Promise!Spec
=============================================================================
