---------------------------- MODULE MallocProofs ----------------------------
(***************************************************************************)
(* malloc, calloc, realloc and free (clib/malloc.c,                        *)
(* clib/heap/o1heap-shim.c) give each block what was asked for, lose none  *)
(* and keep its contents, on a heap of any size and for any amounts for    *)
(* which the arithmetic of sizes does not wrap round to a size that is too *)
(* small.  It rests on what O1HeapProofs shows of the two calls below.     *)
(***************************************************************************)
EXTENDS Malloc, O1HeapProofs

ClientAmounts == Amounts \union {count * size : count \in Counts, size \in Amounts}

-----------------------------------------------------------------------------
(* Arithmetic.                                                              *)
LEMMA PaddedNat == \A size \in Nat : Padded(size) \in Nat
<1>1. pow2(SIZE_BITS) \in Nat \ {0} /\ HEADER \in Nat \ {0}
  BY PowNat, SizesAssumption, MallocAssumption
<1>2. ASSUME NEW n \in Nat PROVE RoundDown(n) \in Nat
  <2>1. n % pow2(SIZE_BITS) \in Nat
    BY <1>1
  <2>2. (n % pow2(SIZE_BITS)) \div HEADER \in Nat
    BY <2>1, <1>1, DivBounds
  <2> QED BY <2>2, <1>1 DEF RoundDown
<1>3. ASSUME NEW size \in Nat PROVE Padded(size) \in Nat
  <2>1. size + (HEADER - 1) + HEADER \in Nat
    BY <1>1
  <2> QED BY <2>1, <1>2 DEF Padded
<1> QED BY <1>3

LEMMA AsIntNat == \A n \in Nat : AsInt(n) \in Nat
<1>1. /\ pow2(SIZE_BITS) \in Nat \ {0} /\ pow2(INT_BITS) \in Nat \ {0}
      /\ pow2(INT_BITS) <= pow2(SIZE_BITS)
  BY PowMono, SizesAssumption, MallocAssumption
<1>2. ASSUME NEW n \in Nat PROVE AsInt(n) \in Nat
  <2> DEFINE m == n % pow2(INT_BITS)
             w == m + pow2(SIZE_BITS) - pow2(INT_BITS)
  <2>1. m \in Nat
    BY <1>1
  <2> HIDE DEF m
  <2>2. w \in Nat
    BY <1>1, <2>1
  <2> HIDE DEF w
  <2>3. w % pow2(SIZE_BITS) \in Nat
    BY <1>1, <2>2
  <2>4. AsInt(n) = m \/ AsInt(n) = w % pow2(SIZE_BITS)
    BY DEF AsInt, m, w
  <2> QED BY <2>1, <2>3, <2>4
<1> QED BY <1>2

(* A size that does not wrap is held.                                       *)
LEMMA NoWrapHolds ==
  ASSUME NEW size \in Nat, size + 2 * HEADER <= pow2(SIZE_BITS)
  PROVE  Holds(size, size)
<1> DEFINE P == pow2(SIZE_BITS)
           n == size + (HEADER - 1) + HEADER
<1>1. HEADER \in Nat \ {0} /\ P \in Nat \ {0}
  BY PowNat, SizesAssumption, MallocAssumption
<1>2. n \in Nat /\ n < P
  BY <1>1
<1>3. n % P = n
  <2> HIDE DEF n, P
  <2> QED BY <1>1, <1>2
<1>4. Padded(size) = HEADER * (n \div HEADER)
  BY <1>3 DEF Padded, RoundDown
<1>5. n < HEADER * (n \div HEADER) + HEADER /\ n \div HEADER \in Nat
  <2> HIDE DEF n
  <2> QED BY <1>1, <1>2, DivBounds
<1>6. HEADER * (n \div HEADER) \in Nat
  BY <1>1, <1>5
<1> QED BY <1>1, <1>4, <1>5, <1>6 DEF Holds

-----------------------------------------------------------------------------
(* A block and the fragment it lies in.                                     *)
Body(f)   == f + O1HEAP_ALIGNMENT + HEADER
Header(p) == p - HEADER - O1HEAP_ALIGNMENT

(* The used fragments of h are those of the client's blocks b, and each     *)
(* holds its block.                                                         *)
Owned(h, b) ==
  /\ \A f \in UsedFragments(h) : Body(f) \in DOMAIN b
  /\ \A p \in DOMAIN b :
       /\ p \in Nat /\ Header(p) \in UsedFragments(h)
       /\ b[p].size \in Nat /\ b[p].asked \in Nat \ {0}
       /\ b[p].asked + HEADER <= b[p].size
       /\ b[p].size + O1HEAP_ALIGNMENT <= Size(h, Header(p))

MallocInv ==
  /\ HeapInv(heap) /\ Owned(heap, blocks)
  /\ ~inited => heap = o1heapInit /\ blocks = <<>>

LEMMA Places ==
  /\ HEADER \in Nat \ {0} /\ O1HEAP_ALIGNMENT \in Nat \ {0}
  /\ \A f \in Nat : /\ Body(f) \in Nat /\ Header(Body(f)) = f
                    /\ Body(f) - HEADER = f + O1HEAP_ALIGNMENT
  /\ \A p \in Nat : /\ Body(Header(p)) = p
                    /\ p - HEADER = Header(p) + O1HEAP_ALIGNMENT
BY Sizes, MallocAssumption DEF Body, Header

LEMMA UsedNat ==
  ASSUME NEW h, HeapInv(h)
  PROVE  /\ \A f \in DOMAIN h.fragments : f \in Nat
         /\ UsedFragments(h) \subseteq DOMAIN h.fragments
         /\ FreeFragments(h) \subseteq DOMAIN h.fragments
BY DEF HeapInv, Raw, Address, UsedFragments, FreeFragments

(* k has the used fragments of h and f.                                     *)
Added(h, k, f) ==
  /\ f \in FreeFragments(h)
  /\ UsedFragments(k) = UsedFragments(h) \union {f}
  /\ \A g \in UsedFragments(h) : Size(k, g) = Size(h, g)

(* What o1heapAllocate does.                                                *)
Refused(h, new) == new.out = NULL /\ new.heap.fragments = h.fragments

Met(h, new, f, amount) ==
  /\ new.out = f + O1HEAP_ALIGNMENT /\ Added(h, new.heap, f)
  /\ amount > 0 /\ amount <= Capacity - O1HEAP_ALIGNMENT
  /\ Size(new.heap, f) >= amount + O1HEAP_ALIGNMENT

LEMMA AllocateCases ==
  ASSUME NEW h, HeapInv(h), NEW amount \in Nat
  PROVE  LET new == o1heapAllocate(h, amount) IN
         /\ HeapInv(new.heap)
         /\ \/ Refused(h, new)
            \/ \E f \in FreeFragments(h) : Met(h, new, f, amount)
<1> DEFINE new == o1heapAllocate(h, amount)
<1>1. HeapInv(new.heap)
  BY AllocatePreserves
<1>2. CASE Requestable(h, amount) /\ SuitableBins(h, amount) # {}
  <2>1. PICK f \in FreeFragments(h) :
          /\ new.out = f + O1HEAP_ALIGNMENT
          /\ UsedFragments(new.heap) = UsedFragments(h) \union {f}
          /\ Size(new.heap, f) = FragmentSize(amount)
          /\ \A g \in UsedFragments(h) : Size(new.heap, g) = Size(h, g)
    BY <1>2, AllocateFact
  <2>2. amount > 0 /\ amount <= Capacity - O1HEAP_ALIGNMENT
    BY <1>2 DEF Requestable, HeapInv, Diagnosed, DiagnosticsType
  <2>3. FragmentSize(amount) >= amount + O1HEAP_ALIGNMENT
    BY <2>2, FragmentSizeFact
  <2> HIDE DEF new
  <2>4. Met(h, new, f, amount)
    BY <2>1, <2>2, <2>3 DEF Met, Added
  <2> QED BY <2>4, <1>1 DEF new
<1>3. CASE ~(Requestable(h, amount) /\ SuitableBins(h, amount) # {})
  BY <1>1, <1>3, RefusedFact DEF Refused
<1> QED BY <1>2, <1>3

-----------------------------------------------------------------------------
(* Blocks given and taken.                                                  *)
LEMMA OwnedSame ==
  ASSUME NEW h, NEW k, NEW b, Owned(h, b), k.fragments = h.fragments
  PROVE  Owned(k, b)
BY DEF Owned, UsedFragments, Size

LEMMA OwnedGrow ==
  ASSUME NEW h, HeapInv(h), NEW k, NEW b, Owned(h, b), NEW f, Added(h, k, f),
         NEW size \in Nat, NEW asked \in Nat \ {0}, asked + HEADER <= size,
         size + O1HEAP_ALIGNMENT <= Size(k, f)
  PROVE  Body(f) \notin DOMAIN b /\ Owned(k, Give(b, Body(f), size, asked))
<1> DEFINE p == Body(f)
           c == Give(b, p, size, asked)
<1>1. f \in Nat /\ f \notin UsedFragments(h) /\ p \in Nat /\ Header(p) = f
  BY UsedNat, Places DEF Added, FreeFragments, UsedFragments
<1>2. p \notin DOMAIN b
  BY <1>1 DEF Owned
<1>3. /\ DOMAIN c = DOMAIN b \union {p}
      /\ c[p] = [size |-> size, asked |-> asked]
      /\ \A q \in DOMAIN b : c[q] = b[q]
  BY <1>2 DEF Give
<1> HIDE DEF p, c
<1>4. \A g \in UsedFragments(k) : Body(g) \in DOMAIN c
  BY <1>3 DEF Owned, Added, p
<1>5. ASSUME NEW q \in DOMAIN c
      PROVE  /\ q \in Nat /\ Header(q) \in UsedFragments(k)
             /\ c[q].size \in Nat /\ c[q].asked \in Nat \ {0}
             /\ c[q].asked + HEADER <= c[q].size
             /\ c[q].size + O1HEAP_ALIGNMENT <= Size(k, Header(q))
  <2>1. CASE q = p
    BY <2>1, <1>1, <1>3 DEF Added
  <2>2. CASE q # p
    <3>1. q \in DOMAIN b /\ c[q] = b[q] /\ Header(q) \in UsedFragments(h)
      BY <2>2, <1>3 DEF Owned
    <3>2. Size(k, Header(q)) = Size(h, Header(q)) /\ Header(q) \in UsedFragments(k)
      BY <3>1 DEF Added
    <3> QED BY <3>1, <3>2 DEF Owned
  <2> QED BY <2>1, <2>2
<1>6. Owned(k, c)
  BY <1>4, <1>5 DEF Owned
<1> QED BY <1>2, <1>6 DEF c, p

LEMMA OwnedShrink ==
  ASSUME NEW h, HeapInv(h), NEW k, NEW b, Owned(h, b), NEW p \in DOMAIN b,
         UsedFragments(k) = UsedFragments(h) \ {Header(p)},
         \A g \in UsedFragments(k) : Size(k, g) = Size(h, g)
  PROVE  Owned(k, Take(b, p))
<1> DEFINE c == Take(b, p)
<1>1. DOMAIN c = DOMAIN b \ {p} /\ \A q \in DOMAIN c : c[q] = b[q]
  BY DEF Take
<1> HIDE DEF c
<1>2. ASSUME NEW g \in UsedFragments(k) PROVE Body(g) \in DOMAIN c
  <2>1. g \in UsedFragments(h) /\ g # Header(p) /\ g \in Nat
    BY UsedNat
  <2>2. Body(g) \in DOMAIN b /\ Body(g) # p
    BY <2>1, Places DEF Owned
  <2> QED BY <2>2, <1>1
<1>3. ASSUME NEW q \in DOMAIN c
      PROVE  /\ q \in Nat /\ Header(q) \in UsedFragments(k)
             /\ c[q].size \in Nat /\ c[q].asked \in Nat \ {0}
             /\ c[q].asked + HEADER <= c[q].size
             /\ c[q].size + O1HEAP_ALIGNMENT <= Size(k, Header(q))
  <2>1. /\ q \in DOMAIN b /\ q # p /\ c[q] = b[q] /\ q \in Nat /\ p \in Nat
        /\ Header(q) \in UsedFragments(h)
    BY <1>1 DEF Owned
  <2>2. Header(q) # Header(p)
    BY <2>1, Places
  <2>3. Header(q) \in UsedFragments(k) /\ Size(k, Header(q)) = Size(h, Header(q))
    BY <2>1, <2>2
  <2> QED BY <2>1, <2>3 DEF Owned
<1> QED BY <1>2, <1>3 DEF Owned, c

(* The client's free, on its way to the heap.                               *)
LEMMA FreeOwned ==
  ASSUME NEW h, HeapInv(h), NEW b, Owned(h, b), NEW p \in DOMAIN b
  PROVE  LET k == o1heapFree(h, p - HEADER) IN HeapInv(k) /\ Owned(k, Take(b, p))
<1> DEFINE k == o1heapFree(h, p - HEADER)
           f == Header(p)
<1>1. f \in UsedFragments(h) /\ p - HEADER = f + O1HEAP_ALIGNMENT
  BY Places DEF Owned
<1>2. /\ HeapInv(k) /\ UsedFragments(k) = UsedFragments(h) \ {f}
      /\ \A g \in UsedFragments(k) : Size(k, g) = Size(h, g)
  BY <1>1, FreePreserves
<1> HIDE DEF k
<1>3. Owned(k, Take(b, p))
  BY <1>2, OwnedShrink
<1> QED BY <1>2, <1>3 DEF k

(* A block lies in the arena, aligned to the header, apart from the others  *)
(* and from the two headers in front of each.                               *)
Records == O1HEAP_ALIGNMENT + HEADER
Separate(p, n, q, m) == p + n <= q - Records \/ q + m <= p - Records

LEMMA Placement ==
  ASSUME NEW h, HeapInv(h), NEW b, Owned(h, b), NEW p \in DOMAIN b
  PROVE  /\ p \in Records .. Capacity - 1 /\ p % HEADER = 0 /\ p + b[p].asked <= Capacity
         /\ \A q \in DOMAIN b \ {p} : Separate(p, b[p].asked, q, b[q].asked)
<1> DEFINE f == Header(p)
           A == O1HEAP_ALIGNMENT
<1>1. /\ Raw(h) /\ Chain(h) /\ p \in Nat /\ f \in DOMAIN h.fragments /\ f \in Nat
      /\ p = f + A + HEADER /\ A \in Nat /\ HEADER \in Nat \ {0}
      /\ b[p].size \in Nat /\ b[p].asked \in Nat \ {0}
      /\ b[p].asked + HEADER <= b[p].size /\ b[p].size + A <= Size(h, f)
  BY UsedNat, Places DEF Owned, HeapInv, Body
<1>2. f + Size(h, f) <= Capacity /\ Size(h, f) \in Nat
  BY <1>1, ChainBins
<1> HIDE DEF f
<1>3. p + b[p].asked <= Capacity /\ p + b[p].asked <= f + Size(h, f)
  BY <1>1, <1>2, CapacityFact DEF A
<1>4. p % HEADER = 0
  <2>1. PICK n \in Nat : f = n * FRAGMENT_SIZE_MIN
    BY <1>1, WholeOffsets
  <2>2. FRAGMENT_SIZE_MIN = 2 * A /\ A \in Nat
    BY Sizes, Pow2Laws, SizesAssumption DEF O1HEAP_ALIGNMENT, FRAGMENT_SIZE_MIN
  <2>3. PICK m \in Nat : A = m * HEADER
    <3>1. A % HEADER = 0
      BY MallocAssumption
    <3> HIDE DEF A
    <3>2. A = HEADER * (A \div HEADER) /\ A \div HEADER \in Nat
      BY <3>1, <1>1, DivBounds
    <3>3. HEADER * (A \div HEADER) = (A \div HEADER) * HEADER
      BY <3>2, <1>1
    <3> QED BY <3>2, <3>3
  <2> HIDE DEF A
  <2>4. f = ((2 * n) * m) * HEADER /\ (2 * n) * m \in Nat
    BY <2>1, <2>2, <2>3, <1>1
  <2>5. p = ((2 * n) * m + m + 1) * HEADER
    BY <2>3, <2>4, <1>1
  <2>6. (2 * n) * m + m + 1 \in Nat
    BY <2>4
  <2> QED BY <2>5, <2>6, <1>1, ModMult
<1>5. p <= Capacity - 1
  BY <1>1, <1>3, CapacityFact
<1>6. ASSUME NEW q \in DOMAIN b \ {p} PROVE Separate(p, b[p].asked, q, b[q].asked)
  <2> DEFINE g == Header(q)
  <2>1. /\ q \in Nat /\ g \in DOMAIN h.fragments /\ g \in Nat /\ q = g + A + HEADER
        /\ b[q].size \in Nat /\ b[q].asked \in Nat
        /\ b[q].asked + HEADER <= b[q].size /\ b[q].size + A <= Size(h, g)
    BY UsedNat, Places DEF Owned, Body, A
  <2> HIDE DEF g
  <2>2. f # g
    BY <2>1, <1>1
  <2>3. /\ g < f => g + Size(h, g) <= f
        /\ f < g => f + Size(h, f) <= g
        /\ Size(h, g) \in Nat
    BY <2>1, <1>1, ChainBins DEF Chain, Disjoint
  <2>4. q + b[q].asked <= g + Size(h, g)
    BY <2>1, <2>3, <1>1
  <2>5. g < f \/ f < g
    BY <2>1, <2>2, <1>1
  <2>6. f = p - Records /\ g = q - Records /\ Records \in Nat
    BY <2>1, <1>1 DEF Records, A
  <2>7. p + b[p].asked <= g \/ q + b[q].asked <= f
    BY <2>1, <2>3, <2>4, <2>5, <1>1, <1>2, <1>3
  <2> QED BY <2>6, <2>7 DEF Separate
<1>7. p \in Records .. Capacity - 1
  BY <1>1, <1>5, CapacityFact DEF Records, A
<1> QED BY <1>3, <1>4, <1>6, <1>7

-----------------------------------------------------------------------------
(* The blocks as the abstract allocator sees them.                          *)
Asked(b) == [p \in DOMAIN b |-> b[p].asked]

(* Block p of asked bytes is new in c, placed among those of b.             *)
Inserted(b, c, p, asked) ==
  /\ p \in DOMAIN c /\ c[p] = asked /\ DOMAIN c = DOMAIN b \union {p}
  /\ p \in Records .. Capacity - 1 /\ p % HEADER = 0 /\ p + asked <= Capacity
  /\ \A q \in DOMAIN b : q # p /\ Separate(p, asked, q, b[q]) /\ c[q] = b[q]
  /\ asked \in Nat \ {0}

LEMMA Given ==
  ASSUME NEW k, HeapInv(k), NEW b, NEW p, p \notin DOMAIN b, NEW size, NEW asked,
         Owned(k, Give(b, p, size, asked))
  PROVE  Inserted(Asked(b), Asked(Give(b, p, size, asked)), p, asked)
<1> DEFINE g == Give(b, p, size, asked)
<1>1. /\ DOMAIN g = DOMAIN b \union {p}
      /\ g[p] = [size |-> size, asked |-> asked]
      /\ \A q \in DOMAIN b : q # p /\ g[q] = b[q]
  BY DEF Give
<1> HIDE DEF g
<1>2. /\ p \in Records .. Capacity - 1 /\ p % HEADER = 0 /\ p + g[p].asked <= Capacity
      /\ \A q \in DOMAIN g \ {p} : Separate(p, g[p].asked, q, g[q].asked)
  BY <1>1, Placement DEF g
<1>3. g[p].asked = asked /\ g[p].asked \in Nat \ {0}
  BY <1>1 DEF Owned, g
<1>4. /\ DOMAIN Asked(g) = DOMAIN g /\ DOMAIN Asked(b) = DOMAIN b
      /\ \A q \in DOMAIN g : Asked(g)[q] = g[q].asked
      /\ \A q \in DOMAIN b : Asked(b)[q] = b[q].asked
  BY DEF Asked
<1>5. ASSUME NEW q \in DOMAIN b
      PROVE  q # p /\ Separate(p, asked, q, Asked(b)[q]) /\ Asked(g)[q] = Asked(b)[q]
  <2>1. q \in DOMAIN g \ {p} /\ g[q] = b[q]
    BY <1>1
  <2>2. Separate(p, asked, q, g[q].asked)
    BY <2>1, <1>2, <1>3
  <2> QED BY <2>1, <2>2, <1>4
<1>6. p \in DOMAIN Asked(g) /\ Asked(g)[p] = asked /\ DOMAIN Asked(g) = DOMAIN b \union {p}
  BY <1>1, <1>3, <1>4
<1>7. Inserted(Asked(b), Asked(g), p, asked)
  BY <1>2, <1>3, <1>4, <1>5, <1>6 DEF Inserted
<1> QED BY <1>7 DEF g

(* realloc: the new block is there before the old one goes.                 *)
LEMMA MovedBlocks ==
  ASSUME NEW b, NEW p \in DOMAIN b, NEW out, out \notin DOMAIN b, NEW size, NEW asked
  PROVE  Give(Take(b, p), out, size, asked) = Take(Give(b, out, size, asked), p)
BY DEF Give, Take

-----------------------------------------------------------------------------
(* The steps of the specification.                                          *)
ClientStep == [Client!Next]_([p \in DOMAIN blocks |-> blocks[p].asked])

Copies ==
  \A p \in DOMAIN blocks :
    (last' # last /\ last'.from = p /\ last'.out # NULL) =>
      LET old == blocks[p]
          new == blocks'[last'.out]
          shared == IF old.asked < new.asked THEN old.asked ELSE new.asked
      IN shared + HEADER <= last'.copied /\ last'.copied <= new.size

(* A step that leaves the client's blocks alone, and moves none.            *)
LEMMA Idle ==
  ASSUME blocks' = blocks, last' = last \/ last'.out = NULL
  PROVE  ClientStep /\ Copies
<1>1. [p \in DOMAIN blocks' |-> blocks'[p].asked] = [p \in DOMAIN blocks |-> blocks[p].asked]
  OBVIOUS
<1>2. ClientStep
  BY <1>1 DEF ClientStep
<1>3. Copies
  BY DEF Copies
<1> QED BY <1>2, <1>3

LEMMA BlockFact ==
  ASSUME MallocInv, NEW p \in DOMAIN blocks
  PROVE  p # NULL /\ p \in Nat /\ inited
<1>1. p \in Nat
  BY DEF MallocInv, Owned
<1>2. inited
  <2>1. ASSUME blocks = <<>> PROVE DOMAIN blocks = {}
    BY <2>1
  <2> QED BY <2>1 DEF MallocInv
<1> QED BY <1>1, <1>2 DEF NULL

LEMMA NoCallStep ==
  ASSUME MallocInv, NoCall
  PROVE  MallocInv' /\ ClientStep /\ Copies
<1>1. ClientStep /\ Copies
  BY Idle DEF NoCall, Call
<1>2. MallocInv'
  BY DEF NoCall, MallocInv
<1> QED BY <1>1, <1>2

LEMMA AcquireStep ==
  ASSUME MallocInv, NEW size \in Nat, NEW asked \in ClientAmounts, asked \in Nat \ {0},
         Holds(size, asked), Acquire(size, asked)
  PROVE  MallocInv' /\ ClientStep /\ Copies
<1> DEFINE new == o1heapAllocate(heap, Padded(size))
           out == new.out + HEADER
<1>1. /\ HeapInv(heap) /\ Owned(heap, blocks) /\ Heap = heap
      /\ Padded(size) \in Nat
  BY PaddedNat DEF MallocInv, Heap
<1>2. /\ heap' = new.heap /\ inited' = TRUE
      /\ IF new.out = NULL
         THEN blocks' = blocks /\ last' = Call(NULL, NULL, 0)
         ELSE blocks' = Give(blocks, out, Padded(size), asked) /\ last' = Call(NULL, out, 0)
  BY <1>1 DEF Acquire
<1>3. /\ HeapInv(new.heap)
      /\ \/ Refused(heap, new)
         \/ \E f \in FreeFragments(heap) : Met(heap, new, f, Padded(size))
  BY <1>1, AllocateCases
<1> HIDE DEF new
<1>4. CASE Refused(heap, new)
  <2>1. blocks' = blocks /\ last' = Call(NULL, NULL, 0) /\ heap'.fragments = heap.fragments
    BY <1>2, <1>4 DEF Refused
  <2>2. MallocInv'
    BY <2>1, <1>1, <1>2, <1>3, OwnedSame DEF MallocInv
  <2> QED BY <2>1, <2>2, Idle DEF Call
<1>5. ASSUME NEW f \in FreeFragments(heap), Met(heap, new, f, Padded(size))
      PROVE  MallocInv' /\ ClientStep /\ Copies
  <2>1. f \in Nat /\ out = Body(f) /\ new.out # NULL
    <3>1. f \in Nat /\ new.out = f + O1HEAP_ALIGNMENT
      BY <1>1, <1>5, UsedNat DEF Met
    <3> QED BY <3>1, Places DEF Body, NULL
  <2>2. /\ Added(heap, heap', f) /\ Padded(size) >= asked + HEADER
        /\ Padded(size) + O1HEAP_ALIGNMENT <= Size(heap', f)
    <3>1. Padded(size) > 0 /\ Padded(size) <= Capacity - O1HEAP_ALIGNMENT
      BY <1>5 DEF Met
    <3>2. Padded(size) >= asked + HEADER
      BY <3>1 DEF Holds
    <3>3. Added(heap, heap', f) /\ Size(heap', f) >= Padded(size) + O1HEAP_ALIGNMENT
      BY <1>2, <1>5 DEF Met
    <3>4. Size(heap', f) \in Int
      BY <1>2, <1>3, <3>3, UsedNat, ChainBins DEF HeapInv, Added
    <3> QED BY <3>2, <3>3, <3>4, <1>1, Places
  <2>3. /\ blocks' = Give(blocks, out, Padded(size), asked)
        /\ last' = Call(NULL, out, 0)
    BY <1>2, <2>1
  <2>4. out \notin DOMAIN blocks /\ Owned(heap', Give(blocks, out, Padded(size), asked))
    <3>1. asked + HEADER <= Padded(size)
      BY <2>2, <1>1, Places
    <3> QED BY <3>1, <2>1, <2>2, <1>1, OwnedGrow
  <2>5. MallocInv'
    BY <2>3, <2>4, <1>2, <1>3 DEF MallocInv
  <2>6. Copies
    BY <2>3, BlockFact DEF Copies, Call
  <2> DEFINE a == Asked(blocks)
             c == Asked(blocks')
  <2>7. Inserted(a, c, out, asked)
    <3>1. HeapInv(heap')
      BY <1>2, <1>3
    <3> HIDE DEF out
    <3> QED BY <2>3, <2>4, <3>1, Given
  <2>8. DOMAIN a = DOMAIN blocks /\ c = [q \in DOMAIN c |-> c[q]]
    BY DEF Asked
  <2> HIDE DEF a, c, out
  <2>9. c = [q \in DOMAIN a \union {out} |-> IF q = out THEN c[out] ELSE a[q]]
    BY <2>7, <2>8 DEF Inserted
  <2>10. Client!Next
    <3>1. Client!Obtain(asked)
      BY <2>7, <2>8, <2>9
      DEF Inserted, Client!Obtain, Client!Placed, Client!Apart, Separate, Records, a, c, Asked
    <3>2. asked \in ClientAmounts \ {0}
      OBVIOUS
    <3> QED BY <3>1, <3>2 DEF Client!Next, ClientAmounts
  <2> QED BY <2>5, <2>6, <2>10 DEF ClientStep
<1> QED BY <1>3, <1>4, <1>5

LEMMA ReleaseStep ==
  ASSUME MallocInv, NEW block \in DOMAIN blocks, free(block)
  PROVE  MallocInv' /\ ClientStep /\ Copies
<1>1. /\ heap' = o1heapFree(heap, block - HEADER) /\ blocks' = Take(blocks, block)
      /\ last' = Call(NULL, NULL, 0) /\ inited' = inited /\ inited
  BY BlockFact DEF free
<1>2. MallocInv'
  BY <1>1, FreeOwned DEF MallocInv
<1>3. Copies
  BY <1>1 DEF Copies, Call
<1>4. Client!Release(block)
  BY <1>1 DEF Client!Release, Take
<1>5. ClientStep
  BY <1>4 DEF ClientStep, Client!Next
<1> QED BY <1>2, <1>3, <1>5

LEMMA ResizeStep ==
  ASSUME MallocInv, NEW block \in DOMAIN blocks, NEW size \in Amounts \ {0},
         Holds(size, size), Resized(block, size)
  PROVE  MallocInv' /\ ClientStep /\ Copies
<1> DEFINE n   == Padded(size)
           new == o1heapAllocate(heap, n)
           mid == new.heap
           old == blocks[block]
           re  == Reallocate(heap, block - HEADER, n, old.size)
           out == new.out + HEADER
<1>1. /\ HeapInv(heap) /\ Owned(heap, blocks) /\ n \in Nat /\ inited /\ size \in Nat \ {0}
  BY PaddedNat, BlockFact, SizesAssumption DEF MallocInv
<1>2. /\ re.out = new.out
      /\ new.out = NULL => re.heap = mid
      /\ new.out # NULL => /\ re.heap = o1heapFree(mid, block - HEADER)
                           /\ re.copied = CopySize(n, old.size)
  BY DEF Reallocate
<1>3. /\ heap' = re.heap /\ inited'
      /\ IF re.out = NULL
         THEN blocks' = blocks /\ last' = Call(block, NULL, 0)
         ELSE /\ blocks' = Give(Take(blocks, block), re.out + HEADER, n, size)
              /\ last' = Call(block, re.out + HEADER, re.copied)
  BY <1>1 DEF Resized
<1>4. /\ HeapInv(mid)
      /\ \/ Refused(heap, new)
         \/ \E f \in FreeFragments(heap) : Met(heap, new, f, n)
  BY <1>1, AllocateCases
<1> HIDE DEF new, re
<1>5. CASE Refused(heap, new)
  <2>1. /\ blocks' = blocks /\ last' = Call(block, NULL, 0)
        /\ heap' = mid /\ heap'.fragments = heap.fragments
    BY <1>2, <1>3, <1>5 DEF Refused
  <2>2. MallocInv'
    BY <2>1, <1>1, <1>3, <1>4, OwnedSame DEF MallocInv
  <2> QED BY <2>1, <2>2, Idle DEF Call
<1>6. ASSUME NEW f \in FreeFragments(heap), Met(heap, new, f, n)
      PROVE  MallocInv' /\ ClientStep /\ Copies
  <2>1. f \in Nat /\ out = Body(f) /\ new.out # NULL
    <3>1. f \in Nat /\ new.out = f + O1HEAP_ALIGNMENT
      BY <1>1, <1>6, UsedNat DEF Met
    <3> QED BY <3>1, Places DEF Body, NULL
  <2>2. Added(heap, mid, f) /\ n >= size + HEADER /\ n + O1HEAP_ALIGNMENT <= Size(mid, f)
    <3>1. n > 0 /\ n <= Capacity - O1HEAP_ALIGNMENT
      BY <1>6 DEF Met
    <3>2. n >= size + HEADER
      BY <3>1 DEF Holds
    <3>3. Added(heap, mid, f) /\ Size(mid, f) >= n + O1HEAP_ALIGNMENT
      BY <1>6 DEF Met
    <3>4. Size(mid, f) \in Int
      BY <1>4, <3>3, UsedNat, ChainBins DEF HeapInv, Added
    <3> HIDE DEF n, mid
    <3> QED BY <3>2, <3>3, <3>4, <1>1, Places
  <2>3. /\ blocks' = Give(Take(blocks, block), out, n, size)
        /\ last' = Call(block, out, CopySize(n, old.size))
        /\ heap' = o1heapFree(mid, block - HEADER)
    BY <1>2, <1>3, <2>1
  <2> HIDE DEF n, mid, out
  <2> DEFINE b == Give(blocks, out, n, size)
  <2>4. out \notin DOMAIN blocks /\ Owned(mid, b)
    <3>1. size + HEADER <= n
      BY <2>2, <1>1, Places
    <3> QED BY <3>1, <2>1, <2>2, <1>1, OwnedGrow
  <2>5. /\ block \in DOMAIN b /\ blocks' = Take(b, block) /\ out # block
        /\ out \in DOMAIN blocks' /\ blocks'[out] = [size |-> n, asked |-> size]
    <3>1. blocks' = Take(b, block)
      BY <2>3, <2>4, MovedBlocks
    <3> QED BY <3>1, <2>4 DEF Give, Take
  <2>6. MallocInv'
    BY <2>3, <2>4, <2>5, <1>3, <1>4, FreeOwned DEF MallocInv
  <2>7. Copies
    <3>1. /\ last'.from = block /\ last'.out = out
          /\ last'.copied = CopySize(n, old.size)
      BY <2>3 DEF Call
    <3>2. /\ old.size \in Nat /\ old.asked \in Nat /\ old.asked + HEADER <= old.size
      BY <1>1 DEF Owned
    <3>3. /\ (IF old.asked < size THEN old.asked ELSE size) + HEADER <= CopySize(n, old.size)
          /\ CopySize(n, old.size) <= n
      BY <3>2, <2>2, <1>1, Places DEF CopySize
    <3> QED BY <3>1, <3>3, <2>5 DEF Copies
  <2> DEFINE a == Asked(blocks)
             m == Asked(b)
             c == Asked(blocks')
  <2>8. Inserted(a, m, out, size)
    BY <2>4, <1>4, Given
  <2>9. /\ DOMAIN a = DOMAIN blocks /\ c = [q \in DOMAIN c |-> c[q]]
        /\ DOMAIN c = DOMAIN m \ {block} /\ \A q \in DOMAIN c : c[q] = m[q]
    BY <2>5 DEF Asked, Take
  <2> HIDE DEF a, c, m
  <2>10. /\ out \in DOMAIN c /\ c[out] = size
         /\ DOMAIN c = (DOMAIN a \ {block}) \union {out}
    BY <2>5, <2>8, <2>9 DEF Inserted
  <2>11. c = [q \in (DOMAIN a \ {block}) \union {out} |->
                IF q = out THEN c[out] ELSE a[q]]
    BY <2>8, <2>9, <2>10 DEF Inserted
  <2>12. Client!Placed(out, size)
    BY <2>8, <2>9, <2>10
    DEF Inserted, Client!Placed, Client!Apart, Separate, Records, a, Asked
  <2>13. Client!Move(block, size)
    BY <2>10, <2>11, <2>12 DEF Client!Move, a, c, Asked
  <2>14. ClientStep
    BY <2>13, <2>9 DEF ClientStep, Client!Next, a, Asked
  <2> QED BY <2>6, <2>7, <2>14
<1> QED BY <1>4, <1>5, <1>6

LEMMA AsIntZero == AsInt(0) = 0
<1>1. pow2(INT_BITS) \in Nat \ {0} /\ pow2(INT_BITS - 1) \in Nat \ {0}
  BY PowNat, MallocAssumption, SizesAssumption
<1>2. 0 % pow2(INT_BITS) = 0
  BY <1>1
<1> QED BY <1>1, <1>2 DEF AsInt

LEMMA mallocStep ==
  ASSUME MallocInv, AmountsHold, NEW size \in Amounts, malloc(size)
  PROVE  MallocInv' /\ ClientStep /\ Copies
<1>1. CASE size = 0
  BY <1>1, NoCallStep DEF malloc
<1>2. CASE size # 0
  <2>1. /\ Acquire(size, size) /\ size \in Nat \ {0} /\ size \in ClientAmounts
        /\ Holds(size, size)
    BY <1>2, SizesAssumption DEF malloc, ClientAmounts, AmountsHold
  <2> QED BY <2>1, AcquireStep
<1> QED BY <1>1, <1>2

LEMMA callocStep ==
  ASSUME MallocInv, AmountsHold, NEW count \in Counts, NEW size \in Amounts,
         calloc(count, size)
  PROVE  MallocInv' /\ ClientStep /\ Copies
<1> DEFINE n == count * size
<1>1. n \in Nat /\ AsInt(n) \in Nat /\ n \in ClientAmounts /\ Holds(AsInt(n), n)
  BY AsIntNat, SizesAssumption, MallocAssumption DEF ClientAmounts, AmountsHold
<1>2. CASE AsInt(n) = 0
  BY <1>2, NoCallStep DEF calloc
<1>3. CASE AsInt(n) # 0
  <2>1. Acquire(AsInt(n), n)
    BY <1>3 DEF calloc
  <2> HIDE DEF n
  <2>2. n # 0
    BY <1>3, AsIntZero
  <2> QED BY <2>1, <2>2, <1>1, AcquireStep
<1> QED BY <1>2, <1>3

LEMMA freeStep ==
  ASSUME MallocInv, NEW block \in DOMAIN blocks \union {NULL}, free(block)
  PROVE  MallocInv' /\ ClientStep /\ Copies
<1>1. CASE block = NULL
  BY <1>1, NoCallStep DEF free
<1>2. CASE block \in DOMAIN blocks
  BY <1>2, ReleaseStep
<1> QED BY <1>1, <1>2

LEMMA reallocStep ==
  ASSUME MallocInv, AmountsHold, NEW block \in DOMAIN blocks \union {NULL},
         NEW size \in Amounts, realloc(block, size)
  PROVE  MallocInv' /\ ClientStep /\ Copies
<1>1. CASE size = 0 /\ free(block)
  BY <1>1, freeStep
<1>2. CASE size # 0 /\ block = NULL /\ malloc(size)
  BY <1>2, mallocStep
<1>3. CASE size # 0 /\ block # NULL /\ Resized(block, size)
  BY <1>3, ResizeStep DEF AmountsHold
<1> QED BY <1>1, <1>2, <1>3 DEF realloc

LEMMA ClientNext ==
  ASSUME MallocInv, AmountsHold, [MallocNext]_mallocVars
  PROVE  MallocInv' /\ ClientStep /\ Copies
<1>1. CASE MallocNext
  <2>1. CASE ClearErrno
    <3>1. MallocInv'
      BY <2>1 DEF ClearErrno, MallocInv
    <3> QED BY <3>1, <2>1, Idle DEF ClearErrno
  <2> QED BY <1>1, <2>1, mallocStep, callocStep, freeStep, reallocStep DEF MallocNext
<1>2. CASE UNCHANGED mallocVars
  <2>1. MallocInv'
    BY <1>2 DEF mallocVars, MallocInv
  <2> QED BY <2>1, <1>2, Idle DEF mallocVars
<1> QED BY <1>1, <1>2

LEMMA ClientInit == MallocInit => MallocInv /\ Client!Init
<1>1. SUFFICES ASSUME MallocInit PROVE MallocInv /\ Client!Init
  OBVIOUS
<1>2. DOMAIN blocks = {} /\ blocks = <<>> /\ heap = o1heapInit
  BY <1>1 DEF MallocInit
<1>3. Owned(heap, blocks)
  BY <1>2, InitFact DEF Owned
<1>4. Client!Init
  BY <1>2 DEF Client!Init
<1> QED BY <1>2, <1>3, <1>4, InitFact DEF MallocInv

-----------------------------------------------------------------------------
LEMMA AlwaysMallocInv == ASSUME AmountsHold PROVE MallocSpec => []MallocInv
<1>1. MallocInv /\ [MallocNext]_mallocVars => MallocInv'
  BY ClientNext
<1> QED BY <1>1, ClientInit, PTL DEF MallocSpec

(* The client holds exactly the used fragments, each large enough for the   *)
(* header and the bytes it asked for, whichever calls of malloc, calloc,    *)
(* realloc and free were refused on the way: nothing leaks, and nothing the *)
(* client holds has been freed (clib/malloc.c, clib/heap/o1heap-shim.c).    *)
THEOREM AlwaysOwned == ASSUME AmountsHold PROVE MallocSpec => []ClientOwnsUsed
<1>1. MallocInv => ClientOwnsUsed
  <2>1. SUFFICES ASSUME MallocInv, inited PROVE ClientOwnsUsed
    BY DEF MallocInv, ClientOwnsUsed
  <2>2. Pointers(heap) = {p - HEADER : p \in DOMAIN blocks}
    <3>1. ASSUME NEW f \in UsedFragments(heap)
          PROVE  f + O1HEAP_ALIGNMENT \in {p - HEADER : p \in DOMAIN blocks}
      BY <2>1, Places, UsedNat DEF MallocInv, Owned
    <3>2. ASSUME NEW p \in DOMAIN blocks PROVE p - HEADER \in Pointers(heap)
      BY <2>1, Places DEF MallocInv, Owned, Pointers
    <3> QED BY <3>1, <3>2 DEF Pointers
  <2>3. FitsFragment
    BY <2>1 DEF MallocInv, Owned, FitsFragment, Header
  <2> QED BY <2>1, <2>2, <2>3 DEF ClientOwnsUsed
<1> QED BY <1>1, AlwaysMallocInv, PTL

(* realloc copies the header and all that the old and the new block both    *)
(* hold, and never writes past the end of the new one (o1_realloc in        *)
(* clib/heap/o1heap-shim.c).                                                *)
THEOREM AlwaysCopied == ASSUME AmountsHold PROVE MallocSpec => ReallocCopies
<1>1. MallocInv /\ [MallocNext]_mallocVars => [Copies]_mallocVars
  BY ClientNext
<1>2. MallocSpec => [][Copies]_mallocVars
  BY <1>1, AlwaysMallocInv, PTL DEF MallocSpec
<1> QED BY <1>2 DEF ReallocCopies, Copies

(* To its client the library is an allocator: each block is aligned to the  *)
(* header, lies in the arena, is as large as asked for and overlaps no      *)
(* other; realloc moves a block to where the old one is not (clib/malloc.c).*)
THEOREM ImplementsClient == ASSUME AmountsHold PROVE MallocSpec => RefinesClient
<1>1. MallocInv /\ [MallocNext]_mallocVars =>
        [Client!Next]_([p \in DOMAIN blocks |-> blocks[p].asked])
  BY ClientNext DEF ClientStep
<1> QED BY <1>1, ClientInit, AlwaysMallocInv, PTL
    DEF MallocSpec, RefinesClient, Client!Spec
=============================================================================
