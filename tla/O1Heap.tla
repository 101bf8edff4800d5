------------------------------- MODULE O1Heap -------------------------------
(***************************************************************************)
(* The O(1) heap that is the C library's default allocator                 *)
(* (clib/heap/o1heap.c).                                                   *)
(*                                                                         *)
(* The arena is tiled by fragments.  A fragment is named by the offset of  *)
(* its header from the first byte of the arena, NULL stands for the null   *)
(* pointer.  Fragments are linked by address (next, prev); the free ones   *)
(* are linked a second time into one LIFO list per power of two of their   *)
(* size (next_free, prev_free).  Sizes and amounts are in bytes.           *)
(*                                                                         *)
(* The operations are operators from a heap to a heap, so that the malloc  *)
(* layer can call several of them in a step; the actions at the end are    *)
(* one call each.                                                          *)
(***************************************************************************)
EXTENDS Integers, FiniteSets, FiniteSetsExt

CONSTANTS
  SIZE_BITS,           \* width of size_t (64 in the build)
  ALIGN_LOG,           \* O1HEAP_ALIGNMENT is 2 to this power
  INSTANCE_SIZE_PADDED,\* footprint of O1HeapInstance before the arena
  ARENA_SIZE,          \* bytes handed to o1heapInit
  Amounts,             \* amounts a client asks for
  OOM_BOUND            \* failed requests counted in a run (bound of the model)

pow2(power) == 2^power

(* The definition of 2^n by recurrence, which the provers do not have.      *)
ASSUME Pow2Laws ==
  pow2(0) = 1 /\ \A i \in 0 .. SIZE_BITS : pow2(i + 1) = 2 * pow2(i)

O1HEAP_ALIGNMENT  == pow2(ALIGN_LOG)
FRAGMENT_SIZE_MIN == pow2(ALIGN_LOG + 1)
FRAGMENT_SIZE_MAX == pow2(SIZE_BITS - 1)
Bins              == 0 .. SIZE_BITS - 1

(* o1heapInit refuses an arena without room for one fragment; the shim      *)
(* then stops the program.                                                  *)
ASSUME SizesAssumption ==
  /\ SIZE_BITS \in Nat /\ ALIGN_LOG \in Nat /\ ALIGN_LOG + 1 < SIZE_BITS
  /\ INSTANCE_SIZE_PADDED \in Nat /\ ARENA_SIZE \in Nat
  /\ ARENA_SIZE >= INSTANCE_SIZE_PADDED + FRAGMENT_SIZE_MIN
  /\ Amounts \subseteq Nat /\ OOM_BOUND \in Nat

NULL == -1

-----------------------------------------------------------------------------
(* Logarithms.  O1HEAP_CLZ counts leading zeros, so log2Floor is the index  *)
(* of the highest set bit.                                                  *)

log2Floor(x) == CHOOSE i \in Bins : pow2(i) <= x /\ x < pow2(i + 1)

log2Ceil(x) == IF x <= 1 THEN 0 ELSE log2Floor(x - 1) + 1

roundUpToPowerOf2(x) == pow2(log2Floor(x - 1) + 1)

(* Sizes become bin numbers in units of the smallest fragment.              *)
Units(size) == size \div FRAGMENT_SIZE_MIN
BinIndex(size) == log2Floor(Units(size))

-----------------------------------------------------------------------------
(* A heap is a record: fragments maps the offset of each fragment to its    *)
(* header and free links; a header dropped by a merge (its size set to 0)   *)
(* leaves the map.                                                          *)

(* Mutant: the right neighbour is not told of its new left neighbour.       *)
interlinkOneWay(frags, left, right) ==
  [f \in DOMAIN frags |->
     [frags[f] EXCEPT !.next = IF f = left THEN right ELSE @]]

interlink(frags, left, right) ==
  [f \in DOMAIN frags |->
     [frags[f] EXCEPT !.next = IF f = left  THEN right ELSE @,
                      !.prev = IF f = right THEN left  ELSE @]]

(* Makes f the head of a list whose head was head.                          *)
PushFront(frags, f, head) ==
  [g \in DOMAIN frags |->
     [frags[g] EXCEPT !.next_free = IF g = f THEN head ELSE @,
                      !.prev_free = IF g = f THEN NULL
                                    ELSE IF g = head THEN f ELSE @]]

rebin(h, f) ==
  LET idx == BinIndex(h.fragments[f].size)
  IN [h EXCEPT !.fragments = PushFront(h.fragments, f, h.bins[idx]),
               !.bins[idx] = f,
               !.nonempty_bin_mask = @ \union {idx}]

(* Makes n and p, on the two sides of a fragment in its list, neighbours.   *)
Bypass(frags, p, n) ==
  [g \in DOMAIN frags |->
     [frags[g] EXCEPT !.next_free = IF g = p THEN n ELSE @,
                      !.prev_free = IF g = n THEN p ELSE @]]

(* Mutant: the mask keeps the bit of a list that became empty.              *)
unbinKeepMask(h, f) ==
  LET frag == h.fragments[f]
      idx  == BinIndex(frag.size)
  IN [h EXCEPT !.fragments = Bypass(h.fragments, frag.prev_free, frag.next_free),
               !.bins[idx] = IF @ = f THEN frag.next_free ELSE @]

unbin(h, f) ==
  LET frag == h.fragments[f]
      idx  == BinIndex(frag.size)
  IN [h EXCEPT !.fragments = Bypass(h.fragments, frag.prev_free, frag.next_free),
               !.bins[idx] = IF @ = f THEN frag.next_free ELSE @,
               !.nonempty_bin_mask =
                  IF h.bins[idx] = f /\ frag.next_free = NULL
                  THEN @ \ {idx} ELSE @]

(* Fields of one fragment; dropping one; creating one.                      *)
Resize(h, f, size) == [h EXCEPT !.fragments[f].size = size]
Mark(h, f, used)   == [h EXCEPT !.fragments[f].used = used]
Link(h, l, r)      == [h EXCEPT !.fragments = interlink(h.fragments, l, r)]
Drop(h, f)         == [h EXCEPT !.fragments =
                         [g \in DOMAIN h.fragments \ {f} |-> h.fragments[g]]]
Fragment(size) == [size |-> size, used |-> FALSE, next |-> NULL, prev |-> NULL,
                   next_free |-> NULL, prev_free |-> NULL]
Put(h, f, size) == [h EXCEPT !.fragments =
                      [g \in DOMAIN h.fragments \union {f} |->
                         IF g = f THEN Fragment(size) ELSE h.fragments[g]]]

-----------------------------------------------------------------------------
Capacity ==
  LET room == ARENA_SIZE - INSTANCE_SIZE_PADDED
      lim  == IF room > FRAGMENT_SIZE_MAX THEN FRAGMENT_SIZE_MAX ELSE room
  IN FRAGMENT_SIZE_MIN * (lim \div FRAGMENT_SIZE_MIN)

o1heapInit ==
  rebin([fragments         |-> [f \in {0} |-> Fragment(Capacity)],
         bins              |-> [i \in Bins |-> NULL],
         nonempty_bin_mask |-> {},
         diagnostics       |-> [capacity          |-> Capacity,
                                allocated         |-> 0,
                                peak_allocated    |-> 0,
                                peak_request_size |-> 0,
                                oom_count         |-> 0]], 0)

MaxOf(a, b) == IF a < b THEN b ELSE a

Requestable(h, amount) ==
  /\ amount > 0
  /\ amount <= h.diagnostics.capacity - O1HEAP_ALIGNMENT

(* Mutant: the smallest power of two that holds the amount, header or not.  *)
FragmentSizeBare(amount) ==
  roundUpToPowerOf2(MaxOf(FRAGMENT_SIZE_MIN, amount))

FragmentSize(amount) == roundUpToPowerOf2(amount + O1HEAP_ALIGNMENT)

(* Mutant: the bin of the exact size is passed over.                        *)
SuitableBinsAbove(h, amount) ==
  {i \in h.nonempty_bin_mask : i > log2Ceil(Units(FragmentSize(amount)))}

SuitableBins(h, amount) ==
  {i \in h.nonempty_bin_mask : i >= log2Ceil(Units(FragmentSize(amount)))}

Smallest(S) == CHOOSE i \in S : \A j \in S : i <= j

(* Mutant: the fragment handed out keeps the size it had before the split.  *)
SplitNoShrink(h, f, size) ==
  LET leftover == h.fragments[f].size - size
      new      == f + size
      right    == h.fragments[f].next
  IN IF leftover >= FRAGMENT_SIZE_MIN
     THEN rebin(Link(Link(Put(h, new, leftover), new, right), f, new), new)
     ELSE h

(* Cuts fragment f, which is in no bin, down to the given size; what is     *)
(* left over becomes a free fragment to its right.                          *)
Split(h, f, size) ==
  LET leftover == h.fragments[f].size - size
      new      == f + size
      cut      == Put(Resize(h, f, size), new, leftover)
      right    == h.fragments[f].next
  IN IF leftover >= FRAGMENT_SIZE_MIN
     THEN rebin(Link(Link(cut, new, right), f, new), new)
     ELSE Resize(h, f, size)

Account(diag, size) ==
  [diag EXCEPT !.allocated = @ + size,
               !.peak_allocated = MaxOf(@, diag.allocated + size)]

(* Mutant: a free gives back the smallest fragment whatever the block.      *)
UnaccountMin(diag, size) == [diag EXCEPT !.allocated = @ - FRAGMENT_SIZE_MIN]

Unaccount(diag, size) == [diag EXCEPT !.allocated = @ - size]

Carve(h, f, size) ==
  Mark([Split(unbin(h, f), f, size) EXCEPT !.diagnostics = Account(@, size)],
       f, TRUE)

CountRequest(diag, amount, failed) ==
  [diag EXCEPT !.peak_request_size = MaxOf(@, amount),
               !.oom_count = IF failed /\ amount > 0 THEN @ + 1 ELSE @]

(* The result is the heap left behind and the pointer returned.             *)
o1heapAllocate(h, amount) ==
  LET fits == Requestable(h, amount) /\ SuitableBins(h, amount) # {}
      frag == h.bins[Smallest(SuitableBins(h, amount))]
      left == IF fits THEN Carve(h, frag, FragmentSize(amount)) ELSE h
  IN [heap |-> [left EXCEPT !.diagnostics = CountRequest(@, amount, ~fits)],
      out  |-> IF fits THEN frag + O1HEAP_ALIGNMENT ELSE NULL]

(* Mutant: the first fragment, at offset 0, is taken for the null pointer.  *)
IsFreeNotFirst(h, f) == f > 0 /\ ~h.fragments[f].used

IsFree(h, f) == f # NULL /\ ~h.fragments[f].used

UnbinIfFree(h, f) == IF IsFree(h, f) THEN unbin(h, f) ELSE h

(* Fragment right disappears into its left neighbour.                       *)
Join(h, left, right) ==
  LET both == h.fragments[left].size + h.fragments[right].size
  IN Link(Drop(Resize(h, left, both), right), left, h.fragments[right].next)

(* The block's fragment is marked free and merged with the neighbours that  *)
(* are free, which leave their bins first; the result goes into its bin.    *)
o1heapFree(h, pointer) ==
  LET f        == pointer - O1HEAP_ALIGNMENT
      prev     == h.fragments[f].prev
      next     == h.fragments[f].next
      freed    == Mark([h EXCEPT !.diagnostics =
                          Unaccount(@, h.fragments[f].size)], f, FALSE)
      apart    == UnbinIfFree(UnbinIfFree(freed, prev), next)
      right    == IF IsFree(h, next) THEN Join(apart, f, next) ELSE apart
      whole    == IF IsFree(h, prev) THEN Join(right, prev, f) ELSE right
  IN IF pointer = NULL THEN h
     ELSE rebin(whole, IF IsFree(h, prev) THEN prev ELSE f)

-----------------------------------------------------------------------------
(* The allocator as a machine: one action per call.  A client frees what it *)
(* was given, once, or NULL.                                                *)

VARIABLES
  heap,
  blocks      \* the client's: pointer it was given |-> what it asked for

heapVars == <<heap, blocks>>

UsedFragments(h) == {f \in DOMAIN h.fragments : h.fragments[f].used}
FreeFragments(h) == {f \in DOMAIN h.fragments : ~h.fragments[f].used}
Pointers(h)      == {f + O1HEAP_ALIGNMENT : f \in UsedFragments(h)}

Init == heap = o1heapInit /\ blocks = <<>>

Allocate(amount) ==
  LET new == o1heapAllocate(heap, amount)
  IN /\ heap.diagnostics.oom_count < OOM_BOUND
     /\ heap' = new.heap
     /\ blocks' = IF new.out = NULL THEN blocks
                  ELSE [p \in DOMAIN blocks \union {new.out} |->
                          IF p = new.out THEN amount ELSE blocks[p]]

Free(pointer) ==
  /\ heap' = o1heapFree(heap, pointer)
  /\ blocks' = [p \in DOMAIN blocks \ {pointer} |-> blocks[p]]

Next == \/ \E amount \in Amounts : Allocate(amount)
        \/ \E pointer \in DOMAIN blocks \union {NULL} : Free(pointer)

Spec == Init /\ [][Next]_heapVars

-----------------------------------------------------------------------------
(* The shape of a heap: every field in its range, the links pointing at     *)
(* fragments.                                                               *)
Address  == 0 .. Capacity - 1
Link0    == Address \union {NULL}
FragmentType == [size : 1 .. Capacity, used : BOOLEAN, next : Link0,
                 prev : Link0, next_free : Link0, prev_free : Link0]

DiagnosticsType == [capacity : {Capacity}, allocated : Int, peak_allocated : Int,
                    peak_request_size : Nat, oom_count : Nat]

TypeOK ==
  /\ DOMAIN heap = {"fragments", "bins", "nonempty_bin_mask", "diagnostics"}
  /\ DOMAIN heap.fragments \subseteq Address
  /\ \A f \in DOMAIN heap.fragments : heap.fragments[f] \in FragmentType
  /\ heap.bins \in [Bins -> Link0]
  /\ heap.nonempty_bin_mask \subseteq Bins
  /\ heap.diagnostics \in DiagnosticsType

-----------------------------------------------------------------------------
(* Safety.                                                                  *)

Size(h, f) == h.fragments[f].size

(* Fragments stay whole multiples of the smallest one, which is what keeps  *)
(* every leftover of a split large enough to be a fragment.                 *)
WholeFragments ==
  \A f \in DOMAIN heap.fragments :
    \E k \in 1 .. Capacity : Size(heap, f) = k * FRAGMENT_SIZE_MIN

(* The fragments, followed by address, cover the arena from end to end      *)
(* without a gap or an overlap, and both directions of the links agree      *)
(* (interlink, the split in o1heapAllocate, the merges in o1heapFree).      *)
Neighbours(h) ==
  \A f \in DOMAIN h.fragments :
    LET frag == h.fragments[f]
    IN /\ \/ frag.next = NULL /\ f + frag.size = Capacity
          \/ /\ frag.next \in DOMAIN h.fragments
             /\ frag.next = f + frag.size
             /\ h.fragments[frag.next].prev = f
       /\ \/ frag.prev = NULL /\ f = 0
          \/ /\ frag.prev \in DOMAIN h.fragments
             /\ h.fragments[frag.prev].next = f

Disjoint(h) ==
  \A f, g \in DOMAIN h.fragments : f < g => f + Size(h, f) <= g

Tiling == /\ 0 \in DOMAIN heap.fragments /\ Neighbours(heap) /\ Disjoint(heap)
          /\ WholeFragments

(* The free lists hold the free fragments, each in the list of its size,    *)
(* and the mask tells which lists are not empty: a bit left set would make  *)
(* the next o1heapAllocate dereference NULL (rebin, unbin).  S is the set   *)
(* of fragments that should be listed.                                      *)
Listed(h, S) ==
  /\ h.nonempty_bin_mask = {i \in Bins : h.bins[i] # NULL}
  /\ \A i \in h.nonempty_bin_mask :
       /\ h.bins[i] \in S
       /\ BinIndex(Size(h, h.bins[i])) = i
       /\ h.fragments[h.bins[i]].prev_free = NULL
  /\ \A f \in S :
       LET frag == h.fragments[f]
           same(g) == g \in S /\ BinIndex(Size(h, g)) = BinIndex(frag.size)
       IN /\ frag.next_free = NULL
             \/ /\ same(frag.next_free)
                /\ h.fragments[frag.next_free].prev_free = f
          /\ \/ frag.prev_free = NULL /\ h.bins[BinIndex(frag.size)] = f
             \/ /\ same(frag.prev_free)
                /\ h.fragments[frag.prev_free].next_free = f

FreeLists == Listed(heap, FreeFragments(heap))

(* No two free fragments touch: o1heapFree merges on both sides whatever    *)
(* the order of the frees, so that an empty heap is one fragment again.     *)
NoFreeNeighbours(h) ==
  \A f \in FreeFragments(h) :
    h.fragments[f].next # NULL => h.fragments[h.fragments[f].next].used

Coalesced == NoFreeNeighbours(heap)

(* The self-check of the source, over the diagnostics it keeps.             *)
o1heapDoInvariantsHold ==
  LET d == heap.diagnostics
  IN /\ \A i \in Bins : i \in heap.nonempty_bin_mask <=> heap.bins[i] # NULL
     /\ d.capacity <= FRAGMENT_SIZE_MAX /\ d.capacity >= FRAGMENT_SIZE_MIN
     /\ d.capacity % FRAGMENT_SIZE_MIN = 0
     /\ d.allocated <= d.capacity /\ d.allocated % FRAGMENT_SIZE_MIN = 0
     /\ d.peak_allocated <= d.capacity /\ d.peak_allocated >= d.allocated
     /\ d.peak_allocated % FRAGMENT_SIZE_MIN = 0
     /\ d.peak_request_size < d.capacity \/ d.oom_count > 0
     /\ IF d.peak_request_size = 0
        THEN d.peak_allocated = 0 /\ d.allocated = 0 /\ d.oom_count = 0
        ELSE \/ d.peak_request_size + O1HEAP_ALIGNMENT <= d.peak_allocated
             \/ d.oom_count > 0

(* The count of allocated bytes is the sum over the used fragments: the     *)
(* free subtracts the size before the merge changes it.                     *)
AllocatedAccounts ==
  heap.diagnostics.allocated =
    MapThenSumSet(LAMBDA f : Size(heap, f), UsedFragments(heap))

(* Both: what the source checks of its diagnostics, and what they count.    *)
DiagnosticsHold == o1heapDoInvariantsHold /\ AllocatedAccounts

(* A request within the capacity fails only when no free fragment holds the *)
(* rounded-up block: the bin search never overlooks one that does.          *)
OutOfMemoryOnlyWhenFull ==
  [][\A amount \in Amounts :
       (/\ Allocate(amount) /\ Requestable(heap, amount)
        /\ heap'.diagnostics.oom_count > heap.diagnostics.oom_count)
       => \A f \in FreeFragments(heap) : Size(heap, f) < FragmentSize(amount)]_heapVars

-----------------------------------------------------------------------------
(* What the allocator promises (module Allocator): every block out holds    *)
(* the very amount its call asked for, clear of the other blocks, of their  *)
(* headers and of the arena's end, until it is freed (o1heapAllocate,       *)
(* o1heapFree).                                                             *)
Promise == INSTANCE Allocator WITH
             ARENA <- Capacity, ALIGN <- O1HEAP_ALIGNMENT, RECORD <- O1HEAP_ALIGNMENT

RefinesAllocator == Promise!Spec
=============================================================================
