------------------------------- MODULE Malloc -------------------------------
(***************************************************************************)
(* malloc, calloc, realloc and free (clib/malloc.c) over the O(1) heap     *)
(* (clib/heap/o1heap-shim.c), in a program; inside a relocatable module    *)
(* these calls go to the operating system instead and are not modelled.    *)
(*                                                                         *)
(* A block given to the client lies behind a header that holds its padded  *)
(* size.  A block is named by the offset of its first byte in the arena.   *)
(* Of each, blocks keeps the size in the header and the bytes asked for.   *)
(***************************************************************************)
EXTENDS O1Heap

CONSTANTS
  HEADER,     \* sizeof(alloc_t), the 8 to which sizes are rounded as well
  INT_BITS,   \* width of int
  Counts      \* element counts a client gives to calloc

ASSUME MallocAssumption ==
  /\ HEADER \in Nat \ {0} /\ O1HEAP_ALIGNMENT % HEADER = 0
  /\ INT_BITS \in 1 .. SIZE_BITS /\ Counts \subseteq Nat

VARIABLES
  inited,     \* __heap_inited: the heap is set up by the first malloc
  errno,
  last        \* the last call: block given in, block given out, bytes copied

mallocVars == <<heap, inited, blocks, errno, last>>

Call(from, out, copied) == [from |-> from, out |-> out, copied |-> copied]

(* A size_t sum rounded down to the header's size: it may wrap.             *)
RoundDown(n) == HEADER * ((n % pow2(SIZE_BITS)) \div HEADER)

(* Mutant: no room is made for the header.                                  *)
PaddedNoHeader(size) == RoundDown(size + (HEADER - 1))

Padded(size) == RoundDown(size + (HEADER - 1) + HEADER)

(* int total = count * size, passed on as a size_t.                         *)
AsInt(n) == LET m == n % pow2(INT_BITS)
            IN IF m < pow2(INT_BITS - 1) THEN m
               ELSE (m + pow2(SIZE_BITS) - pow2(INT_BITS)) % pow2(SIZE_BITS)

Heap == IF inited THEN heap ELSE o1heapInit

Give(b, out, size, asked) ==
  [p \in DOMAIN b \union {out} |->
     IF p = out THEN [size |-> size, asked |-> asked] ELSE b[p]]
Take(b, p) == [q \in DOMAIN b \ {p} |-> b[q]]

-----------------------------------------------------------------------------
(* The shim's realloc: a new block, the contents, then the old one is freed.*)

(* Mutant: the size of the old block is copied, larger or not.              *)
CopySizeOld(new_size, old_size) == old_size

CopySize(new_size, old_size) == IF new_size > old_size THEN old_size ELSE new_size

(* Mutant: the old block is freed before it is known that a new one fits.   *)
ReallocateFreeFirst(h, block, new_size, old_size) ==
  LET new == o1heapAllocate(o1heapFree(h, block), new_size)
  IN [heap |-> new.heap, out |-> new.out,
      copied |-> IF new.out = NULL THEN 0 ELSE CopySize(new_size, old_size)]

Reallocate(h, block, new_size, old_size) ==
  LET new == o1heapAllocate(h, new_size)
  IN IF new.out = NULL
     THEN [heap |-> new.heap, out |-> NULL, copied |-> 0]
     ELSE [heap |-> o1heapFree(new.heap, block), out |-> new.out,
           copied |-> CopySize(new_size, old_size)]

-----------------------------------------------------------------------------
(* malloc(size) for a client that wants asked bytes.                        *)
Acquire(size, asked) ==
  LET new == o1heapAllocate(Heap, Padded(size))
      out == new.out + HEADER
  IN /\ heap' = new.heap /\ inited' = TRUE
     /\ IF new.out = NULL
        THEN /\ errno' = "ENOMEM" /\ last' = Call(NULL, NULL, 0)
             /\ UNCHANGED blocks
        ELSE /\ blocks' = Give(blocks, out, Padded(size), asked)
             /\ last' = Call(NULL, out, 0)
             /\ UNCHANGED errno

NoCall == last' = Call(NULL, NULL, 0) /\ UNCHANGED <<heap, inited, blocks, errno>>

CanFail == inited => heap.diagnostics.oom_count < OOM_BOUND

malloc(size) ==
  /\ CanFail
  /\ IF size = 0 THEN NoCall ELSE Acquire(size, size)

calloc(count, size) ==
  /\ CanFail
  /\ IF AsInt(count * size) = 0 THEN NoCall
     ELSE Acquire(AsInt(count * size), count * size)

free(block) ==
  IF block = NULL THEN NoCall
  ELSE /\ heap' = o1heapFree(heap, block - HEADER)
       /\ blocks' = Take(blocks, block)
       /\ last' = Call(NULL, NULL, 0)
       /\ UNCHANGED <<inited, errno>>

Resized(block, size) ==
  LET new == Reallocate(heap, block - HEADER, Padded(size), blocks[block].size)
      out == new.out + HEADER
  IN /\ heap' = new.heap
     /\ IF new.out = NULL
        THEN /\ errno' = "ENOMEM" /\ last' = Call(block, NULL, 0)
             /\ UNCHANGED blocks
        ELSE /\ blocks' = Give(Take(blocks, block), out, Padded(size), size)
             /\ last' = Call(block, out, new.copied)
             /\ UNCHANGED errno
     /\ UNCHANGED inited

realloc(block, size) ==
  \/ size = 0 /\ free(block)
  \/ size # 0 /\ block = NULL /\ malloc(size)
  \/ size # 0 /\ block # NULL /\ CanFail /\ Resized(block, size)

(* errno is the client's to clear.                                          *)
ClearErrno == errno' = "0" /\ UNCHANGED <<heap, inited, blocks, last>>

MallocInit ==
  /\ heap = o1heapInit /\ inited = FALSE /\ blocks = <<>>
  /\ errno = "0" /\ last = Call(NULL, NULL, 0)

MallocNext ==
  \/ \E size \in Amounts : malloc(size)
  \/ \E count \in Counts, size \in Amounts : calloc(count, size)
  \/ \E block \in DOMAIN blocks \union {NULL} : free(block)
  \/ \E block \in DOMAIN blocks \union {NULL}, size \in Amounts : realloc(block, size)
  \/ ClearErrno

MallocSpec == MallocInit /\ [][MallocNext]_mallocVars

-----------------------------------------------------------------------------
(* The header and the bytes asked for lie inside the block's fragment, so   *)
(* that writing them harms no other block or link.                          *)
FitsFragment ==
  \A p \in DOMAIN blocks :
    LET f == p - HEADER - O1HEAP_ALIGNMENT
    IN /\ blocks[p].asked + HEADER <= blocks[p].size
       /\ blocks[p].size + O1HEAP_ALIGNMENT <= Size(heap, f)

(* The client holds exactly the used fragments, each large enough for its   *)
(* block, a failed realloc included: nothing leaks and nothing it holds has *)
(* been freed.                                                              *)
ClientOwnsUsed ==
  IF inited THEN Pointers(heap) = {p - HEADER : p \in DOMAIN blocks} /\ FitsFragment
  ELSE blocks = <<>>

(* realloc copies the header and all that both blocks hold, and never past  *)
(* the end of the new block: "realloc now copies the correct amount of      *)
(* data" (changelogs/releases/0.16.md).                                     *)
ReallocCopies ==
  [][\A p \in DOMAIN blocks :
       (last' # last /\ last'.from = p /\ last'.out # NULL) =>
         LET old == blocks[p]
             new == blocks'[last'.out]
             shared == IF old.asked < new.asked THEN old.asked ELSE new.asked
         IN shared + HEADER <= last'.copied /\ last'.copied <= new.size
    ]_mallocVars

(* To its client the library is an abstract allocator, with realloc as a    *)
(* move.                                                                    *)
Client == INSTANCE Allocator WITH
  blocks <- [p \in DOMAIN blocks |-> blocks[p].asked],
  ARENA <- Capacity, ALIGN <- HEADER, RECORD <- O1HEAP_ALIGNMENT + HEADER,
  Amounts <- Amounts \union {count * size : count \in Counts, size \in Amounts}

RefinesClient == Client!Spec

(* What the proofs ask of the amounts: none wraps round to a size too small.*)
(* The padded size holds the bytes asked for and the header, or the heap    *)
(* refuses it (0 included, to which the largest sizes wrap).                *)
Holds(size, asked) ==
  \/ Padded(size) >= asked + HEADER
  \/ ~(Padded(size) > 0 /\ Padded(size) <= Capacity - O1HEAP_ALIGNMENT)

AmountsHold ==
  /\ \A size \in Amounts : Holds(size, size)
  /\ \A count \in Counts, size \in Amounts :
       Holds(AsInt(count * size), count * size)
=============================================================================
