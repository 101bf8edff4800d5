----------------------------- MODULE Accumulator -----------------------------
(***************************************************************************)
(* The accumulator heap (clib/heap/accumulator.c), which a program may     *)
(* choose instead of the O(1) heap: it grows up from the base and gives    *)
(* back only the block it handed out last.  It is driven as malloc.c       *)
(* drives it: the size that comes back with a block is the one in the      *)
(* block's header.                                                         *)
(***************************************************************************)
EXTENDS Integers, FiniteSets

CONSTANTS
  HEAP_SIZE,   \* __heap_end - __heap_base
  Sizes,       \* sizes asked of the heap, header included
  HWM_BOUND    \* how far failed requests push the mark (bound of the model)

ASSUME AccumulatorAssumption ==
  HEAP_SIZE \in Nat /\ Sizes \subseteq Nat \ {0} /\ HWM_BOUND \in Nat

NULL == -1

VARIABLES
  hwm,         \* __heap_hwm, from the base
  last_alloc,
  blocks      \* the client's blocks: offset |-> size in the header

accumulatorVars == <<hwm, last_alloc, blocks>>

Ends(p) == p + blocks[p]
Put(b, p, size) == [q \in DOMAIN b \union {p} |-> IF q = p THEN size ELSE b[q]]
Take(b, p) == [q \in DOMAIN b \ {p} |-> b[q]]

(* HEAP_LEFT > 0, once the mark has moved.                                  *)
Left(mark, size) == HEAP_SIZE - (mark + size) > 0

AccumulatorInit == hwm = 0 /\ last_alloc = NULL /\ blocks = <<>>

(* The mark moves up whether or not the request fits.                       *)
alloc(size) ==
  /\ hwm + size <= HWM_BOUND
  /\ hwm' = hwm + size
  /\ IF Left(hwm, size)
     THEN last_alloc' = hwm /\ blocks' = Put(blocks, hwm, size)
     ELSE UNCHANGED <<last_alloc, blocks>>

(* The mark and the last block after a free.                                *)
FreedMark(block, size) ==
  IF block = last_alloc THEN <<hwm - size, NULL>> ELSE <<hwm, last_alloc>>

free(block) ==
  /\ hwm' = FreedMark(block, blocks[block])[1]
  /\ last_alloc' = FreedMark(block, blocks[block])[2]
  /\ blocks' = Take(blocks, block)

(* Mutant: the mark follows every block that shrinks.                       *)
ShrunkMarkAlways(block, new_size) == hwm - blocks[block] + new_size

ShrunkMark(block, new_size) ==
  IF last_alloc = block THEN hwm - blocks[block] + new_size ELSE hwm

Shrink(block, new_size) ==
  /\ new_size <= blocks[block]
  /\ hwm' = ShrunkMark(block, new_size)
  /\ blocks' = Put(blocks, block, new_size)
  /\ UNCHANGED last_alloc

(* A block that grows is freed before the new one is asked for, and stays   *)
(* freed when there is none; its owner is told NULL and still holds it.     *)
Grow(block, new_size) ==
  LET mark == FreedMark(block, blocks[block])[1]
      last == FreedMark(block, blocks[block])[2]
  IN /\ new_size > blocks[block]
     /\ mark + new_size <= HWM_BOUND
     /\ hwm' = mark + new_size
     /\ IF Left(mark, new_size)
        THEN /\ last_alloc' = mark
             /\ blocks' = Put(Take(blocks, block), mark, new_size)
        ELSE last_alloc' = last /\ UNCHANGED blocks

realloc(block, new_size) == Shrink(block, new_size) \/ Grow(block, new_size)

AccumulatorNext ==
  \/ \E size \in Sizes : alloc(size)
  \/ \E block \in DOMAIN blocks : free(block)
  \/ \E block \in DOMAIN blocks, size \in Sizes : realloc(block, size)

AccumulatorSpec == AccumulatorInit /\ [][AccumulatorNext]_accumulatorVars

-----------------------------------------------------------------------------
(* Ranges: a mark below the base would be a wild pointer.                   *)
TypeOK ==
  /\ hwm \in Nat /\ last_alloc \in Nat \union {NULL}
  /\ DOMAIN blocks \subseteq Nat
  /\ \A p \in DOMAIN blocks : blocks[p] \in Nat \ {0}

(* No two blocks overlap and none reaches the end of the heap, a block      *)
(* whose realloc failed included: realloc has freed it by then.             *)
BlocksApart ==
  /\ \A p \in DOMAIN blocks : Ends(p) < HEAP_SIZE
  /\ \A p, q \in DOMAIN blocks : p < q => Ends(p) <= q

(* The mark is above every block, and the block that can be given back is   *)
(* the client's topmost: subtracting its size uncovers no other.            *)
TopOfHeap ==
  /\ \A p \in DOMAIN blocks : Ends(p) <= hwm
  /\ last_alloc # NULL =>
       /\ last_alloc \in DOMAIN blocks
       /\ \A q \in DOMAIN blocks \ {last_alloc} : Ends(q) <= last_alloc

(* Whatever is allocated, given back and shrunk, and in whatever order: a   *)
(* block is the client's alone until it is given back.                      *)
BlocksHeld == BlocksApart /\ TopOfHeap
=============================================================================
