------------------------------ MODULE Allocator ------------------------------
(***************************************************************************)
(* What a memory allocator promises its client, whatever the algorithm:    *)
(* the heap implementations behind malloc (clib/heap) are shown to         *)
(* implement it.                                                           *)
(***************************************************************************)
EXTENDS Integers

CONSTANTS
  ARENA,     \* bytes in the arena
  ALIGN,     \* alignment of every block
  RECORD,    \* bytes in front of every block in which the allocator keeps its records
  Amounts    \* amounts a client asks for

VARIABLE blocks   \* the blocks that are out: offset |-> bytes it was asked for

(* What is stored in one block harms neither the other nor its records.     *)
Apart(p, n, q, m) == p + n <= q - RECORD \/ q + m <= p - RECORD

Init == blocks = <<>>

(* A block of amount bytes at p is aligned, inside the arena with its       *)
(* records, and shares no byte with the blocks out before the step.         *)
Placed(p, amount) ==
  /\ p \in RECORD .. ARENA - 1 /\ p % ALIGN = 0 /\ p + amount <= ARENA
  /\ \A q \in DOMAIN blocks : Apart(p, amount, q, blocks[q])

(* A block of the amount asked for appears; the others stay as they are.    *)
Obtain(amount) ==
  \E p \in DOMAIN blocks' :
    /\ Placed(p, amount)
    /\ blocks' = [q \in DOMAIN blocks \union {p} |->
                    IF q = p THEN amount ELSE blocks[q]]

(* A block leaves; the others stay as they are.  A request refused, or a    *)
(* free of NULL, changes nothing.                                           *)
Release(p) == blocks' = [q \in DOMAIN blocks \ {p} |-> blocks[q]]

(* A block moves: the new one overlaps neither the old one, from which its  *)
(* contents come, nor any other.                                            *)
Move(p, amount) ==
  \E q \in DOMAIN blocks' :
    /\ Placed(q, amount)
    /\ blocks' = [r \in (DOMAIN blocks \ {p}) \union {q} |->
                    IF r = q THEN amount ELSE blocks[r]]

Next == \/ \E amount \in Amounts \ {0} : Obtain(amount)
        \/ \E p \in DOMAIN blocks : Release(p)
        \/ \E p \in DOMAIN blocks, amount \in Amounts \ {0} : Move(p, amount)

Spec == Init /\ [][Next]_blocks
=============================================================================
