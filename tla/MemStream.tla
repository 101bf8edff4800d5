----------------------------- MODULE MemStream -----------------------------
(***************************************************************************)
(* A stream opened by open_memstream (io/io-memstream.c): writes go to a   *)
(* buffer that grows, and each flush, close or growth tells the program    *)
(* where the buffer is and how much was written, and puts a terminator at  *)
(* the current position.                                                   *)
(*                                                                         *)
(* A Careful program seeks only within what it has written, and flushes    *)
(* and closes only at the end of it.                                       *)
(***************************************************************************)
EXTENDS Integers

CONSTANTS
  INITIAL_SIZE, INCREASE_SIZE,
  LIMIT,      \* bound: the largest buffer realloc can give
  Bases,      \* addresses of buffers
  Bytes,      \* what the program writes: anything but 0
  Lengths,    \* how much it writes in a call
  Offsets,    \* what it gives to fseek
  Careful,
  None

ASSUME MemStreamAssumption ==
  /\ INITIAL_SIZE \in Nat \ {0} /\ INCREASE_SIZE \in Nat \ {0} /\ LIMIT \in Nat
  /\ 0 \notin Bytes /\ Lengths \subseteq Nat \ {0} /\ Offsets \subseteq Int
  /\ Careful \in BOOLEAN /\ None \notin Bases \cup Nat

VARIABLES
  open,
  buf,         \* the buffer's bytes, by offset
  size,        \* its length: MEM_END from MEM_BASE
  base,        \* MEM_BASE: its address
  pos,         \* MEM_POS: the offset of MEM_PTR
  extent,      \* MEM_EXTENT: the furthest written
  view,        \* what the program was told: address and size
  terminator,  \* the offset of the last terminator
  last,        \* the last write: bytes asked, bytes stored, growth refused?
  data         \* what the program wrote

vars == <<open, buf, size, base, pos, extent, view, terminator, last, data>>

------------------------------------------------------------------------------
Least(a, b) == IF a < b THEN a ELSE b
Most(a, b) == IF a < b THEN b ELSE a

\* MEM_FREE, which leaves room for the terminator; negative behind the buffer.
Free(n) == n - pos - 1
NewSize(need) == extent + need + INCREASE_SIZE

\* UPDATE_POINTERS; a terminator behind the buffer does not change it.
Terminated(b, p) == IF p \in DOMAIN b THEN [b EXCEPT ![p] = 0] ELSE b
Told(a, e) == [base |-> a, size |-> e]
Outcome(asked, stored, refused) ==
  [asked |-> asked, stored |-> stored, refused |-> refused]

\* The buffer after realloc, cleared from the extent on.
Grown(need) ==
  [i \in 0..(NewSize(need) - 1) |->
     IF i < extent /\ i \in DOMAIN buf THEN buf[i] ELSE 0]

\* Mutant: a buffer with just room for the data is large enough.
EnoughForData(need) == Free(size) < 0 \/ Free(size) + 1 >= need

\* The space is compared as a size_t, in which a negative one is huge.
Enough(need) == Free(size) < 0 \/ Free(size) > need

\* Mutant: the copy goes behind what was written, not to the position.
StoredAtExtent(b, n, byte) ==
  [i \in DOMAIN b |-> IF extent <= i /\ i < extent + n THEN byte ELSE b[i]]

Stored(b, n, byte) ==
  [i \in DOMAIN b |-> IF pos <= i /\ i < pos + n THEN byte ELSE b[i]]

Wrote(n, byte) ==
  [i \in 0..(Most(extent, pos + n) - 1) |->
     IF pos <= i /\ i < pos + n THEN byte ELSE IF i < extent THEN data[i] ELSE 0]

\* How much of length fits after the position in a buffer of n bytes.
Fits(n, length) == IF Free(n) > 0 THEN Least(Free(n), length) ELSE 0

------------------------------------------------------------------------------
Init == /\ open = TRUE
        /\ buf = [i \in 0..(INITIAL_SIZE - 1) |-> 0] /\ size = INITIAL_SIZE /\ base \in Bases
        /\ pos = 0 /\ extent = 0
        /\ view = Told(None, 0) /\ terminator = None
        /\ last = Outcome(0, 0, FALSE)
        /\ data = [i \in {} |-> 0]

\* __mem_write_multiple, once __mem_ensure has left the buffer b of m bytes.
Write(b, m, length, byte, refused) ==
  LET n == Fits(m, length)
  IN  /\ size' = m
      /\ buf' = Stored(b, n, byte)
      /\ pos' = pos + n
      /\ extent' = IF n > 0 THEN Most(extent, pos + n) ELSE extent
      /\ data' = IF n > 0 THEN Wrote(n, byte) ELSE data
      /\ last' = Outcome(length, n, refused)
      /\ UNCHANGED open

\* Mutant: the program is not told of the buffer's new address.
GrowQuietly(length, byte) ==
  /\ NewSize(length) <= LIMIT
  /\ base' \in Bases
  /\ terminator' = pos
  /\ Write(Terminated(Grown(length), pos), NewSize(length), length, byte, FALSE)
  /\ UNCHANGED view

\* realloc gives a buffer, here or elsewhere; the program is told at once.
Grow(length, byte) ==
  /\ NewSize(length) <= LIMIT
  /\ base' \in Bases
  /\ view' = Told(base', extent)
  /\ terminator' = pos
  /\ Write(Terminated(Grown(length), pos), NewSize(length), length, byte, FALSE)

fwrite(length, byte) ==
  /\ open
  /\ IF Enough(length)
     THEN Write(buf, size, length, byte, FALSE) /\ UNCHANGED <<base, view, terminator>>
     ELSE \/ Grow(length, byte)
          \/ Write(buf, size, length, byte, TRUE) /\ UNCHANGED <<base, view, terminator>>

\* SEEK_SET, and SEEK_CUR and SEEK_END, which both move from the position.
Moved(whence, offset) ==
  IF whence = "SEEK_SET" THEN Most(offset, 0) ELSE Most(pos + offset, 0)

fseek(whence, offset) ==
  /\ open
  /\ Careful => Moved(whence, offset) <= extent
  /\ pos' = Moved(whence, offset)
  /\ UNCHANGED <<open, buf, size, base, extent, view, terminator, last, data>>

Update == /\ Careful => pos = extent
          /\ view' = Told(base, extent)
          /\ buf' = Terminated(buf, pos) /\ terminator' = pos
          /\ UNCHANGED <<size, base, pos, extent, last, data>>

fflush == open /\ Update /\ UNCHANGED open
fclose == open /\ Update /\ open' = FALSE

Next == \/ \E length \in Lengths, byte \in Bytes : fwrite(length, byte)
        \/ \E whence \in {"SEEK_SET", "SEEK_CUR", "SEEK_END"}, offset \in Offsets :
             fseek(whence, offset)
        \/ fflush \/ fclose

Spec == Init /\ [][Next]_vars

------------------------------------------------------------------------------
(* The position stays within what was written, and that within the buffer, *)
(* with room for the terminator.                                           *)
TypeOK ==
  /\ open \in BOOLEAN /\ base \in Bases
  /\ size \in Nat /\ extent < size /\ DOMAIN buf = 0..(size - 1)
  /\ \A i \in DOMAIN buf : buf[i] \in Bytes \cup {0}
  /\ extent \in Nat /\ pos \in 0..extent
  /\ view \in [base : Bases \cup {None}, size : Nat]
  /\ DOMAIN data = 0..(extent - 1)
  /\ terminator \in DOMAIN buf \cup {None}

(* The buffer holds what the program wrote, byte for byte, across seeks,   *)
(* overwriting, growth and failed growth, and is zero behind that.         *)
ContentKept ==
  \A i \in DOMAIN buf : buf[i] = IF i < extent THEN data[i] ELSE 0

(* The program is never left with the address of a buffer that was moved,  *)
(* nor told of more than was written.                                      *)
ViewLive == view.base \in {None, base} /\ view.size <= extent

(* A write stores everything unless memory was refused: __mem_ensure is to *)
(* "Ensure space in the the buffer for more data".                         *)
WriteStores == last.stored = last.asked \/ last.refused
=============================================================================
