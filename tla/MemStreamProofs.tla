--------------------------- MODULE MemStreamProofs ---------------------------
(***************************************************************************)
(* What a careful program writes to a memory stream stays in the buffer,   *)
(* whatever the sizes of buffer, growth and writes, and wherever realloc   *)
(* puts the buffer or refuses to.                                          *)
(*                                                                         *)
(* The four properties hold together only: contents are kept because the   *)
(* position and the extent leave room for the terminator, and that room is *)
(* what makes MEM_FREE at least zero, and so a write complete.             *)
(***************************************************************************)
EXTENDS MemStream, TLAPS

IInv == TypeOK /\ ContentKept /\ ViewLive /\ WriteStores

LEMMA InitInv == Init => IInv
BY MemStreamAssumption
   DEF Init, IInv, TypeOK, ContentKept, ViewLive, WriteStores, Told, Outcome

------------------------------------------------------------------------------
(* What fits behind the position leaves room for the terminator.           *)
LEMMA FitsFact ==
  ASSUME TypeOK, NEW m \in Nat, extent < m, NEW length \in Lengths
  PROVE  /\ Fits(m, length) \in Nat /\ Fits(m, length) <= length
         /\ pos + Fits(m, length) < m
         /\ Free(m) >= length => Fits(m, length) = length
<1> length \in Nat \ {0}
  BY MemStreamAssumption
<1> QED BY DEF TypeOK, Fits, Free, Least

(* A write into a buffer b of m bytes that holds what was written before,  *)
(* except perhaps where the write itself begins.                           *)
LEMMA WriteInv ==
  ASSUME TypeOK, NEW m \in Nat, extent < m,
         NEW length \in Lengths, NEW byte \in Bytes,
         NEW b, DOMAIN b = 0..(m - 1),
         \A i \in DOMAIN b :
           \/ i = pos /\ Fits(m, length) > 0
           \/ b[i] = (IF i < extent THEN data[i] ELSE 0),
         \A i \in DOMAIN b : b[i] \in Bytes \cup {0},
         NEW refused, Write(b, m, length, byte, refused)
  PROVE  /\ size' = m /\ extent' \in Nat /\ extent' < size' /\ extent <= extent'
         /\ pos' \in 0..extent' /\ DOMAIN buf' = 0..(size' - 1)
         /\ \A i \in DOMAIN buf' : buf'[i] \in Bytes \cup {0}
         /\ DOMAIN data' = 0..(extent' - 1)
         /\ ContentKept'
<1> DEFINE n == Fits(m, length)
<1>1. n \in Nat /\ n <= length /\ pos + n < m /\ extent \in Nat /\ pos \in 0..extent
  BY FitsFact DEF TypeOK
<1>2. /\ size' = m /\ buf' = Stored(b, n, byte) /\ pos' = pos + n
      /\ extent' = IF n > 0 THEN Most(extent, pos + n) ELSE extent
      /\ data' = IF n > 0 THEN Wrote(n, byte) ELSE data
  BY DEF Write
<1> HIDE DEF n
<1>3. /\ size' = m /\ extent' \in Nat /\ extent' < size' /\ extent <= extent'
      /\ pos' \in 0..extent'
  BY <1>1, <1>2 DEF Most
<1>4. /\ DOMAIN buf' = 0..(size' - 1)
      /\ \A i \in DOMAIN buf' :
           buf'[i] = IF pos <= i /\ i < pos + n THEN byte ELSE b[i]
  BY <1>2 DEF Stored
<1>5. \A i \in DOMAIN buf' : buf'[i] \in Bytes \cup {0}
  BY <1>2, <1>4
<1>6. CASE n = 0
  <2>1. ContentKept'
    BY <1>2, <1>4, <1>6, <1>1 DEF ContentKept, n
  <2> QED BY <2>1, <1>2, <1>3, <1>4, <1>5, <1>6 DEF TypeOK
<1>7. CASE n > 0
  <2>1. /\ DOMAIN data' = 0..(extent' - 1)
        /\ \A i \in 0..(extent' - 1) :
             data'[i] = IF pos <= i /\ i < pos + n THEN byte
                        ELSE IF i < extent THEN data[i] ELSE 0
    BY <1>2, <1>7 DEF Wrote
  <2>2. ASSUME NEW i \in DOMAIN buf'
        PROVE  buf'[i] = IF i < extent' THEN data'[i] ELSE 0
    <3>1. i \in Int /\ 0 <= i /\ i < m /\ i \in DOMAIN b
      BY <1>2, <1>4
    <3>2. CASE pos <= i /\ i < pos + n
      BY <3>1, <3>2, <2>1, <1>1, <1>2, <1>4, <1>7 DEF Most
    <3>3. CASE ~(pos <= i /\ i < pos + n)
      <4>1. i # pos /\ buf'[i] = b[i]
        BY <3>1, <3>3, <1>1, <1>4, <1>7
      <4>2. buf'[i] = IF i < extent THEN data[i] ELSE 0
        BY <3>1, <4>1
      <4>3. ASSUME i < extent'
            PROVE  data'[i] = IF i < extent THEN data[i] ELSE 0
        <5>1. i \in 0..(extent' - 1)
          BY <3>1, <4>3, <1>3
        <5>2. data'[i] = IF pos <= i /\ i < pos + n THEN byte
                         ELSE IF i < extent THEN data[i] ELSE 0
          BY <2>1, <5>1
        <5> QED BY <5>2, <3>3
      <4> QED BY <4>2, <4>3, <3>1, <1>1, <1>3
    <3> QED BY <3>2, <3>3
  <2> QED BY <2>1, <2>2, <1>3, <1>4, <1>5 DEF ContentKept
<1> QED BY <1>1, <1>6, <1>7

(* A write that finds room, and one that realloc refused to make room for. *)
LEMMA InPlace ==
  ASSUME IInv, NEW length \in Lengths, NEW byte \in Bytes, NEW refused \in BOOLEAN,
         Write(buf, size, length, byte, refused), Enough(length) \/ refused,
         UNCHANGED <<base, view, terminator>>
  PROVE  IInv'
<1>1. TypeOK /\ ContentKept /\ size \in Nat /\ extent < size
  BY DEF IInv, TypeOK
<1>2. /\ DOMAIN buf = 0..(size - 1)
      /\ \A i \in DOMAIN buf : buf[i] = IF i < extent THEN data[i] ELSE 0
      /\ \A i \in DOMAIN buf : buf[i] \in Bytes \cup {0}
  BY <1>1 DEF TypeOK, ContentKept
<1>3. /\ size' = size /\ extent' \in Nat /\ extent' < size' /\ extent <= extent'
      /\ pos' \in 0..extent' /\ DOMAIN buf' = 0..(size' - 1)
      /\ \A i \in DOMAIN buf' : buf'[i] \in Bytes \cup {0}
      /\ DOMAIN data' = 0..(extent' - 1)
      /\ ContentKept'
  BY <1>1, <1>2, WriteInv
<1>4. TypeOK'
  BY <1>1, <1>2, <1>3 DEF TypeOK, Write
<1>5. ViewLive'
  BY <1>1, <1>3 DEF IInv, TypeOK, ViewLive
<1>6. last' = Outcome(length, Fits(size, length), refused)
  BY DEF Write
<1>7. refused \/ Fits(size, length) = length
  BY <1>1, FitsFact, MemStreamAssumption DEF Enough, TypeOK, Free
<1>8. WriteStores'
  BY <1>6, <1>7 DEF WriteStores, Outcome
<1> QED BY <1>3, <1>4, <1>5, <1>8 DEF IInv

(* A buffer that grows is filled from the old one, and told to the program. *)
LEMMA GrowInv ==
  ASSUME IInv, NEW length \in Lengths, NEW byte \in Bytes, Grow(length, byte)
  PROVE  IInv'
<1> DEFINE m == NewSize(length)
           g == Grown(length)
           b == Terminated(g, pos)
<1>1. /\ TypeOK /\ ContentKept /\ extent \in Nat /\ pos \in 0..extent
      /\ size \in Nat /\ extent < size /\ length \in Nat \ {0}
  BY MemStreamAssumption DEF IInv, TypeOK
<1>2. m \in Nat /\ extent < m /\ Free(m) >= length
  BY <1>1, MemStreamAssumption DEF NewSize, Free
<1>3. Fits(m, length) = length
  BY <1>1, <1>2, FitsFact
<1>4. DOMAIN g = 0..(m - 1) /\ \A i \in DOMAIN g : g[i] = IF i < extent THEN data[i] ELSE 0
  <2>1. \A i \in 0..(m - 1) :
          g[i] = IF i < extent /\ i \in DOMAIN buf THEN buf[i] ELSE 0
    BY DEF Grown
  <2>2. DOMAIN buf = 0..(size - 1)
    BY <1>1 DEF TypeOK
  <2>3. DOMAIN g = 0..(m - 1)
    BY DEF Grown
  <2> QED BY <2>1, <2>2, <2>3, <1>1, <1>2 DEF ContentKept
<1>5. \A i \in DOMAIN g : g[i] \in Bytes \cup {0}
  <2>1. \A i \in 0..(m - 1) :
          g[i] = IF i < extent /\ i \in DOMAIN buf THEN buf[i] ELSE 0
    BY DEF Grown
  <2> QED BY <2>1, <1>1, <1>4 DEF TypeOK
<1>6. /\ Write(b, m, length, byte, FALSE) /\ base' \in Bases
      /\ view' = Told(base', extent) /\ terminator' = pos
  BY DEF Grow
<1> HIDE DEF m, g
<1>7. /\ DOMAIN b = 0..(m - 1)
      /\ \A i \in DOMAIN b : i = pos \/ b[i] = g[i]
      /\ \A i \in DOMAIN b : b[i] \in Bytes \cup {0}
  BY <1>4, <1>5 DEF Terminated
<1>8. /\ Fits(m, length) > 0
      /\ \A i \in DOMAIN b :
           \/ i = pos /\ Fits(m, length) > 0
           \/ b[i] = (IF i < extent THEN data[i] ELSE 0)
  BY <1>1, <1>3, <1>4, <1>7
<1> HIDE DEF b
<1>9. /\ size' = m /\ extent' \in Nat /\ extent' < size' /\ extent <= extent'
      /\ pos' \in 0..extent' /\ DOMAIN buf' = 0..(size' - 1)
      /\ \A i \in DOMAIN buf' : buf'[i] \in Bytes \cup {0}
      /\ DOMAIN data' = 0..(extent' - 1)
      /\ ContentKept'
  BY <1>1, <1>2, <1>6, <1>7, <1>8, WriteInv
<1>10. TypeOK'
  <2>1. open' \in BOOLEAN
    BY <1>1, <1>6 DEF Write, TypeOK
  <2>2. view' \in [base : Bases \cup {None}, size : Nat]
    BY <1>1, <1>6 DEF Told
  <2>3. terminator' \in DOMAIN buf'
    BY <1>1, <1>2, <1>6, <1>9
  <2> QED BY <2>1, <2>2, <2>3, <1>2, <1>6, <1>9 DEF TypeOK
<1>11. ViewLive'
  BY <1>6, <1>9 DEF ViewLive, Told
<1>12. WriteStores'
  BY <1>3, <1>6 DEF Write, WriteStores, Outcome
<1> QED BY <1>9, <1>10, <1>11, <1>12 DEF IInv

LEMMA SeekInv ==
  ASSUME Careful, IInv, NEW whence, NEW offset \in Offsets, fseek(whence, offset)
  PROVE  IInv'
<1>1. Moved(whence, offset) \in 0..extent
  BY MemStreamAssumption DEF fseek, Moved, Most, IInv, TypeOK
<1>2. TypeOK'
  BY <1>1 DEF IInv, TypeOK, fseek
<1> QED BY <1>2 DEF IInv, fseek, ContentKept, ViewLive, WriteStores

(* A careful program has the terminator put at the end, where it changes   *)
(* nothing.                                                                *)
LEMMA UpdateInv ==
  ASSUME Careful, IInv, Update, open' \in BOOLEAN
  PROVE  IInv'
<1>1. /\ pos = extent /\ extent \in DOMAIN buf /\ buf[extent] = 0
      /\ DOMAIN buf = 0..(size - 1) /\ extent \in Nat /\ size \in Nat
  BY DEF Update, IInv, TypeOK, ContentKept
<1>2. DOMAIN buf' = DOMAIN buf /\ \A i \in DOMAIN buf : buf'[i] = buf[i]
  BY <1>1 DEF Update, Terminated
<1>3. view' = Told(base, extent) /\ base \in Bases
      /\ UNCHANGED <<size, base, pos, extent, last, data>> /\ terminator' = pos
  BY DEF Update, IInv, TypeOK
<1>4. TypeOK'
  <2>1. view' \in [base : Bases \cup {None}, size : Nat]
    BY <1>1, <1>3 DEF Told
  <2> QED BY <1>1, <1>2, <1>3, <2>1 DEF IInv, TypeOK
<1>5. ContentKept'
  BY <1>2, <1>3 DEF IInv, ContentKept
<1>6. ViewLive' /\ WriteStores'
  BY <1>1, <1>3 DEF IInv, ViewLive, WriteStores, Told
<1> QED BY <1>4, <1>5, <1>6 DEF IInv

LEMMA NextInv ==
  ASSUME Careful, IInv, [Next]_vars
  PROVE  IInv'
<1>1. ASSUME NEW length \in Lengths, NEW byte \in Bytes, fwrite(length, byte)
      PROVE  IInv'
  BY <1>1, InPlace, GrowInv DEF fwrite
<1>2. ASSUME NEW whence, NEW offset \in Offsets, fseek(whence, offset)
      PROVE  IInv'
  BY <1>2, SeekInv
<1>3. CASE fflush
  BY <1>3, UpdateInv DEF fflush, IInv, TypeOK
<1>4. CASE fclose
  BY <1>4, UpdateInv DEF fclose
<1>5. CASE UNCHANGED vars
  BY <1>5 DEF vars, IInv, TypeOK, ContentKept, ViewLive, WriteStores
<1> QED BY <1>1, <1>2, <1>3, <1>4, <1>5 DEF Next

LEMMA AlwaysInv == ASSUME Careful PROVE Spec => []IInv
<1>1. IInv /\ [Next]_vars => IInv'
  BY NextInv
<1> QED BY <1>1, InitInv, PTL DEF Spec

------------------------------------------------------------------------------
(* For every buffer, growth and write size: position, extent and           *)
(* terminator of a careful program stay inside the buffer.                 *)
THEOREM TypeCorrect == ASSUME Careful PROVE Spec => []TypeOK
<1>1. IInv => TypeOK
  BY DEF IInv
<1> QED BY <1>1, AlwaysInv, PTL

(* Whatever a careful program writes, wherever it seeks, and whether or    *)
(* not realloc refuses or moves the buffer, the buffer holds what was      *)
(* written, and nothing behind it.                                         *)
THEOREM AlwaysKept == ASSUME Careful PROVE Spec => []ContentKept
<1>1. IInv => ContentKept
  BY DEF IInv
<1> QED BY <1>1, AlwaysInv, PTL

(* The program never holds the address of a buffer that realloc moved.     *)
THEOREM AlwaysLive == ASSUME Careful PROVE Spec => []ViewLive
<1>1. IInv => ViewLive
  BY DEF IInv
<1> QED BY <1>1, AlwaysInv, PTL

(* A write of a careful program is short only when memory was refused.     *)
THEOREM AlwaysStores == ASSUME Careful PROVE Spec => []WriteStores
<1>1. IInv => WriteStores
  BY DEF IInv
<1> QED BY <1>1, AlwaysInv, PTL
=============================================================================
