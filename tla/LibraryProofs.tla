---------------------------- MODULE LibraryProofs ----------------------------
(***************************************************************************)
(* Five parts of the C library that keep something from one call to the    *)
(* next: the accumulator heap (clib/heap/accumulator.c), which keeps its   *)
(* blocks apart; the clock of the program (time/time-clock.c), which is    *)
(* right for as long as it runs; getenv's block (sysvars/sysvars.c); and   *)
(* random (random/random.c), whose sequences nothing disturbs; and strtok  *)
(* (string/strtok.c), whose words stay whole.  And calls that keep         *)
(* nothing: qsort (clib/qsort.c) and bsearch (clib/bsearch.c), which are   *)
(* right for every array, and the functions of string/ that move blocks,   *)
(* and compare, search and copy texts.                                     *)
(* No bound on sizes, times, names, values, seeds, arrays, strings, blocks, *)
(* the degrees of the generators or the number of calls.                   *)
(***************************************************************************)
EXTENDS Accumulator, Console, SystemVariables, Random, SortCalls, Tokens, MemoryCalls, TLAPS,
        SequenceTheorems, FiniteSetTheorems, WellFoundedInduction

-----------------------------------------------------------------------------
(* The clock.                                                               *)
(* The clock is frozen exactly while the console waits.  The time of the    *)
(* host is never 0, which would be taken for a clock that is not frozen.    *)
ClockInv ==
  /\ now \in Nat \ {0} /\ base_time \in Int /\ frozen_time \in Nat /\ ran \in Int
  /\ waiting = Awake => frozen_time = 0 /\ ran = now - base_time
  /\ waiting # Awake => frozen_time # 0 /\ ran = frozen_time - base_time

LEMMA ClockStarts == ConsoleInit => ClockInv
BY DEF ConsoleInit, ClockInv, __sysclock

(* A call that begins to wait freezes the clock at the time it shows.       *)
LEMMA WaitsInv ==
  ASSUME ClockInv, NEW c, c # Awake, Waits(c)
  PROVE  ClockInv'
BY DEF ClockInv, Waits, __clock_freeze, __sysclock

(* A call that was waiting moves the base by the time it waited.            *)
LEMMA AnsweredInv ==
  ASSUME ClockInv, NEW c, c # Awake, Answered(c)
  PROVE  ClockInv'
BY DEF ClockInv, Answered, __clock_freeze, __sysclock

LEMMA CallsWait == <<"byte">> # Awake /\ \A size : <<"line", size>> # Awake
BY DEF Awake

LEMMA ClockStep == ClockInv /\ [ConsoleNext]_consoleVars => ClockInv'
<1> SUFFICES ASSUME ClockInv, [ConsoleNext]_consoleVars
             PROVE  ClockInv'
  OBVIOUS
<1>1. CASE Tick
  BY <1>1 DEF Tick, ClockInv
<1>2. CASE __con_read_byte
  BY <1>2, WaitsInv, CallsWait DEF __con_read_byte
<1>3. CASE ReadByteEnds
  BY <1>3, AnsweredInv, CallsWait DEF ReadByteEnds
<1>4. CASE __con_read_line
  BY <1>4, WaitsInv, CallsWait DEF __con_read_line
<1>5. CASE ReadLineEnds
  BY <1>5, AnsweredInv, CallsWait DEF ReadLineEnds
<1>6. CASE ReadLineEscapes
  BY <1>6, AnsweredInv, CallsWait DEF ReadLineEscapes
<1>7. ASSUME NEW text, NEW refused, __con_write_multiple(text, refused)
      PROVE  ClockInv'
  BY <1>7 DEF __con_write_multiple, ClockInv
<1>8. ASSUME NEW c, NEW refused, __con_write_byte(c, refused)
      PROVE  ClockInv'
  BY <1>8 DEF __con_write_byte, ClockInv
<1>9. CASE UNCHANGED consoleVars
  BY <1>9 DEF consoleVars, ClockInv
<1> QED
  BY <1>1, <1>2, <1>3, <1>4, <1>5, <1>6, <1>7, <1>8, <1>9 DEF ConsoleNext

(* For every length of time and every sequence of calls: clock() is the     *)
(* time the program has run, without what the console waited for the user.  *)
THEOREM AlwaysRunning == ConsoleSpec => []ClockCountsRunning
<1>1. ClockInv => ClockCountsRunning
  BY DEF ClockInv, ClockCountsRunning, clock, __sysclock
<1> QED BY <1>1, ClockStarts, ClockStep, PTL DEF ConsoleSpec

-----------------------------------------------------------------------------
(* getenv.                                                                  *)
(* The size the code remembers is in range whether there is a block or not: *)
(* it is kept over the end of the library, when the block is given back.    *)
EnvironInv ==
  /\ envstringlen \in Nat /\ envstringlen <= MAXIMUM_SIZE
  /\ envstring # NoBlock => envstringlen = envstring.size
  /\ got # NoValue => envstring.text = got /\ Len(got) <= envstring.size

LEMMA EnvironStarts == EnvironInit => EnvironInv
BY SizesAssumption DEF EnvironInit, EnvironInv

(* A multiple that is not above the quotient is not above the dividend.     *)
LEMMA Multiple ==
  ASSUME NEW a \in Nat, NEW b \in Nat \ {0}, NEW k \in 0 .. a \div b
  PROVE  k * b \in Nat /\ k * b <= a
<1> DEFINE q == a \div b
<1>1. q \in Nat /\ q * b <= a
  OBVIOUS
<1> HIDE DEF q
<1>2. k \in Nat /\ k <= q
  BY <1>1 DEF q
<1>3. q = k + (q - k) /\ q - k \in Nat
  BY <1>1, <1>2
<1>4. (q - k) * b \in Nat /\ q * b = k * b + (q - k) * b
  BY <1>1, <1>2, <1>3
<1> QED BY <1>1, <1>2, <1>4

(* The block grows while the value does not fit, and never beyond the       *)
(* largest size.                                                            *)
LEMMA FetchedInv ==
  ASSUME NEW value, NEW room \in Nat, room <= MAXIMUM_SIZE,
         NEW k \in Tried(value, room), Fetched(value, room, k)
  PROVE  EnvironInv'
<1>1. k \in 0 .. (MAXIMUM_SIZE - room) \div INCREMENT /\ MAXIMUM_SIZE - room \in Nat
  BY SizesAssumption DEF Tried
<1>2. k * INCREMENT \in Nat /\ k * INCREMENT <= MAXIMUM_SIZE - room
  BY <1>1, Multiple, SizesAssumption
<1> DEFINE size == room + k * INCREMENT
<1>3. size \in Nat /\ size <= MAXIMUM_SIZE
  BY <1>2, SizesAssumption
<1>4. /\ envstringlen' = size /\ envstring'.size = size
      /\ got' # NoValue => envstring'.text = got' /\ Len(got') <= size
  BY DEF Fetched
<1> HIDE DEF size
<1> QED BY <1>3, <1>4 DEF EnvironInv

LEMMA GetenvInv ==
  ASSUME EnvironInv, NEW var \in Names, getenv(var)
  PROVE  EnvironInv'
<1> DEFINE room == IF envstring = NoBlock THEN INITIAL_SIZE ELSE envstringlen
<1>1. room \in Nat /\ room <= MAXIMUM_SIZE
  BY SizesAssumption DEF EnvironInv
<1>2. CASE /\ envstring = NoBlock /\ got' = NoValue
           /\ UNCHANGED <<envstring, envstringlen>>
  BY <1>2 DEF EnvironInv
<1>3. CASE /\ variables[var] = NoVariable /\ got' = NoValue /\ envstringlen' = room
           /\ envstring' = IF envstring = NoBlock THEN [size |-> room, text |-> Overwritten]
                           ELSE envstring
  BY <1>1, <1>3 DEF EnvironInv
<1>4. CASE /\ variables[var] # NoVariable
           /\ \E k \in Tried(variables[var], room) : Fetched(variables[var], room, k)
  BY <1>1, <1>4, FetchedInv
<1> QED BY <1>2, <1>3, <1>4 DEF getenv

LEMMA EnvironStep == EnvironInv /\ [EnvironNext]_environVars => EnvironInv'
<1> SUFFICES ASSUME EnvironInv, [EnvironNext]_environVars
             PROVE  EnvironInv'
  OBVIOUS
<1>1. ASSUME NEW var \in Names, getenv(var) PROVE EnvironInv'
  BY <1>1, GetenvInv
<1>2. ASSUME NEW var, NEW val, _kernel_setenv(var, val) PROVE EnvironInv'
  BY <1>2 DEF _kernel_setenv, EnvironInv
<1>3. CASE __getenv_final
  BY <1>3 DEF __getenv_final, EnvironInv
<1>4. CASE __getenv_init
  BY <1>4, SizesAssumption DEF __getenv_init, EnvironInv
<1>5. CASE UNCHANGED environVars
  BY <1>5 DEF environVars, EnvironInv
<1> QED BY <1>1, <1>2, <1>3, <1>4, <1>5 DEF EnvironNext

(* For all sizes, names and values, with every refusal of the heap, every   *)
(* change of a variable and every restart: the size getenv remembers is its *)
(* block's, and what it returned last is whole in that block.               *)
THEOREM AlwaysHeld == EnvironSpec => []ValueHeld
<1>1. EnvironInv => ValueHeld
  BY DEF EnvironInv, ValueHeld
<1> QED BY <1>1, EnvironStarts, EnvironStep, PTL DEF EnvironSpec

-----------------------------------------------------------------------------
(* The accumulator heap.                                                    *)
MarkInv == TypeOK /\ BlocksApart /\ TopOfHeap

LEMMA InitInv == AccumulatorInit => MarkInv
BY AccumulatorAssumption DEF AccumulatorInit, MarkInv, TypeOK, BlocksApart, TopOfHeap, NULL

(* A new block is put at the mark, above all others.                        *)
LEMMA AllocInv ==
  ASSUME MarkInv, NEW size \in Sizes, alloc(size)
  PROVE  MarkInv'
<1> USE AccumulatorAssumption
<1>1. CASE Left(hwm, size)
  <2>1. /\ hwm' = hwm + size /\ last_alloc' = hwm
        /\ blocks' = Put(blocks, hwm, size)
    BY <1>1 DEF alloc
  <2>2. hwm \notin DOMAIN blocks
    BY DEF MarkInv, TypeOK, TopOfHeap, Ends
  <2>3. /\ DOMAIN blocks' = DOMAIN blocks \union {hwm}
        /\ \A p \in DOMAIN blocks' :
             blocks'[p] = IF p = hwm THEN size ELSE blocks[p]
    BY <2>1 DEF Put
  <2>4. TypeOK'
    BY <2>1, <2>3 DEF MarkInv, TypeOK, NULL
  <2>5. BlocksApart'
    BY <1>1, <2>1, <2>2, <2>3 DEF MarkInv, TypeOK, BlocksApart, TopOfHeap, Ends, Left
  <2>6. TopOfHeap'
    BY <2>1, <2>2, <2>3 DEF MarkInv, TypeOK, TopOfHeap, Ends
  <2> QED BY <2>4, <2>5, <2>6 DEF MarkInv
<1>2. CASE ~Left(hwm, size)
  BY <1>2 DEF alloc, MarkInv, TypeOK, BlocksApart, TopOfHeap, Ends, NULL
<1> QED BY <1>1, <1>2

(* What a free does to the mark, the last block and the client's blocks.    *)
LEMMA FreedInv ==
  ASSUME MarkInv, NEW block \in DOMAIN blocks,
         NEW mark, mark = FreedMark(block, blocks[block])[1],
         NEW latest, latest = FreedMark(block, blocks[block])[2]
  PROVE  /\ mark \in Nat /\ latest \in Nat \union {NULL} /\ mark <= hwm
         /\ latest # block
         /\ \A q \in DOMAIN blocks \ {block} : Ends(q) <= mark
         /\ latest # NULL => /\ latest = last_alloc /\ latest \in DOMAIN blocks
         /\ last_alloc = block => mark = hwm - blocks[block] /\ mark >= block
         /\ last_alloc # block => mark = hwm
<1>1. CASE block = last_alloc
  <2>1. mark = hwm - blocks[block] /\ latest = NULL
    BY <1>1 DEF FreedMark
  <2> QED BY <1>1, <2>1 DEF MarkInv, TypeOK, TopOfHeap, Ends, NULL
<1>2. CASE block # last_alloc
  <2>1. mark = hwm /\ latest = last_alloc
    BY <1>2 DEF FreedMark
  <2> QED BY <1>2, <2>1 DEF MarkInv, TypeOK, TopOfHeap, Ends
<1> QED BY <1>1, <1>2

LEMMA FreeInv ==
  ASSUME MarkInv, NEW block \in DOMAIN blocks, free(block)
  PROVE  MarkInv'
<1>1. /\ hwm' = FreedMark(block, blocks[block])[1]
      /\ last_alloc' = FreedMark(block, blocks[block])[2]
      /\ blocks' = Take(blocks, block)
  BY DEF free
<1>2. /\ DOMAIN blocks' = DOMAIN blocks \ {block}
      /\ \A p \in DOMAIN blocks' : blocks'[p] = blocks[p]
  BY <1>1 DEF Take
<1>3. /\ hwm' \in Nat /\ last_alloc' \in Nat \union {NULL} /\ hwm' <= hwm
      /\ last_alloc' # block
      /\ \A q \in DOMAIN blocks \ {block} : Ends(q) <= hwm'
      /\ last_alloc' # NULL => last_alloc' = last_alloc /\ last_alloc' \in DOMAIN blocks
  BY <1>1, FreedInv
<1>4. TypeOK'
  BY <1>1, <1>2, <1>3 DEF MarkInv, TypeOK, NULL
<1>5. BlocksApart'
  BY <1>2 DEF MarkInv, TypeOK, BlocksApart, Ends
<1>6. TopOfHeap'
  BY <1>2, <1>3 DEF MarkInv, TopOfHeap, Ends
<1> QED BY <1>4, <1>5, <1>6 DEF MarkInv

LEMMA ShrinkInv ==
  ASSUME MarkInv, NEW block \in DOMAIN blocks, NEW size \in Sizes, Shrink(block, size)
  PROVE  MarkInv'
<1> USE AccumulatorAssumption
<1>1. /\ size <= blocks[block] /\ last_alloc' = last_alloc
      /\ hwm' = IF last_alloc = block THEN hwm - blocks[block] + size ELSE hwm
      /\ blocks' = Put(blocks, block, size)
  BY DEF Shrink, ShrunkMark
<1>2. /\ DOMAIN blocks' = DOMAIN blocks
      /\ \A p \in DOMAIN blocks' : blocks'[p] = IF p = block THEN size ELSE blocks[p]
  BY <1>1 DEF Put
<1>3. TypeOK'
  BY <1>1, <1>2 DEF MarkInv, TypeOK, TopOfHeap, Ends, NULL
<1>4. BlocksApart'
  BY <1>1, <1>2 DEF MarkInv, TypeOK, BlocksApart, Ends
<1>5. TopOfHeap'
  <2>1. /\ size \in Nat /\ block \in Nat /\ blocks[block] \in Nat /\ hwm \in Nat
        /\ DOMAIN blocks \subseteq Nat /\ \A p \in DOMAIN blocks : blocks[p] \in Nat
    BY DEF MarkInv, TypeOK
  <2>2. /\ \A p \in DOMAIN blocks : p + blocks[p] <= hwm
        /\ last_alloc # NULL =>
             /\ last_alloc \in DOMAIN blocks
             /\ \A q \in DOMAIN blocks \ {last_alloc} : q + blocks[q] <= last_alloc
    BY DEF MarkInv, TopOfHeap, Ends
  <2>3. CASE last_alloc = block
    <3>1. block # NULL /\ hwm' = hwm - blocks[block] + size
      BY <2>1, <2>3, <1>1 DEF NULL
    <3>2. \A q \in DOMAIN blocks \ {block} : q + blocks[q] <= block
      BY <2>2, <2>3, <3>1
    <3>3. \A p \in DOMAIN blocks : p + blocks'[p] <= hwm'
      BY <2>1, <2>2, <3>1, <3>2, <1>2
    <3> QED BY <3>2, <3>3, <2>3, <1>1, <1>2 DEF TopOfHeap, Ends
  <2>4. CASE last_alloc # block
    <3>1. \A p \in DOMAIN blocks : p + blocks'[p] <= p + blocks[p]
      BY <2>1, <1>1, <1>2
    <3>2. \A p \in DOMAIN blocks : p + blocks'[p] <= hwm'
      BY <2>1, <2>2, <2>4, <3>1, <1>1, <1>2
    <3>3. last_alloc # NULL =>
            \A q \in DOMAIN blocks \ {last_alloc} : q + blocks'[q] <= last_alloc
      BY <2>1, <2>2, <3>1, <1>2
    <3> QED BY <3>2, <3>3, <2>2, <1>1, <1>2 DEF TopOfHeap, Ends
  <2> QED BY <2>3, <2>4
<1> QED BY <1>3, <1>4, <1>5 DEF MarkInv

LEMMA GrowInv ==
  ASSUME MarkInv, NEW block \in DOMAIN blocks, NEW size \in Sizes, Grow(block, size)
  PROVE  MarkInv'
<1> USE AccumulatorAssumption
<1> DEFINE mark == FreedMark(block, blocks[block])[1]
           latest == FreedMark(block, blocks[block])[2]
<1>1. /\ mark \in Nat /\ latest \in Nat \union {NULL} /\ mark <= hwm
      /\ latest # block
      /\ \A q \in DOMAIN blocks \ {block} : Ends(q) <= mark
      /\ latest # NULL => latest = last_alloc /\ latest \in DOMAIN blocks
      /\ last_alloc = block => mark = hwm - blocks[block] /\ mark >= block
      /\ last_alloc # block => mark = hwm
  BY FreedInv
<1>2. /\ size > blocks[block] /\ hwm' = mark + size
      /\ IF Left(mark, size)
         THEN /\ last_alloc' = mark
              /\ blocks' = Put(Take(blocks, block), mark, size)
         ELSE last_alloc' = latest /\ UNCHANGED blocks
  BY DEF Grow
<1> HIDE DEF mark, latest
<1>3. CASE Left(mark, size)
  <2>1. mark \notin DOMAIN blocks \ {block}
    BY <1>1 DEF MarkInv, TypeOK, Ends
  <2>2. /\ DOMAIN blocks' = (DOMAIN blocks \ {block}) \union {mark}
        /\ \A p \in DOMAIN blocks' : blocks'[p] = IF p = mark THEN size ELSE blocks[p]
    <3> DEFINE taken == Take(blocks, block)
    <3>1. /\ DOMAIN taken = DOMAIN blocks \ {block}
          /\ \A p \in DOMAIN taken : taken[p] = blocks[p]
      BY DEF Take
    <3> HIDE DEF taken
    <3>2. blocks' = [q \in DOMAIN taken \union {mark} |-> IF q = mark THEN size ELSE taken[q]]
      BY <1>2, <1>3 DEF Put, taken
    <3> QED BY <3>1, <3>2
  <2>3. TypeOK'
    <3>1. /\ size \in Nat \ {0} /\ block \in Nat /\ blocks[block] \in Nat
          /\ DOMAIN blocks \subseteq Nat /\ \A p \in DOMAIN blocks : blocks[p] \in Nat \ {0}
      BY DEF MarkInv, TypeOK
    <3>2. hwm' \in Nat /\ last_alloc' = mark
      BY <3>1, <1>1, <1>2, <1>3
    <3>3. DOMAIN blocks' \subseteq Nat /\ \A p \in DOMAIN blocks' : blocks'[p] \in Nat \ {0}
      BY <3>1, <1>1, <2>2
    <3> QED BY <3>2, <3>3, <1>1 DEF TypeOK
  <2>4. BlocksApart'
    BY <1>1, <1>3, <2>1, <2>2 DEF MarkInv, TypeOK, BlocksApart, Ends, Left
  <2>5. TopOfHeap'
    BY <1>1, <1>2, <1>3, <2>1, <2>2 DEF MarkInv, TypeOK, TopOfHeap, Ends
  <2> QED BY <2>3, <2>4, <2>5 DEF MarkInv
<1>4. CASE ~Left(mark, size)
  <2>1. hwm' = mark + size /\ last_alloc' = latest /\ blocks' = blocks
    BY <1>2, <1>4
  <2>2. TypeOK'
    BY <1>1, <2>1 DEF MarkInv, TypeOK, NULL
  <2>3. BlocksApart'
    BY <2>1 DEF MarkInv, BlocksApart, Ends
  <2>4. Ends(block) <= hwm'
    BY <1>1, <1>2, <2>1 DEF MarkInv, TypeOK, TopOfHeap, Ends
  <2>5. TopOfHeap'
    BY <1>1, <2>1, <2>4 DEF MarkInv, TypeOK, TopOfHeap, Ends
  <2> QED BY <2>2, <2>3, <2>5 DEF MarkInv
<1> QED BY <1>3, <1>4

LEMMA NextInv == MarkInv /\ [AccumulatorNext]_accumulatorVars => MarkInv'
<1> SUFFICES ASSUME MarkInv, [AccumulatorNext]_accumulatorVars PROVE MarkInv'
  OBVIOUS
<1>1. ASSUME NEW size \in Sizes, alloc(size) PROVE MarkInv'
  BY <1>1, AllocInv
<1>2. ASSUME NEW block \in DOMAIN blocks, free(block) PROVE MarkInv'
  BY <1>2, FreeInv
<1>3. ASSUME NEW block \in DOMAIN blocks, NEW size \in Sizes, realloc(block, size)
      PROVE  MarkInv'
  BY <1>3, ShrinkInv, GrowInv DEF realloc
<1>4. ASSUME UNCHANGED accumulatorVars PROVE MarkInv'
  BY <1>4 DEF accumulatorVars, MarkInv, TypeOK, BlocksApart, TopOfHeap, Ends
<1> QED BY <1>1, <1>2, <1>3, <1>4 DEF AccumulatorNext

(* For every heap size and all requests: the mark never falls below the     *)
(* base and every field keeps its range.                                    *)
THEOREM TypeCorrect == AccumulatorSpec => []TypeOK
<1>1. MarkInv => TypeOK
  BY DEF MarkInv
<1> QED BY <1>1, InitInv, NextInv, PTL DEF AccumulatorSpec

(* For every heap size and all requests, failed ones included, no two       *)
(* blocks the client holds overlap and none leaves the heap.                *)
THEOREM AlwaysApart == AccumulatorSpec => []BlocksApart
<1>1. MarkInv => BlocksApart
  BY DEF MarkInv
<1> QED BY <1>1, InitInv, NextInv, PTL DEF AccumulatorSpec

(* The block that free and realloc give back is always the client's         *)
(* topmost one, so that lowering the mark uncovers no other block.          *)
THEOREM AlwaysTop == AccumulatorSpec => []TopOfHeap
<1>1. MarkInv => TopOfHeap
  BY DEF MarkInv
<1> QED BY <1>1, InitInv, NextInv, PTL DEF AccumulatorSpec

(* What the run checks, for every heap size and all requests: a block is    *)
(* its holder's alone until it is given back, and the mark is never lowered *)
(* below a block that is still held.                                        *)
THEOREM AlwaysBlocksHeld == AccumulatorSpec => []BlocksHeld
<1>1. MarkInv => BlocksHeld
  BY DEF MarkInv, BlocksHeld
<1> QED BY <1>1, InitInv, NextInv, PTL DEF AccumulatorSpec

-----------------------------------------------------------------------------
(* Random numbers.  The words of a generator stand in a ring: the draw      *)
(* writes over the one that is oldest and turns the ring by one.  First     *)
(* that numbers below a bound have a least one, that a recursive function   *)
(* has a value, and what the code's divisions leave.                        *)
(* The least-number principle, from the well-foundedness of < on Nat.       *)
LEMMA NatMin ==
  ASSUME NEW T, T \subseteq Nat, T # {}
  PROVE  \E x \in T : \A y \in T : x <= y
<1> DEFINE R == OpToRel(<, Nat)
<1>1. IsWellFoundedOn(R, Nat)
  BY NatLessThanWellFounded
<1>2. \A x, y \in Nat : x < y => <<x, y>> \in R
  BY DEF OpToRel
<1> HIDE DEF R
<1>3. PICK x \in T : \A y \in T : ~(<<y, x>> \in R)
  BY <1>1, WFMin
<1>4. ASSUME NEW y \in T PROVE x <= y
  <2>1. x \in Nat /\ y \in Nat /\ ~(<<y, x>> \in R)
    BY <1>3
  <2>2. ~(y < x)
    BY <2>1, <1>2
  <2> QED BY <2>1, <2>2
<1> QED BY <1>4

(* What holds of 0 and, with a number, of its successor holds up to n.      *)
LEMMA UpTo0 ==
  ASSUME NEW n \in Nat, NEW H, 0 \in H,
         \A k \in 0..n : k \in H /\ k < n => k + 1 \in H
  PROVE  \A k \in 0..n : k \in H
<1> DEFINE Bad == {k \in 0..n : k \notin H}
<1>1. SUFFICES ASSUME Bad # {} PROVE FALSE
  OBVIOUS
<1>2. Bad \subseteq Nat
  OBVIOUS
<1>3. PICK m \in Bad : \A k \in Bad : m <= k
  BY <1>1, <1>2, NatMin
<1>4. m # 0 /\ m \in 0..n /\ m \notin H
  OBVIOUS
<1>5. m - 1 \in 0..n /\ m - 1 < n /\ m - 1 \notin Bad
  BY <1>3, <1>4
<1>6. m - 1 \in H
  BY <1>5
<1>7. (m - 1) + 1 \in H
  BY <1>5, <1>6
<1> QED BY <1>4, <1>7

IsChain(g, n, V, base, step) ==
  /\ g \in [0..n -> V] /\ g[0] = base
  /\ \A k \in 1..n : g[k] = step[k][g[k - 1]]

LEMMA ChainExists ==
  ASSUME NEW n \in Nat, NEW V, NEW base \in V, NEW step \in [1..n -> [V -> V]]
  PROVE  \E g : IsChain(g, n, V, base, step)
<1> DEFINE H == {k \in 0..n : \E g : IsChain(g, k, V, base, step)}
<1>1. 0 \in H
  <2> DEFINE g == [k \in 0..0 |-> base]
  <2>1. IsChain(g, 0, V, base, step)
    BY DEF IsChain
  <2> QED BY <2>1
<1>2. ASSUME NEW k \in 0..n, k \in H, k < n PROVE k + 1 \in H
  <2>1. PICK g : IsChain(g, k, V, base, step)
    BY <1>2
  <2> DEFINE u == [j \in 0..(k + 1) |-> IF j <= k THEN g[j] ELSE step[k + 1][g[k]]]
  <2>2. /\ g \in [0..k -> V] /\ g[0] = base
        /\ \A j \in 1..k : g[j] = step[j][g[j - 1]]
    BY <2>1 DEF IsChain
  <2>3. k \in Nat /\ k + 1 \in 1..n /\ g[k] \in V
    BY <1>2, <2>2
  <2>4. step[k + 1][g[k]] \in V
    BY <2>3
  <2>5. u \in [0..(k + 1) -> V]
    BY <2>2, <2>3, <2>4
  <2>6. u[0] = base
    BY <2>2, <2>3
  <2>7. ASSUME NEW j \in 1..(k + 1) PROVE u[j] = step[j][u[j - 1]]
    <3>1. CASE j = k + 1
      BY <3>1, <2>3
    <3>2. CASE j # k + 1
      <4>1. j \in 1..k /\ j - 1 \in 0..(k + 1) /\ j - 1 <= k /\ j \in 0..(k + 1) /\ j <= k
        BY <3>2, <2>3
      <4>2. u[j] = g[j] /\ u[j - 1] = g[j - 1]
        BY <4>1
      <4> QED BY <4>1, <4>2, <2>2
    <3> QED BY <3>1, <3>2
  <2> HIDE DEF u
  <2>8. IsChain(u, k + 1, V, base, step)
    BY <2>5, <2>6, <2>7 DEF IsChain
  <2> QED BY <2>3, <2>8
<1>3. \A k \in 0..n : k \in H
  <2> HIDE DEF H
  <2> QED BY <1>1, <1>2, UpTo0
<1>4. n \in H
  BY <1>3
<1> QED BY <1>4

(* Products of numbers that the provers do not multiply out.                *)
LEMMA TimesMonotone ==
  ASSUME NEW a \in Nat, NEW b \in Int, NEW c \in Int, b <= c
  PROVE  a * b <= a * c
<1>1. a * (c - b) = a * c - a * b
  OBVIOUS
<1>2. c - b \in Nat /\ a * (c - b) \in Nat
  OBVIOUS
<1>3. a * b \in Int /\ a * c \in Int
  OBVIOUS
<1> QED BY <1>1, <1>2, <1>3

(* Quotient and remainder are determined by what they are.                  *)
LEMMA Divided ==
  ASSUME NEW d \in Nat \ {0}, NEW x \in Int
  PROVE  /\ x \div d \in Int /\ x % d \in 0..(d - 1) /\ x = (d * (x \div d)) + (x % d)
         /\ x \in Nat => x \div d \in Nat
<1>1. x \div d \in Int /\ x % d \in 0..(d - 1)
  OBVIOUS
<1>2. x = (d * (x \div d)) + (x % d)
  OBVIOUS
<1>3. ASSUME x \in Nat PROVE x \div d \in Nat
  <2> DEFINE p == x \div d
             r == x % d
  <2>1. p \in Int /\ r \in 0..(d - 1) /\ x = d * p + r
    BY <1>1, <1>2
  <2> HIDE DEF p, r
  <2>2. p <= -1 => d * p <= d * (-1)
    BY <2>1, TimesMonotone
  <2>3. d * p \in Int /\ d * (-1) = -d
    BY <2>1
  <2>4. p \in Nat
    BY <1>3, <2>1, <2>2, <2>3
  <2> QED BY <2>4 DEF p
<1> QED BY <1>1, <1>2, <1>3

\* A number splits in one way only into a multiple and a rest.
LEMMA DividedOnce ==
  ASSUME NEW d \in Nat \ {0}, NEW q \in Int, NEW t \in 0..(d - 1), NEW x, x = d * q + t
  PROVE  x % d = t /\ x \div d = q
<1> DEFINE p == x \div d
           r == x % d
           dp == d * p
           dq == d * q
<1>1. x \in Int /\ p \in Int /\ r \in 0..(d - 1) /\ x = dp + r
  BY Divided
<1>2. dp \in Int /\ dq \in Int /\ d * (p + 1) = dp + d /\ d * (q + 1) = dq + d
  BY <1>1
<1>3. p + 1 <= q => dp + d <= dq
  BY <1>1, <1>2, TimesMonotone
<1>4. q + 1 <= p => dq + d <= dp
  BY <1>1, <1>2, TimesMonotone
<1> HIDE DEF dp, dq, p, r
<1>5. x = dq + t
  BY DEF dq
<1>6. p = q
  BY <1>1, <1>2, <1>3, <1>4, <1>5
<1>7. r = t
  BY <1>1, <1>2, <1>5, <1>6 DEF dp, dq
<1> QED BY <1>6, <1>7 DEF p, r

Wrap(x, d) == IF x < d THEN x ELSE x - d

\* The rest of a number below twice d: d is taken away once or not at all.
LEMMA Wrapped ==
  ASSUME NEW d \in Nat \ {0}, NEW x \in 0..(2 * d - 1)
  PROVE  x % d = Wrap(x, d)
<1>1. CASE x < d
  <2>1. x \in 0..(d - 1) /\ x = d * 0 + x
    BY <1>1
  <2> QED BY <2>1, <1>1, DividedOnce DEF Wrap
<1>2. CASE ~(x < d)
  <2> DEFINE t == x - d
  <2>1. t \in 0..(d - 1) /\ x = d * 1 + t
    BY <1>2
  <2> HIDE DEF t
  <2>2. x % d = t
    BY <2>1, DividedOnce
  <2> QED BY <2>2, <1>2 DEF Wrap, t
<1> QED BY <1>1, <1>2

(* Schrage's way to the product modulo Modulus, with no product above it,   *)
(* is right.                                                                *)
LEMMA Schrage ==
  ASSUME NEW x \in Int
  PROVE  /\ parkmiller32(x) = ((Multiplier * ((x % (Modulus - 1)) + 1)) % Modulus) - 1
         /\ parkmiller32(x) \in Int
<1> DEFINE a == Multiplier
           m == Modulus
           q == m \div a
           r == m % a
           z == (x % (m - 1)) + 1
           hi == z \div q
           lo == z % q
           y == a * lo - r * hi
<1>1. /\ m \in Nat /\ a \in 1..(m - 1) /\ r <= q /\ m - 1 \in Nat \ {0}
  BY SchrageAssumption
<1>2. q \in Nat /\ r \in 0..(a - 1) /\ m = a * q + r
  BY <1>1, Divided
<1>3. z \in 1..(m - 1)
  <2> DEFINE w == x % (m - 1)
  <2>1. w \in 0..((m - 1) - 1)
    BY <1>1, Divided
  <2> HIDE DEF w
  <2>2. w + 1 \in 1..(m - 1)
    BY <1>1, <2>1
  <2> QED BY <2>2 DEF w
<1> HIDE DEF q, r, z
<1>4. q # 0
  <2>1. q = 0 => a * q = 0
    BY <1>1
  <2> QED BY <2>1, <1>1, <1>2
<1>5. hi \in Nat /\ lo \in 0..(q - 1) /\ z = q * hi + lo
  <2>1. q \in Nat \ {0} /\ z \in Int /\ z \in Nat
    BY <1>1, <1>2, <1>3, <1>4
  <2> QED BY <2>1, Divided
<1> HIDE DEF hi, lo
<1>6. a * z = m * hi + y
  <2>1. a * z = a * (q * hi) + a * lo
    BY <1>1, <1>2, <1>5
  <2>2. m * hi = a * (q * hi) + r * hi
    BY <1>1, <1>2, <1>5
  <2>3. a * (q * hi) \in Int /\ a * lo \in Int /\ r * hi \in Int
    BY <1>1, <1>2, <1>5
  <2> QED BY <2>1, <2>2, <2>3
<1>7. y < m /\ -m < y
  <2>1. a * lo \in Nat /\ r * hi \in Nat /\ a * q \in Nat /\ q * hi \in Nat
    BY <1>1, <1>2, <1>5
  <2>2. a * lo <= a * (q - 1) /\ a * (q - 1) = a * q - a
    BY <1>1, <1>2, <1>5, TimesMonotone
  <2>3. hi * r <= hi * q /\ hi * r = r * hi /\ hi * q = q * hi
    BY <1>1, <1>2, <1>5, TimesMonotone
  <2> DEFINE al == a * lo
             rh == r * hi
             aq == a * q
             qh == q * hi
  <2>4. /\ al \in Nat /\ rh \in Nat /\ aq \in Nat /\ qh \in Nat
        /\ al <= aq - a /\ rh <= qh /\ m = aq + r /\ z = qh + lo /\ y = al - rh
    BY <2>1, <2>2, <2>3, <1>2, <1>5
  <2> HIDE DEF al, rh, aq, qh, y
  <2>5. al < m /\ rh < m
    BY <2>4, <1>1, <1>2, <1>3, <1>5
  <2> QED BY <2>4, <2>5, <1>1
<1>8. y \in Int /\ m * hi \in Int /\ m * (hi - 1) = m * hi - m
  BY <1>1, <1>2, <1>5
<1>9. parkmiller32(x) = (IF y < 0 THEN y + m ELSE y) - 1
  BY DEF parkmiller32, q, r, z, hi, lo
<1> HIDE DEF y
<1>10. (a * z) % m = IF y < 0 THEN y + m ELSE y
  <2>1. CASE ~(y < 0)
    <3>1. y \in 0..(m - 1)
      BY <2>1, <1>1, <1>7, <1>8
    <3> QED BY <3>1, <2>1, <1>1, <1>5, <1>6, DividedOnce
  <2>2. CASE y < 0
    <3>1. y + m \in 0..(m - 1) /\ hi - 1 \in Int /\ a * z = m * (hi - 1) + (y + m)
      BY <2>2, <1>1, <1>5, <1>6, <1>7, <1>8
    <3> QED BY <3>1, <2>2, <1>1, DividedOnce
  <2> QED BY <2>1, <2>2
<1> QED BY <1>1, <1>8, <1>9, <1>10 DEF z

Kinds == 0..(MAX_TYPES - 1)
Spots == DOMAIN Blank

\* What the assumptions say of degrees and separations, for type 0 too.
LEMMA KindsFact ==
  /\ MAX_TYPES \in Nat \ {0} /\ TYPE_3 \in Kinds /\ TYPE_3 # 0 /\ 0 \in Kinds
  /\ \A t \in Kinds : degrees[t] \in Nat
  /\ \A t \in Kinds : t # 0 => /\ t \in 1..(MAX_TYPES - 1)
                               /\ seps[t] \in 1..(degrees[t] - 1) /\ degrees[t] \in Nat \ {0, 1}
  /\ \A t, u \in Kinds : t # 0 /\ u # 0 /\ degrees[t] = degrees[u] => t = u
<1>1. /\ MAX_TYPES \in Nat \ {0} /\ TYPE_3 \in Kinds /\ TYPE_3 # 0 /\ 0 \in Kinds
  BY TypesAssumption DEF Kinds
<1>2. \A t \in Kinds : degrees[t] \in Nat
  BY TypesAssumption DEF Kinds
<1>3. ASSUME NEW t \in Kinds, t # 0
      PROVE  /\ t \in 1..(MAX_TYPES - 1)
             /\ seps[t] \in 1..(degrees[t] - 1) /\ degrees[t] \in Nat \ {0, 1}
  <2>1. t \in 1..(MAX_TYPES - 1)
    BY <1>1, <1>3 DEF Kinds
  <2>2. seps[t] \in 1..(degrees[t] - 1) /\ degrees[t] \in Nat
    BY <2>1, <1>2, TypesAssumption
  <2> QED BY <2>1, <2>2
<1>4. ASSUME NEW t \in Kinds, NEW u \in Kinds, t # 0, u # 0, degrees[t] = degrees[u]
      PROVE  t = u
  BY <1>3, <1>4, TypesAssumption
<1> QED BY <1>1, <1>2, <1>3, <1>4

(* Finitely many numbers have a largest.                                    *)
LEMMA LargestOf ==
  ASSUME NEW n \in Nat, NEW T, T \subseteq 0..n, T # {}, NEW f, \A t \in T : f[t] \in Nat
  PROVE  \E m \in T : \A t \in T : f[m] >= f[t]
<1> DEFINE Tops(k, m) == \A t \in T : t <= k => f[m] >= f[t]
           H == {k \in 0..n : \E m \in T : Tops(k, m)}
<1>1. 0 \in H
  <2>1. PICK j \in T : TRUE
    OBVIOUS
  <2>2. CASE 0 \in T
    <3>1. Tops(0, 0)
      BY <2>2
    <3> QED BY <2>2, <3>1
  <2>3. CASE 0 \notin T
    <3>1. Tops(0, j)
      BY <2>3
    <3> QED BY <2>1, <3>1
  <2> QED BY <2>2, <2>3
<1>2. ASSUME NEW k \in 0..n, k \in H, k < n PROVE k + 1 \in H
  <2>1. PICK m \in T : Tops(k, m)
    BY <1>2
  <2>2. \A t \in T : t <= k + 1 => t <= k \/ t = k + 1
    BY <1>2
  <2>3. CASE k + 1 \in T /\ ~(f[m] >= f[k + 1])
    <3>1. \A t \in T : t <= k => f[k + 1] >= f[t]
      BY <2>1, <2>3
    <3>2. Tops(k + 1, k + 1)
      BY <2>2, <2>3, <3>1
    <3> QED BY <2>3, <3>2, <1>2
  <2>4. CASE ~(k + 1 \in T /\ ~(f[m] >= f[k + 1]))
    <3>1. Tops(k + 1, m)
      BY <2>1, <2>2, <2>4
    <3> QED BY <3>1, <1>2
  <2> QED BY <2>3, <2>4
<1>3. \A k \in 0..n : k \in H
  <2> HIDE DEF H
  <2> QED BY <1>1, <1>2, UpTo0
<1>4. n \in H
  <2> HIDE DEF H
  <2> QED BY <1>3
<1>5. PICK m \in T : Tops(n, m)
  BY <1>4
<1> QED BY <1>5

\* A table has a word at each place that a type uses.
LEMMA SpotsFact ==
  /\ Spots \subseteq Nat /\ 0 \in Spots
  /\ \A t \in Kinds : \A i \in 0..(degrees[t] - 1) : i \in Spots
  /\ Blank \in [Spots -> Int]
<1> DEFINE D == {degrees[t] : t \in Kinds}
<1>1. \E m \in Kinds : \A t \in Kinds : degrees[m] >= degrees[t]
  <2>1. /\ MAX_TYPES - 1 \in Nat /\ Kinds = 0..(MAX_TYPES - 1) /\ Kinds # {}
        /\ \A t \in Kinds : degrees[t] \in Nat
    BY KindsFact DEF Kinds
  <2> HIDE DEF Kinds
  <2> QED BY <2>1, LargestOf
<1>2. Max(D) \in D /\ \A y \in D : Max(D) >= y
  <2>1. \E x \in D : \A y \in D : x >= y
    BY <1>1
  <2> HIDE DEF D
  <2> QED BY <2>1 DEF Max
<1>3. Max(D) \in Nat /\ \A t \in Kinds : Max(D) >= degrees[t]
  BY <1>2, KindsFact
<1>4. Blank = [i \in 0..(Max(D) - 1) |-> 0] /\ Spots = 0..(Max(D) - 1)
  BY DEF Blank, Spots, Kinds
<1> HIDE DEF D
<1>5. degrees[TYPE_3] \in Nat \ {0}
  BY KindsFact
<1>6. 0 \in Spots /\ Spots \subseteq Nat
  BY <1>3, <1>4, <1>5, KindsFact
<1>7. ASSUME NEW t \in Kinds, NEW i \in 0..(degrees[t] - 1) PROVE i \in Spots
  <2>1. degrees[t] \in Nat /\ Max(D) >= degrees[t]
    BY <1>3, KindsFact
  <2> QED BY <2>1, <1>3, <1>4
<1>8. Blank \in [Spots -> Int]
  BY <1>4
<1> QED BY <1>6, <1>7, <1>8

\* The type chosen for a size is a type, or EINVAL.
LEMMA TypeForFact ==
  ASSUME NEW n PROVE TypeFor(n) \in Kinds \cup {-1}
<1> DEFINE fits == {t \in 0..MAX_TYPES - 1 : n >= breaks[t]}
<1>1. CASE fits = {}
  BY <1>1 DEF TypeFor
<1>2. CASE fits # {}
  <2>1. \E m \in fits : \A t \in fits : m >= t
    <3> DEFINE id == [t \in fits |-> t]
    <3>1. MAX_TYPES - 1 \in Nat /\ fits \subseteq 0..(MAX_TYPES - 1)
      BY KindsFact
    <3> HIDE DEF fits
    <3>2. \A t \in fits : id[t] = t /\ id[t] \in Nat
      BY <3>1
    <3> HIDE DEF id
    <3>3. \E m \in fits : \A t \in fits : id[m] >= id[t]
      BY <1>2, <3>1, <3>2, LargestOf
    <3> QED BY <3>2, <3>3
  <2>2. Max(fits) \in fits
    <3> HIDE DEF fits
    <3> QED BY <2>1 DEF Max
  <2>3. TypeFor(n) = Max(fits)
    BY <1>2 DEF TypeFor
  <2> QED BY <2>2, <2>3 DEF Kinds
<1> QED BY <1>1, <1>2

(* A generator's places lie in its words, a separation apart.               *)
Gens == [type : Kinds, fptr : Nat, rptr : Nat, words : [Spots -> Int], last : Int]
Aligned(t, f, r) ==
  t # 0 => r \in 0..(degrees[t] - 1) /\ f = Wrap(r + seps[t], degrees[t])
IsGen(g) == g \in Gens /\ Aligned(g.type, g.fptr, g.rptr)

\* Both places lie among the words of the type.
LEMMA AlignedFact ==
  ASSUME NEW t \in Kinds, t # 0, NEW f, NEW r, Aligned(t, f, r)
  PROVE  /\ degrees[t] \in Nat \ {0, 1} /\ seps[t] \in 1..(degrees[t] - 1)
         /\ r \in 0..(degrees[t] - 1) /\ f \in 0..(degrees[t] - 1)
         /\ Wrap(f + (degrees[t] - seps[t]), degrees[t]) = r
         /\ f + 1 >= degrees[t] => r + 1 < degrees[t]
         /\ f \in Spots /\ r \in Spots /\ f # r
<1> DEFINE d == degrees[t]
           s == seps[t]
<1>1. d \in Nat \ {0, 1} /\ s \in 1..(d - 1)
  BY KindsFact
<1>2. r \in 0..(d - 1) /\ f = Wrap(r + s, d)
  BY DEF Aligned
<1> HIDE DEF d, s
<1>3. /\ f \in 0..(d - 1) /\ Wrap(f + (d - s), d) = r /\ f # r
      /\ f + 1 >= d => r + 1 < d
  BY <1>1, <1>2 DEF Wrap
<1>4. f \in Spots /\ r \in Spots
  BY <1>2, <1>3, SpotsFact DEF d
<1> QED BY <1>1, <1>2, <1>3, <1>4 DEF d, s

\* One draw, field by field.
Sum(g) == (g.words[g.fptr] + g.words[g.rptr]) % 2^RandomBits

\* A draw of a type other than 0; the rear place wraps as the front one does.
LEMMA DrawAdds ==
  ASSUME NEW g, IsGen(g), g.type # 0
  PROVE  LET u == _fbsd_random_r(g)
             d == degrees[g.type]
         IN  /\ u \in Gens /\ u.type = g.type
             /\ u.fptr = Wrap(g.fptr + 1, d) /\ u.rptr = Wrap(g.rptr + 1, d)
             /\ u.words = [g.words EXCEPT ![g.fptr] = Sum(g)] /\ u.last = Sum(g) \div 2
<1> DEFINE d == degrees[g.type]
           wraps == g.fptr + 1 >= d
           f == IF wraps THEN 0 ELSE g.fptr + 1
           r == IF wraps \/ g.rptr + 1 < d THEN g.rptr + 1 ELSE 0
           w == [g.words EXCEPT ![g.fptr] = Sum(g)]
           l == Sum(g) \div 2
           u == [g EXCEPT !.words = w, !.last = l, !.fptr = f, !.rptr = r]
<1>1. g \in Gens /\ g.type \in Kinds /\ g.words \in [Spots -> Int] /\ Aligned(g.type, g.fptr, g.rptr)
  BY DEF IsGen, Gens
<1>2. /\ g.fptr \in Spots /\ g.rptr \in Spots /\ d \in Nat \ {0, 1}
      /\ g.fptr \in 0..(d - 1) /\ g.rptr \in 0..(d - 1) /\ (wraps => g.rptr + 1 < d)
  BY <1>1, AlignedFact
<1>3. _fbsd_random_r(g) = u
  BY DEF _fbsd_random_r, Sum
<1>4. f = Wrap(g.fptr + 1, d) /\ r = Wrap(g.rptr + 1, d) /\ f \in Nat /\ r \in Nat
  <2> HIDE DEF d
  <2> QED BY <1>2 DEF Wrap
<1>5. Sum(g) \in Int
  <2> DEFINE a == g.words[g.fptr] + g.words[g.rptr]
             p == 2^RandomBits
  <2>1. a \in Int /\ p \in Nat \ {0}
    BY <1>1, <1>2, TypesAssumption
  <2> HIDE DEF a, p
  <2>2. a % p \in 0..(p - 1)
    BY <2>1, Divided
  <2>3. a % p \in Int
    BY <2>1, <2>2
  <2> QED BY <2>3 DEF Sum, a, p
<1>6. l \in Int /\ w \in [Spots -> Int]
  <2>1. l \in Int
    BY <1>5, Divided
  <2>2. w \in [Spots -> Int]
    <3> DEFINE v == Sum(g)
    <3>1. v \in Int
      BY <1>5
    <3> HIDE DEF v
    <3>2. [g.words EXCEPT ![g.fptr] = v] \in [Spots -> Int]
      BY <1>1, <3>1
    <3> QED BY <3>2 DEF v
  <2> QED BY <2>1, <2>2
<1> HIDE DEF f, r, w, l
<1>7. u \in Gens /\ u.type = g.type /\ u.fptr = f /\ u.rptr = r /\ u.words = w /\ u.last = l
  <2> DEFINE v == [g EXCEPT !.words = w, !.last = l]
  <2>1. /\ v \in Gens /\ v.type = g.type /\ v.fptr = g.fptr /\ v.rptr = g.rptr
        /\ v.words = w /\ v.last = l
    BY <1>1, <1>6 DEF Gens
  <2>2. u = [v EXCEPT !.fptr = f, !.rptr = r]
    OBVIOUS
  <2> HIDE DEF u, v
  <2> QED BY <2>1, <2>2, <1>4 DEF Gens
<1> QED BY <1>3, <1>4, <1>7 DEF w, l

\* A draw of type 0.
LEMMA DrawMultiplies ==
  ASSUME NEW g, IsGen(g), g.type = 0
  PROVE  /\ _fbsd_random_r(g) =
              [g EXCEPT !.words = [@ EXCEPT ![0] = parkmiller32(g.words[0])],
                        !.last = parkmiller32(g.words[0])]
         /\ g.words[0] \in Int /\ parkmiller32(g.words[0]) \in Int
<1>1. g.words \in [Spots -> Int] /\ 0 \in Spots
  BY SpotsFact DEF IsGen, Gens
<1>2. g.words[0] \in Int
  BY <1>1
<1>3. parkmiller32(g.words[0]) \in Int
  BY <1>2, Schrage
<1> QED BY <1>2, <1>3 DEF _fbsd_random_r

\* A draw leaves a generator of the same type.
LEMMA DrawKeeps ==
  ASSUME NEW g, IsGen(g)
  PROVE  IsGen(_fbsd_random_r(g)) /\ _fbsd_random_r(g).type = g.type
<1> DEFINE u == _fbsd_random_r(g)
<1>1. g \in Gens /\ Aligned(g.type, g.fptr, g.rptr)
  BY DEF IsGen
<1>2. CASE g.type = 0
  <2>1. /\ u = [g EXCEPT !.words = [@ EXCEPT ![0] = parkmiller32(g.words[0])],
                         !.last = parkmiller32(g.words[0])]
        /\ parkmiller32(g.words[0]) \in Int
    BY <1>2, DrawMultiplies
  <2> HIDE DEF u
  <2>2. u \in Gens /\ u.type = g.type
    BY <2>1, <1>1 DEF Gens
  <2> QED BY <2>2, <1>2 DEF IsGen, Aligned, u
<1>3. CASE g.type # 0
  <2> DEFINE d == degrees[g.type]
             s == seps[g.type]
  <2>1. /\ u \in Gens /\ u.type = g.type
        /\ u.fptr = Wrap(g.fptr + 1, d) /\ u.rptr = Wrap(g.rptr + 1, d)
    BY <1>3, DrawAdds
  <2>2. /\ g.type \in Kinds /\ d \in Nat \ {0, 1} /\ g.fptr \in 0..(d - 1) /\ g.rptr \in 0..(d - 1)
        /\ s \in 1..(d - 1) /\ g.fptr = Wrap(g.rptr + s, d) /\ g.words \in [Spots -> Int]
    BY <1>1, <1>3, AlignedFact DEF Gens, Aligned
  <2> HIDE DEF u, d, s
  <2>3. /\ Wrap(g.fptr + 1, d) \in Nat /\ Wrap(g.rptr + 1, d) \in 0..(d - 1)
        /\ Wrap(g.fptr + 1, d) = Wrap(Wrap(g.rptr + 1, d) + s, d)
    BY <2>2 DEF Wrap
  <2>4. Aligned(u.type, u.fptr, u.rptr)
    BY <2>1, <2>3 DEF Aligned, d, s
  <2> QED BY <2>1, <2>4 DEF IsGen, u
<1> QED BY <1>2, <1>3

(* The words of a generator, the one written longest ago first.             *)
Ring(t, f, w) ==
  IF t = 0 THEN <<w[0]>> ELSE [k \in 1..degrees[t] |-> w[(f + k - 1) % degrees[t]]]

(* What a draw adds is the first word and the one a separation before the   *)
(* end; it is what comes at the end when the first is taken away.           *)
LEMMA RingShifts ==
  ASSUME NEW t \in Kinds, t # 0, NEW f, NEW r, Aligned(t, f, r),
         NEW w \in [Spots -> Int], NEW v, v \in Int,
         v = (w[f] + w[r]) % 2^RandomBits
  PROVE  LET old == Ring(t, f, w)
             new == Ring(t, Wrap(f + 1, degrees[t]), [w EXCEPT ![f] = v])
         IN  /\ Len(old) = degrees[t] /\ Shifted(old) = new
             /\ new[degrees[t]] = v
<1> DEFINE d == degrees[t]
           s == seps[t]
           old == Ring(t, f, w)
           e == Wrap(f + 1, d)
           x == [w EXCEPT ![f] = v]
           new == Ring(t, e, x)
<1>1. /\ d \in Nat \ {0, 1} /\ s \in 1..(d - 1)
      /\ r \in 0..(d - 1) /\ f \in 0..(d - 1) /\ Wrap(f + (d - s), d) = r
      /\ f \in Spots /\ r \in Spots
  BY AlignedFact
<1>2. \A i \in 0..(d - 1) : i \in Spots
  BY SpotsFact
<1>3. /\ old = [k \in 1..d |-> w[(f + k - 1) % d]]
      /\ new = [k \in 1..d |-> x[(e + k - 1) % d]]
  BY DEF Ring
<1>4. \A k \in 1..d : /\ (f + k - 1) % d = Wrap(f + k - 1, d) /\ Wrap(f + k - 1, d) \in 0..(d - 1)
                      /\ (e + k - 1) % d = Wrap(e + k - 1, d) /\ Wrap(e + k - 1, d) \in 0..(d - 1)
  <2> HIDE DEF d
  <2> SUFFICES ASSUME NEW k \in 1..d
               PROVE  /\ (f + k - 1) % d = Wrap(f + k - 1, d) /\ Wrap(f + k - 1, d) \in 0..(d - 1)
                      /\ (e + k - 1) % d = Wrap(e + k - 1, d) /\ Wrap(e + k - 1, d) \in 0..(d - 1)
    OBVIOUS
  <2>1. e \in 0..(d - 1)
    BY <1>1 DEF Wrap
  <2> DEFINE y == f + k - 1
             z == e + k - 1
  <2>2. y \in 0..(2 * d - 1) /\ z \in 0..(2 * d - 1) /\ d \in Nat \ {0}
    BY <1>1, <2>1
  <2> HIDE DEF y, z
  <2>3. y % d = Wrap(y, d) /\ z % d = Wrap(z, d)
    BY <2>2, Wrapped
  <2>4. Wrap(y, d) \in 0..(d - 1) /\ Wrap(z, d) \in 0..(d - 1)
    BY <2>2 DEF Wrap
  <2> QED BY <2>3, <2>4 DEF y, z
<1> HIDE DEF d, s, old, new, x
<1>5. \A k \in 1..d : /\ old[k] = w[Wrap(f + k - 1, d)] /\ old[k] \in Int
                      /\ new[k] = x[Wrap(e + k - 1, d)]
  BY <1>2, <1>3, <1>4
<1>6. old \in Seq(Int) /\ Len(old) = d /\ DOMAIN old = 1..d
  <2>1. old \in [1..d -> Int] /\ d \in Nat
    BY <1>1, <1>3, <1>5
  <2> QED BY <2>1
<1>7. /\ \A k \in 1..(d - 1) : Wrap(e + k - 1, d) = Wrap(f + (k + 1) - 1, d) /\ Wrap(e + k - 1, d) # f
      /\ Wrap(e + d - 1, d) = f /\ Wrap(f + 1 - 1, d) = f
      /\ Wrap(f + (d - s + 1) - 1, d) = r
  BY <1>1 DEF Wrap
<1>8. x[f] = v /\ \A i \in 0..(d - 1) : i # f => x[i] = w[i]
  BY <1>1, <1>2 DEF x
<1>9. /\ \A k \in 1..(d - 1) : new[k] = old[k + 1]
      /\ new[d] = v
  <2>1. ASSUME NEW k \in 1..(d - 1) PROVE new[k] = old[k + 1]
    <3>1. k \in 1..d /\ k + 1 \in 1..d
      BY <1>1
    <3>2. new[k] = x[Wrap(e + k - 1, d)] /\ old[k + 1] = w[Wrap(f + (k + 1) - 1, d)]
      BY <3>1, <1>5
    <3>3. Wrap(e + k - 1, d) \in 0..(d - 1)
      BY <3>1, <1>4
    <3> QED BY <3>2, <3>3, <1>7, <1>8
  <2>2. new[d] = v
    <3>1. d \in 1..d
      BY <1>1
    <3> QED BY <3>1, <1>5, <1>7, <1>8
  <2> QED BY <2>1, <2>2
<1>10. old[1] = w[f] /\ old[d - s + 1] = w[r]
  <2>1. 1 \in 1..d /\ d - s + 1 \in 1..d
    BY <1>1
  <2> QED BY <2>1, <1>5, <1>7
<1>11. Shifted(old) = Append(Tail(old), v)
  <2>1. Len(old) # 1
    BY <1>1, <1>6
  <2>2. (CHOOSE u \in 1..MAX_TYPES - 1 : degrees[u] = Len(old)) = t
    <3>1. t \in 1..(MAX_TYPES - 1) /\ degrees[t] = Len(old)
      BY <1>6, KindsFact DEF d
    <3>2. \A u \in 1..(MAX_TYPES - 1) : u \in Kinds /\ u # 0
      BY KindsFact DEF Kinds
    <3>3. \A u \in 1..(MAX_TYPES - 1) : degrees[u] = Len(old) => u = t
      BY <3>1, <3>2, KindsFact
    <3> QED BY <3>1, <3>3
  <2>3. Shifted(old) = Append(Tail(old), (old[1] + old[Len(old) - seps[t] + 1]) % 2^RandomBits)
    BY <2>1, <2>2 DEF Shifted
  <2>4. old[1] + old[Len(old) - seps[t] + 1] = w[f] + w[r]
    BY <1>6, <1>10 DEF s
  <2> QED BY <2>3, <2>4
<1>12. Append(Tail(old), v) = new
  <2> DEFINE tl == Tail(old)
             ap == Append(tl, v)
  <2>1. tl \in Seq(Int) /\ Len(tl) = d - 1 /\ \A k \in 1..(d - 1) : tl[k] = old[k + 1]
    <3>1. old # <<>>
      BY <1>1, <1>6, EmptySeq
    <3>2. /\ Tail(old) \in Seq(Int) /\ Len(Tail(old)) = Len(old) - 1
          /\ \A k \in 1..Len(Tail(old)) : Tail(old)[k] = old[k + 1]
      BY <3>1, <1>6, HeadTailProperties
    <3> QED BY <3>2, <1>6
  <2> HIDE DEF tl
  <2>2. /\ ap \in Seq(Int) /\ Len(ap) = d /\ ap[d] = v
        /\ \A k \in 1..(d - 1) : ap[k] = tl[k]
    BY <2>1, <1>1, AppendProperties
  <2> HIDE DEF ap
  <2>3. ASSUME NEW k \in 1..d PROVE ap[k] = new[k]
    <3>1. CASE k = d
      BY <3>1, <2>2, <1>9
    <3>2. CASE k # d
      <4>1. k \in 1..(d - 1)
        BY <3>2, <1>1
      <4> QED BY <4>1, <2>1, <2>2, <1>9
    <3> QED BY <3>1, <3>2
  <2>4. DOMAIN ap = 1..d /\ ap = [k \in 1..d |-> ap[k]]
    BY <2>2
  <2>5. new = [k \in 1..d |-> new[k]]
    BY <1>3
  <2> QED BY <2>3, <2>4, <2>5 DEF ap, tl
<1> QED BY <1>6, <1>9, <1>11, <1>12 DEF old, new, d, x

\* The only word of type 0 is multiplied: Schrage's way is right.
LEMMA RingMultiplies ==
  ASSUME NEW w \in [Spots -> Int], NEW f, NEW g
  PROVE  LET v == parkmiller32(w[0])
             old == Ring(0, f, w)
             new == Ring(0, g, [w EXCEPT ![0] = v])
         IN  Len(old) = 1 /\ Shifted(old) = new /\ new[1] = v
<1> DEFINE v == parkmiller32(w[0])
           old == Ring(0, f, w)
           new == Ring(0, g, [w EXCEPT ![0] = v])
<1>1. w[0] \in Int /\ 0 \in DOMAIN w
  BY SpotsFact
<1>2. old = <<w[0]>> /\ new = <<v>>
  <2>1. [w EXCEPT ![0] = v][0] = v
    BY <1>1
  <2> QED BY <2>1 DEF Ring
<1>3. v = ((Multiplier * ((w[0] % (Modulus - 1)) + 1)) % Modulus) - 1
  BY <1>1, Schrage
<1> HIDE DEF v, old, new
<1>4. Len(old) = 1 /\ old[1] = w[0] /\ new[1] = v
  BY <1>2
<1>5. Shifted(old) = <<((Multiplier * ((old[1] % (Modulus - 1)) + 1)) % Modulus) - 1>>
  BY <1>4 DEF Shifted
<1> QED BY <1>2, <1>3, <1>4, <1>5 DEF v, old, new

\* The draws that follow a seed leave a generator of the same type.
LEMMA AdvancedKeeps ==
  ASSUME NEW g, IsGen(g), NEW n \in Nat
  PROVE  IsGen(Advanced(g, n)) /\ Advanced(g, n).type = g.type
<1> DEFINE V == {u \in Gens : IsGen(u) /\ u.type = g.type}
           step == [k \in 1..n |-> [u \in V |-> _fbsd_random_r(u)]]
           Law(f) == f = [k \in 0..n |-> IF k = 0 THEN g ELSE _fbsd_random_r(f[k - 1])]
<1>1. g \in V /\ \A u \in V : _fbsd_random_r(u) \in V
  BY DrawKeeps DEF IsGen
<1>2. step \in [1..n -> [V -> V]] /\ \A k \in 1..n : \A u \in V : step[k][u] = _fbsd_random_r(u)
  <2> HIDE DEF V
  <2> QED BY <1>1
<1>3. PICK c : IsChain(c, n, V, g, step)
  <2> HIDE DEF V, step
  <2> QED BY <1>1, <1>2, ChainExists
<1>4. Law(c)
  <2> HIDE DEF V, step
  <2>1. c \in [0..n -> V] /\ c[0] = g /\ \A k \in 1..n : c[k] = step[k][c[k - 1]]
    BY <1>3 DEF IsChain
  <2>2. \A k \in 1..n : k - 1 \in 0..n /\ c[k - 1] \in V
    BY <2>1
  <2>3. \A k \in 0..n : c[k] = IF k = 0 THEN g ELSE _fbsd_random_r(c[k - 1])
    <3>1. \A k \in 0..n : k # 0 => k \in 1..n
      OBVIOUS
    <3> QED BY <2>1, <2>2, <3>1, <1>2
  <2> QED BY <2>1, <2>3
<1>5. PICK f : f = (CHOOSE h : Law(h)) /\ Law(f)
  <2> HIDE DEF Law
  <2> QED BY <1>4
<1>6. Advanced(g, n) = f[n]
  BY <1>5 DEF Advanced
<1> DEFINE H == {k \in 0..n : f[k] \in V}
<1>7. 0 \in H
  <2> HIDE DEF V
  <2>1. 0 \in 0..n
    OBVIOUS
  <2>2. f[0] = g
    BY <2>1, <1>5
  <2> QED BY <2>1, <2>2, <1>1
<1>8. ASSUME NEW k \in 0..n, k \in H, k < n PROVE k + 1 \in H
  <2> HIDE DEF V
  <2>1. k + 1 \in 0..n /\ k + 1 # 0 /\ (k + 1) - 1 = k
    BY <1>8
  <2>2. f[k + 1] = _fbsd_random_r(f[k])
    BY <2>1, <1>5
  <2> QED BY <2>1, <2>2, <1>1, <1>8
<1>9. n \in H
  <2> HIDE DEF H
  <2>1. \A k \in 0..n : k \in H
    BY <1>7, <1>8, UpTo0
  <2> QED BY <2>1
<1> QED BY <1>6, <1>9

\* The words that are made of a seed.
LEMMA SeededWords ==
  ASSUME NEW t \in Kinds, t # 0, NEW x \in Int
  PROVE  LET word[i \in 0..degrees[t] - 1] == IF i = 0 THEN x ELSE parkmiller32(word[i - 1])
         IN  \A i \in 0..(degrees[t] - 1) : word[i] \in Int
<1> DEFINE n == degrees[t] - 1
           step == [k \in 1..n |-> [y \in Int |-> parkmiller32(y)]]
           Law(f) == f = [i \in 0..degrees[t] - 1 |-> IF i = 0 THEN x ELSE parkmiller32(f[i - 1])]
<1>1. n \in Nat
  BY KindsFact
<1> HIDE DEF n
<1>2. step \in [1..n -> [Int -> Int]] /\ \A k \in 1..n : \A y \in Int : step[k][y] = parkmiller32(y)
  BY Schrage
<1>3. PICK c : IsChain(c, n, Int, x, step)
  <2> HIDE DEF step
  <2> QED BY <1>1, <1>2, ChainExists
<1>4. c \in [0..n -> Int] /\ \A k \in 0..n : c[k] = IF k = 0 THEN x ELSE parkmiller32(c[k - 1])
  <2> HIDE DEF step
  <2>1. c \in [0..n -> Int] /\ c[0] = x /\ \A k \in 1..n : c[k] = step[k][c[k - 1]]
    BY <1>3 DEF IsChain
  <2>2. \A k \in 0..n : k # 0 => k \in 1..n /\ k - 1 \in 0..n
    BY <1>1
  <2> QED BY <2>1, <2>2, <1>2
<1>5. Law(c)
  BY <1>4 DEF n
<1>6. PICK f : f = (CHOOSE h : Law(h)) /\ Law(f)
  <2> HIDE DEF Law
  <2> QED BY <1>5
<1> DEFINE H == {k \in 0..n : f[k] \in Int}
<1>7. 0 \in H
  BY <1>1, <1>6 DEF n
<1>8. ASSUME NEW k \in 0..n, k \in H, k < n PROVE k + 1 \in H
  <2>1. k + 1 \in 0..n /\ k + 1 # 0 /\ (k + 1) - 1 = k
    BY <1>1, <1>8
  <2>2. f[k + 1] = parkmiller32(f[k])
    BY <2>1, <1>6 DEF n
  <2>3. f[k + 1] \in Int
    BY <2>2, <1>8, Schrage
  <2> QED BY <2>1, <2>3
<1>9. \A k \in 0..n : k \in H
  <2> HIDE DEF H
  <2> QED BY <1>1, <1>7, <1>8, UpTo0
<1> QED BY <1>6, <1>9 DEF n

\* The places of a new seed are a separation apart.
LEMMA StartedAt ==
  ASSUME NEW t \in Kinds, t # 0 PROVE Aligned(t, seps[t], 0)
BY KindsFact DEF Aligned, Wrap

(* A seed puts the places a separation apart, wherever they were.           *)
LEMMA SeededKeeps ==
  ASSUME NEW g \in Gens, NEW x \in Int
  PROVE  IsGen(_fbsd_srandom_r(g, x)) /\ _fbsd_srandom_r(g, x).type = g.type
<1>1. g.type \in Kinds /\ g.words \in [Spots -> Int] /\ 0 \in Spots
  BY SpotsFact DEF Gens
<1>2. CASE g.type = 0
  <2> DEFINE u == [g EXCEPT !.words = [@ EXCEPT ![0] = x]]
  <2>1. u \in Gens /\ u.type = 0
    BY <1>1, <1>2 DEF Gens
  <2>2. IsGen(u)
    BY <2>1 DEF IsGen, Aligned
  <2>3. _fbsd_srandom_r(g, x) = Advanced(u, NSHUFF)
    BY <1>2 DEF _fbsd_srandom_r
  <2> HIDE DEF u
  <2> QED BY <1>2, <2>1, <2>2, <2>3, AdvancedKeeps, TypesAssumption, ZenonT(30)
<1>3. CASE g.type # 0
  <2> DEFINE d == degrees[g.type]
             word[i \in 0..degrees[g.type] - 1] == IF i = 0 THEN x ELSE parkmiller32(word[i - 1])
             w == [i \in DOMAIN g.words |-> IF i < d THEN word[i] ELSE g.words[i]]
             u == [g EXCEPT !.words = w, !.fptr = seps[g.type], !.rptr = 0]
  <2>1. d \in Nat \ {0, 1} /\ seps[g.type] \in Nat /\ Aligned(g.type, seps[g.type], 0)
    BY <1>1, <1>3, KindsFact, StartedAt
  <2>2. \A i \in 0..(d - 1) : word[i] \in Int
    BY <1>1, <1>3, SeededWords
  <2>3. _fbsd_srandom_r(g, x) = Advanced(u, Rounds10 * d)
    BY <1>3 DEF _fbsd_srandom_r
  <2> HIDE DEF d, word
  <2>4. w \in [Spots -> Int]
    <3>1. ASSUME NEW i \in Spots, i < d PROVE i \in 0..(d - 1)
      BY <3>1, <2>1, SpotsFact
    <3> QED BY <3>1, <2>2, <1>1
  <2> HIDE DEF w
  <2>5. u \in Gens /\ u.type = g.type /\ u.fptr = seps[g.type] /\ u.rptr = 0
    BY <1>1, <2>1, <2>4 DEF Gens
  <2>6. IsGen(u)
    BY <2>1, <2>5 DEF IsGen
  <2>7. Rounds10 * d \in Nat
    BY <2>1, TypesAssumption
  <2> HIDE DEF u
  <2> QED BY <2>3, <2>5, <2>6, <2>7, AdvancedKeeps
<1> QED BY <1>2, <1>3

(* What a table out of use says of its sequence, and a table in use.        *)
Loose(e) ==
  LET t == e.first % MAX_TYPES
  IN  Ring(t, ((e.first \div MAX_TYPES) + seps[t]) % degrees[t], e.words)
RingOf(im, tb, b) ==
  IF b = im.table THEN Ring(im.type, im.fptr, tb[b].words) ELSE Loose(tb[b])

Placings == [table : Tables, type : Kinds, fptr : Nat, rptr : Nat]
Tabled == [first : Nat, words : [Spots -> Int]]
Sound(im, tb) ==
  /\ im \in Placings /\ Aligned(im.type, im.fptr, im.rptr)
  /\ tb \in [Tables -> Tabled]

\* The property's words are those of the ring.
LEMMA AsRing == \A b : Register(b) = RingOf(implicit, tables, b)
BY DEF Register, RingOf, Ring, Loose

\* The first word of a table holds the type and the rear place, and gives them back.
LEMMA FirstWordFact ==
  ASSUME NEW g, IsGen(g)
  PROVE  /\ FirstWord(g) \in Nat /\ FirstWord(g) % MAX_TYPES = g.type
         /\ g.type # 0 => FirstWord(g) \div MAX_TYPES = g.rptr
<1>1. /\ g.type \in 0..(MAX_TYPES - 1) /\ g.rptr \in Nat /\ MAX_TYPES \in Nat \ {0}
  BY KindsFact DEF IsGen, Gens, Kinds
<1>2. CASE g.type = 0
  <2>1. FirstWord(g) = 0
    BY <1>2 DEF FirstWord
  <2>2. 0 = MAX_TYPES * 0 + 0 /\ 0 \in 0..(MAX_TYPES - 1)
    BY <1>1
  <2>3. 0 % MAX_TYPES = 0
    BY <1>1, <2>2, DividedOnce
  <2> QED BY <1>2, <2>1, <2>3
<1>3. CASE g.type # 0
  <2> DEFINE v == MAX_TYPES * g.rptr + g.type
  <2>1. FirstWord(g) = v
    BY <1>3 DEF FirstWord
  <2>2. v \in Nat
    BY <1>1
  <2>3. v % MAX_TYPES = g.type /\ v \div MAX_TYPES = g.rptr
    <3> DEFINE t == g.type
               r == g.rptr
    <3>1. t \in 0..(MAX_TYPES - 1) /\ r \in Int /\ v = MAX_TYPES * r + t /\ MAX_TYPES \in Nat \ {0}
      BY <1>1
    <3> HIDE DEF t, r, v
    <3>2. v % MAX_TYPES = t /\ v \div MAX_TYPES = r
      BY <3>1, DividedOnce
    <3> QED BY <3>2 DEF t, r
  <2> QED BY <2>1, <2>2, <2>3
<1> QED BY <1>2, <1>3

\* setstate finds the front place from the rear one.
LEMMA TurnedTo ==
  ASSUME NEW t \in Kinds, t # 0, NEW r \in 0..(degrees[t] - 1)
  PROVE  (r + seps[t]) % degrees[t] = Wrap(r + seps[t], degrees[t])
<1> DEFINE d == degrees[t]
           y == r + seps[t]
<1>1. d \in Nat \ {0} /\ y \in 0..(2 * d - 1)
  BY KindsFact
<1> HIDE DEF d, y
<1>2. y % d = Wrap(y, d)
  BY <1>1, Wrapped
<1> QED BY <1>2 DEF d, y

(* The table in use, when its first word is written, says the same as the   *)
(* generator that works on it.                                              *)
LEMMA SaveLeaves ==
  ASSUME NEW im, NEW tb, Sound(im, tb), NEW g, IsGen(g),
         g.type = im.type, g.fptr = im.fptr, g.rptr = im.rptr
  PROVE  LET sv == [tb EXCEPT ![im.table].first = FirstWord(g)]
         IN  /\ Sound(im, sv) /\ \A b \in Tables : sv[b].words = tb[b].words
             /\ \A b \in Tables : Loose(sv[b]) = RingOf(im, tb, b) /\ RingOf(im, sv, b) = RingOf(im, tb, b)
<1>0. PICK sv : sv = [tb EXCEPT ![im.table].first = FirstWord(g)]
  OBVIOUS
<1> DEFINE F == FirstWord(g)
           t == im.type
           o == im.table
<1>1. F \in Nat /\ F % MAX_TYPES = t /\ (t # 0 => F \div MAX_TYPES = im.rptr)
  BY FirstWordFact
<1>2. /\ o \in Tables /\ t \in Kinds /\ im \in Placings /\ Aligned(t, im.fptr, im.rptr)
      /\ tb \in [Tables -> Tabled]
  BY DEF Sound, Placings
<1>3. sv = [tb EXCEPT ![o].first = F]
  BY <1>0
<1> HIDE DEF F, t, o
<1>4. /\ sv \in [Tables -> Tabled]
      /\ \A b \in Tables : sv[b].words = tb[b].words /\ (b # o => sv[b] = tb[b])
      /\ sv[o].first = F
  <2> DEFINE e == [tb[o] EXCEPT !.first = F]
  <2>1. e \in Tabled /\ e.words = tb[o].words /\ e.first = F
    BY <1>1, <1>2 DEF Tabled
  <2>2. sv = [tb EXCEPT ![o] = e]
    BY <1>3
  <2> HIDE DEF e
  <2> QED BY <2>1, <2>2, <1>2
<1>5. Sound(im, sv)
  BY <1>2, <1>4 DEF Sound, t
<1>6. Loose(sv[o]) = Ring(t, im.fptr, tb[o].words)
  <2>0. Loose(sv[o]) = Ring(F % MAX_TYPES, ((F \div MAX_TYPES) + seps[F % MAX_TYPES])
                                            % degrees[F % MAX_TYPES], sv[o].words)
    BY <1>4 DEF Loose
  <2>1. CASE t = 0
    <3>1. \A f : Ring(0, f, tb[o].words) = <<tb[o].words[0]>>
      BY DEF Ring
    <3> QED BY <2>0, <2>1, <3>1, <1>1, <1>2, <1>4
  <2>2. CASE t # 0
    <3>1. im.rptr \in 0..(degrees[t] - 1) /\ im.fptr = Wrap(im.rptr + seps[t], degrees[t])
      BY <2>2, <1>2 DEF Aligned
    <3>2. (im.rptr + seps[t]) % degrees[t] = im.fptr
      BY <2>2, <3>1, <1>2, TurnedTo
    <3> QED BY <2>0, <2>2, <3>2, <1>1, <1>2, <1>4
  <2> QED BY <2>1, <2>2
<1>7. RingOf(im, tb, o) = Ring(t, im.fptr, tb[o].words) /\ RingOf(im, sv, o) = Ring(t, im.fptr, sv[o].words)
  BY DEF RingOf, o, t
<1>8. \A b \in Tables : b # o => RingOf(im, tb, b) = Loose(tb[b]) /\ RingOf(im, sv, b) = Loose(sv[b])
  BY DEF RingOf, o
<1>9. /\ Sound(im, sv) /\ \A b \in Tables : sv[b].words = tb[b].words
      /\ \A b \in Tables : Loose(sv[b]) = RingOf(im, tb, b) /\ RingOf(im, sv, b) = RingOf(im, tb, b)
  BY <1>2, <1>4, <1>5, <1>6, <1>7, <1>8
<1> QED BY <1>0, <1>9

\* A generator is put back into the table it came from.
LEMMA UseLeaves ==
  ASSUME NEW im, NEW tb, Sound(im, tb), NEW g, IsGen(g)
  PROVE  LET jm == Placed(im.table, g)
             ub == [tb EXCEPT ![im.table].words = g.words]
         IN  /\ Sound(jm, ub)
             /\ RingOf(jm, ub, im.table) = Ring(g.type, g.fptr, g.words)
             /\ \A b \in Tables : b # im.table => RingOf(jm, ub, b) = RingOf(im, tb, b)
<1> DEFINE o == im.table
           jm == Placed(o, g)
           ub == [tb EXCEPT ![o].words = g.words]
<1>1. o \in Tables /\ tb \in [Tables -> Tabled]
  BY DEF Sound, Placings
<1>2. g \in Gens /\ Aligned(g.type, g.fptr, g.rptr)
  BY DEF IsGen
<1>3. /\ jm \in Placings /\ jm.table = o /\ jm.type = g.type /\ jm.fptr = g.fptr /\ jm.rptr = g.rptr
  BY <1>1, <1>2 DEF Placed, Placings, Gens
<1>4. /\ ub \in [Tables -> Tabled] /\ ub[o].words = g.words
      /\ \A b \in Tables : b # o => ub[b] = tb[b]
  <2>1. g.words \in [Spots -> Int] /\ ub = [tb EXCEPT ![o].words = g.words]
    BY <1>2 DEF Gens
  <2> DEFINE e == [tb[o] EXCEPT !.words = g.words]
  <2> HIDE DEF o
  <2>2. e \in Tabled /\ e.words = g.words
    BY <2>1, <1>1 DEF Tabled
  <2>3. ub = [tb EXCEPT ![o] = e]
    BY <2>1
  <2> HIDE DEF e, ub
  <2> QED BY <2>2, <2>3, <1>1
<1> HIDE DEF jm, ub
<1>5. Sound(jm, ub)
  BY <1>2, <1>3, <1>4 DEF Sound
<1>6. RingOf(jm, ub, o) = Ring(g.type, g.fptr, g.words)
  BY <1>3, <1>4 DEF RingOf
<1>7. \A b \in Tables : b # o => RingOf(jm, ub, b) = RingOf(im, tb, b)
  BY <1>3, <1>4 DEF RingOf
<1> QED BY <1>5, <1>6, <1>7 DEF jm, ub

\* A table with the entry e becomes the one in use.
LEMMA TakeLeaves ==
  ASSUME NEW sv \in [Tables -> Tabled],
         NEW jm \in Placings, Aligned(jm.type, jm.fptr, jm.rptr), NEW e \in Tabled
  PROVE  LET ub == [sv EXCEPT ![jm.table] = e]
         IN  /\ Sound(jm, ub)
             /\ RingOf(jm, ub, jm.table) = Ring(jm.type, jm.fptr, e.words)
             /\ \A b \in Tables : b # jm.table => RingOf(jm, ub, b) = Loose(sv[b])
<1>0. PICK ub : ub = [sv EXCEPT ![jm.table] = e]
  OBVIOUS
<1>1. jm.table \in Tables
  BY DEF Placings
<1>2. /\ ub \in [Tables -> Tabled] /\ ub[jm.table] = e
      /\ \A b \in Tables : b # jm.table => ub[b] = sv[b]
  BY <1>0, <1>1
<1>3. Sound(jm, ub)
  BY <1>2 DEF Sound
<1>4. /\ RingOf(jm, ub, jm.table) = Ring(jm.type, jm.fptr, e.words)
      /\ \A b \in Tables : b # jm.table => RingOf(jm, ub, b) = Loose(sv[b])
  BY <1>2 DEF RingOf
<1> QED BY <1>0, <1>3, <1>4

(* What holds of random at all times: its places are a separation apart in  *)
(* the words of its type, and every table has words and a first word.       *)
RandInv == Sound(implicit, tables)

\* implicit with its table is a generator.
LEMMA CurrentFact ==
  ASSUME RandInv
  PROVE  /\ Current \in Gens /\ IsGen(Current)
         /\ Current.type = implicit.type /\ Current.fptr = implicit.fptr
         /\ Current.rptr = implicit.rptr /\ Current.words = tables[implicit.table].words
         /\ implicit.table \in Tables
<1>1. /\ implicit \in Placings /\ Aligned(implicit.type, implicit.fptr, implicit.rptr)
      /\ tables \in [Tables -> Tabled]
  BY DEF RandInv, Sound
<1>2. implicit.table \in Tables /\ tables[implicit.table].words \in [Spots -> Int]
  BY <1>1 DEF Placings, Tabled
<1>3. Current \in Gens
  BY <1>1, <1>2 DEF Current, Loaded, Placings, Gens
<1>4. /\ Current.type = implicit.type /\ Current.fptr = implicit.fptr
      /\ Current.rptr = implicit.rptr /\ Current.words = tables[implicit.table].words
  BY DEF Current, Loaded
<1> QED BY <1>1, <1>2, <1>3, <1>4 DEF IsGen

\* The generator that is written in the source.
LEMMA StartsSound == RandomInit => RandInv
<1> SUFFICES ASSUME RandomInit PROVE RandInv
  OBVIOUS
<1> DEFINE z == [type |-> TYPE_3, fptr |-> 0, rptr |-> 0, words |-> Blank, last |-> 0]
           g == FirstGenerator(TYPE_3)
<1>1. z \in Gens
  BY KindsFact, SpotsFact DEF Gens
<1>2. g = _fbsd_srandom_r(z, 1)
  BY DEF FirstGenerator
<1>3. IsGen(g)
  <2> HIDE DEF z, g
  <2>1. 1 \in Int
    OBVIOUS
  <2> QED BY <1>1, <1>2, <2>1, SeededKeeps
<1>4. g \in Gens /\ Aligned(g.type, g.fptr, g.rptr) /\ FirstWord(g) \in Nat /\ randtbl \in Tables
  BY <1>3, FirstWordFact DEF IsGen, Tables
<1>5. NewTable \in Tabled
  BY SpotsFact DEF NewTable, Tabled
<1>6. /\ implicit = [table |-> randtbl, type |-> g.type, fptr |-> g.fptr, rptr |-> g.rptr]
      /\ tables = [b \in Tables |->
                     IF b = randtbl THEN [first |-> FirstWord(g), words |-> g.words] ELSE NewTable]
  BY DEF RandomInit, Placed
<1> HIDE DEF g
<1>7. /\ implicit \in Placings
      /\ implicit.type = g.type /\ implicit.fptr = g.fptr /\ implicit.rptr = g.rptr
  BY <1>4, <1>6 DEF Placings, Gens
<1>8. [first |-> FirstWord(g), words |-> g.words] \in Tabled
  BY <1>4 DEF Tabled, Gens
<1>9. tables \in [Tables -> Tabled]
  BY <1>5, <1>6, <1>8
<1> QED BY <1>4, <1>7, <1>9 DEF RandInv, Sound

\* The generator in use is put back: the other tables say what they said.
LEMMA AfterUse ==
  ASSUME RandInv, NEW g, IsGen(g)
  PROVE  LET jm == Placed(implicit.table, g)
             ub == [tables EXCEPT ![implicit.table].words = g.words]
         IN  /\ Sound(jm, ub)
             /\ RingOf(jm, ub, implicit.table) = Ring(g.type, g.fptr, g.words)
             /\ \A b \in Tables : b # implicit.table => RingOf(jm, ub, b) = Register(b)
<1>1. Sound(implicit, tables)
  BY DEF RandInv
<1> QED BY <1>1, UseLeaves, AsRing

\* The property's words after a step.
LEMMA RingAfter == \A b : Register(b)' = RingOf(implicit', tables', b)
BY DEF Register, RingOf, Ring, Loose

\* random: the sequence of the table in use moves on by one.
LEMMA RandomSteps ==
  ASSUME RandInv, random
  PROVE  /\ RandInv'
         /\ \A b \in Tables :
              IF b = implicit.table
              THEN /\ Register(b)' = Shifted(Register(b))
                   /\ drawn' = LET x == Shifted(Register(b))[Len(Register(b))]
                               IN  IF implicit.type = 0 THEN x ELSE x \div 2
              ELSE Register(b)' = Register(b)
<1>0. PICK o : o = implicit.table
  OBVIOUS
<1> DEFINE c == Current
           g == _fbsd_random_r(c)
           jm == Placed(o, g)
           ub == [tables EXCEPT ![o].words = g.words]
           old == Register(o)
<1>1. IsGen(c) /\ c \in Gens /\ c.type = implicit.type /\ o \in Tables
  BY <1>0, CurrentFact
<1>2. IsGen(g)
  BY <1>1, DrawKeeps
<1>3. /\ Sound(jm, ub) /\ RingOf(jm, ub, o) = Ring(g.type, g.fptr, g.words)
      /\ \A b \in Tables : b # o => RingOf(jm, ub, b) = Register(b)
  <2> HIDE DEF c, g
  <2> QED BY <1>0, <1>2, AfterUse
<1>4. old = Ring(c.type, c.fptr, c.words)
  BY <1>0, CurrentFact, AsRing DEF RingOf
<1>5. /\ c.type \in Kinds /\ c.words \in [Spots -> Int] /\ Aligned(c.type, c.fptr, c.rptr)
  BY <1>1 DEF IsGen, Gens
<1> HIDE DEF c, old
<1>6. /\ Ring(g.type, g.fptr, g.words) = Shifted(old)
      /\ g.last = LET x == Shifted(old)[Len(old)] IN IF c.type = 0 THEN x ELSE x \div 2
  <2>1. CASE c.type = 0
    <3> DEFINE v == parkmiller32(c.words[0])
    <3>1. g = [c EXCEPT !.words = [@ EXCEPT ![0] = v], !.last = v]
      BY <1>1, <2>1, DrawMultiplies
    <3> HIDE DEF v, g
    <3>2. g.type = 0 /\ g.words = [c.words EXCEPT ![0] = v] /\ g.last = v
      BY <3>1, <1>1, <2>1 DEF Gens
    <3>3. /\ Len(Ring(0, c.fptr, c.words)) = 1
          /\ Shifted(Ring(0, c.fptr, c.words)) = Ring(0, g.fptr, [c.words EXCEPT ![0] = v])
          /\ Ring(0, g.fptr, [c.words EXCEPT ![0] = v])[1] = v
      BY <1>5, RingMultiplies DEF v
    <3> QED BY <2>1, <3>2, <3>3, <1>4
  <2>2. CASE c.type # 0
    <3> DEFINE d == degrees[c.type]
               v == Sum(c)
    <3>1. /\ g.type = c.type /\ g.fptr = Wrap(c.fptr + 1, d)
          /\ g.words = [c.words EXCEPT ![c.fptr] = v] /\ g.last = v \div 2
      BY <1>1, <2>2, DrawAdds
    <3>2. v = (c.words[c.fptr] + c.words[c.rptr]) % 2^RandomBits /\ v \in Int
      <4>1. c.fptr \in Spots /\ c.rptr \in Spots
        BY <1>5, <2>2, AlignedFact
      <4> DEFINE a == c.words[c.fptr] + c.words[c.rptr]
                 m == 2^RandomBits
      <4>2. a \in Int /\ m \in Nat \ {0}
        BY <4>1, <1>5, TypesAssumption
      <4> HIDE DEF a, m
      <4>3. a % m \in 0..(m - 1)
        BY <4>2, Divided
      <4>4. a % m \in Int
        BY <4>2, <4>3
      <4> QED BY <4>4 DEF Sum, a, m
    <3> HIDE DEF g, v
    <3>3. /\ Len(old) = d /\ Shifted(old) = Ring(c.type, Wrap(c.fptr + 1, d), [c.words EXCEPT ![c.fptr] = v])
          /\ Shifted(old)[d] = v
      BY <1>4, <1>5, <2>2, <3>2, RingShifts
    <3> QED BY <2>2, <3>1, <3>3
  <2> QED BY <2>1, <2>2
<1>7. implicit' = jm /\ tables' = ub /\ drawn' = g.last
  BY <1>0 DEF random, Use, c
<1> HIDE DEF jm, ub, g
<1>8. Sound(implicit', tables')
  BY <1>3, <1>7
<1>9. Register(o)' = Shifted(old)
  <2>1. Register(o)' = RingOf(implicit', tables', o)
    BY RingAfter
  <2> QED BY <2>1, <1>3, <1>6, <1>7
<1>10. ASSUME NEW b \in Tables, b # o PROVE Register(b)' = Register(b)
  <2>1. Register(b)' = RingOf(implicit', tables', b)
    BY RingAfter
  <2> QED BY <2>1, <1>3, <1>7, <1>10
<1>11. drawn' = LET x == Shifted(old)[Len(old)] IN IF implicit.type = 0 THEN x ELSE x \div 2
  BY <1>1, <1>6, <1>7
<1> QED BY <1>0, <1>8, <1>9, <1>10, <1>11 DEF RandInv, old

\* A call other than random leaves the sequence of b, or begins it again.
Spared(b) == \/ Seeding(b) \/ (b = implicit.table /\ _fbsd_setstate(b))
             \/ Register(b)' = Register(b)

\* A call that changes only the generator in use spares the other tables.
LEMMA UseSpares ==
  ASSUME RandInv, NEW g, IsGen(g), Use(g)
  PROVE  RandInv' /\ \A b \in Tables : b # implicit.table => Register(b)' = Register(b)
<1> DEFINE jm == Placed(implicit.table, g)
           ub == [tables EXCEPT ![implicit.table].words = g.words]
<1>1. /\ Sound(jm, ub)
      /\ \A b \in Tables : b # implicit.table => RingOf(jm, ub, b) = Register(b)
  BY AfterUse
<1>2. implicit' = jm /\ tables' = ub
  BY DEF Use
<1> HIDE DEF jm, ub
<1>3. RandInv'
  BY <1>1, <1>2 DEF RandInv
<1>4. ASSUME NEW b \in Tables, b # implicit.table PROVE Register(b)' = Register(b)
  <2>1. Register(b)' = RingOf(implicit', tables', b)
    BY RingAfter
  <2> QED BY <2>1, <1>1, <1>2, <1>4
<1> QED BY <1>3, <1>4

\* srandom seeds the table in use.
LEMMA SrandomSteps ==
  ASSUME RandInv, NEW x \in Seeds, srandom(x)
  PROVE  RandInv' /\ \A b \in Tables : Spared(b)
<1>1. PICK g : g = _fbsd_srandom_r(Current, x)
  OBVIOUS
<1>2. x \in Int
  BY TypesAssumption
<1>3. IsGen(g)
  BY <1>1, <1>2, CurrentFact, SeededKeeps
<1>4. Use(g)
  BY <1>1 DEF srandom
<1>5. RandInv' /\ \A b \in Tables : b # implicit.table => Register(b)' = Register(b)
  BY <1>3, <1>4, UseSpares
<1>6. \A b \in Tables : b = implicit.table => Seeding(b)
  BY DEF Seeding
<1> QED BY <1>5, <1>6 DEF Spared

\* srandomdev seeds the table in use with the time.
LEMMA SrandomdevSteps ==
  ASSUME RandInv, NEW x \in Seeds, srandomdev(x)
  PROVE  RandInv' /\ \A b \in Tables : Spared(b)
<1> DEFINE w == [i \in DOMAIN Current.words |->
                   IF i < degrees[Current.type] \/ (Current.type = 0 /\ i = 0) THEN x ELSE Current.words[i]]
           timed == [Current EXCEPT !.words = w]
           started == [timed EXCEPT !.fptr = seps[Current.type], !.rptr = 0]
<1>1. PICK g : g = IF Current.type = 0 THEN timed ELSE started
  OBVIOUS
<1>2. x \in Int
  BY TypesAssumption
<1>3. Current \in Gens /\ Current.type \in Kinds /\ Current.words \in [Spots -> Int]
  BY CurrentFact DEF Gens
<1>4. Use(g)
  BY <1>1 DEF srandomdev
<1>5. w \in [Spots -> Int]
  BY <1>2, <1>3
<1> HIDE DEF w
<1>6. timed \in Gens /\ timed.type = Current.type
  BY <1>3, <1>5 DEF Gens
<1> HIDE DEF timed
<1>7. IsGen(g)
  <2>1. CASE Current.type = 0
    BY <2>1, <1>1, <1>6 DEF IsGen, Aligned
  <2>2. CASE Current.type # 0
    <3>1. /\ seps[Current.type] \in Nat /\ Aligned(Current.type, seps[Current.type], 0)
      BY <2>2, <1>3, KindsFact, StartedAt
    <3>2. /\ started \in Gens /\ started.type = Current.type
          /\ started.fptr = seps[Current.type] /\ started.rptr = 0
      BY <3>1, <1>6 DEF Gens
    <3> QED BY <2>2, <3>1, <3>2, <1>1 DEF IsGen
  <2> QED BY <2>1, <2>2
<1>8. RandInv' /\ \A b \in Tables : b # implicit.table => Register(b)' = Register(b)
  BY <1>4, <1>7, UseSpares
<1>9. \A b \in Tables : b = implicit.table => Seeding(b)
  BY DEF Seeding
<1> QED BY <1>8, <1>9 DEF Spared

\* The table in use is saved, and nothing changes for any sequence.
LEMMA SavedFact ==
  ASSUME RandInv
  PROVE  /\ Sound(implicit, Saved) /\ \A b \in Tables : Saved[b].words = tables[b].words
         /\ \A b \in Tables : Loose(Saved[b]) = Register(b)
         /\ \A b \in Tables : RingOf(implicit, Saved, b) = Register(b)
<1>1. PICK g : g = Current
  OBVIOUS
<1>2. /\ IsGen(g) /\ g.type = implicit.type /\ g.fptr = implicit.fptr /\ g.rptr = implicit.rptr
  BY <1>1, CurrentFact
<1>3. Sound(implicit, tables)
  BY DEF RandInv
<1>4. LET sv == [tables EXCEPT ![implicit.table].first = FirstWord(g)]
      IN  /\ Sound(implicit, sv) /\ \A b \in Tables : sv[b].words = tables[b].words
          /\ \A b \in Tables : /\ Loose(sv[b]) = RingOf(implicit, tables, b)
                               /\ RingOf(implicit, sv, b) = RingOf(implicit, tables, b)
  BY <1>2, <1>3, SaveLeaves, ZenonT(30)
<1>5. Saved = [tables EXCEPT ![implicit.table].first = FirstWord(g)]
  BY <1>1 DEF Saved
<1> QED BY <1>4, <1>5, AsRing

\* Another table is taken.
LEMMA AfterTake ==
  ASSUME RandInv, NEW jm \in Placings, Aligned(jm.type, jm.fptr, jm.rptr),
         NEW e \in Tabled, implicit' = jm, tables' = [Saved EXCEPT ![jm.table] = e]
  PROVE  /\ RandInv'
         /\ \A b \in Tables : Register(b)' = IF b = jm.table THEN Ring(jm.type, jm.fptr, e.words)
                                             ELSE Register(b)
<1>1. PICK sv : sv = Saved
  OBVIOUS
<1>2. PICK ub : ub = [sv EXCEPT ![jm.table] = e]
  OBVIOUS
<1>3. sv \in [Tables -> Tabled] /\ \A b \in Tables : Loose(sv[b]) = Register(b)
  BY <1>1, SavedFact DEF Sound
<1>4. /\ Sound(jm, ub)
      /\ RingOf(jm, ub, jm.table) = Ring(jm.type, jm.fptr, e.words)
      /\ \A b \in Tables : b # jm.table => RingOf(jm, ub, b) = Loose(sv[b])
  BY <1>2, <1>3, TakeLeaves
<1>5. implicit' = jm /\ tables' = ub
  BY <1>1, <1>2
<1>6. RandInv'
  BY <1>4, <1>5 DEF RandInv
<1>7. ASSUME NEW b \in Tables
      PROVE  Register(b)' = IF b = jm.table THEN Ring(jm.type, jm.fptr, e.words) ELSE Register(b)
  <2>1. Register(b)' = RingOf(jm, ub, b)
    BY <1>5, RingAfter
  <2> QED BY <2>1, <1>3, <1>4
<1> QED BY <1>6, <1>7

\* A call that leaves implicit and the tables alone, such as rand.
LEMMA StaysSound ==
  ASSUME RandInv, UNCHANGED <<implicit, tables>>
  PROVE  RandInv' /\ \A b \in Tables : Register(b)' = Register(b)
BY DEF RandInv, Register

\* initstate seeds the table it is given, and saves the one in use.
LEMMA InitstateSteps ==
  ASSUME RandInv, NEW o \in Buffers, NEW x \in Seeds, NEW n \in TableSizes,
         _fbsd_initstate(x, o, n)
  PROVE  RandInv' /\ \A b \in Tables : Spared(b)
<1>0. o \in Tables /\ x \in Int
  BY TypesAssumption DEF Tables
<1>1. PICK c : c = [Current EXCEPT !.words = Saved[o].words, !.type = TypeFor(n)]
  OBVIOUS
<1>2. PICK g : g = _fbsd_initstate_r([Current EXCEPT !.words = Saved[o].words], x, n)
  OBVIOUS
<1>3. CASE TypeFor(n) = -1
  <2>1. tables' = Saved /\ implicit' = implicit
    BY <1>3 DEF _fbsd_initstate
  <2>2. /\ Sound(implicit, Saved)
        /\ \A b \in Tables : RingOf(implicit, Saved, b) = Register(b)
    BY SavedFact
  <2>3. RandInv'
    BY <2>1, <2>2 DEF RandInv
  <2>4. ASSUME NEW b \in Tables PROVE Register(b)' = Register(b)
    <3>1. Register(b)' = RingOf(implicit', tables', b)
      BY RingAfter
    <3> QED BY <3>1, <2>1, <2>2
  <2> QED BY <2>3, <2>4 DEF Spared
<1>4. CASE TypeFor(n) # -1
  <2>1. TypeFor(n) \in Kinds
    BY <1>4, TypeForFact
  <2>2. Current \in Gens /\ Saved[o].words \in [Spots -> Int]
    BY <1>0, CurrentFact, SavedFact DEF Sound, Tabled
  <2>3. IsGen(g)
    <3>1. PICK u : u = [[Current EXCEPT !.words = Saved[o].words] EXCEPT !.type = TypeFor(n)]
      OBVIOUS
    <3>2. u \in Gens
      <4>1. PICK w : w = [Current EXCEPT !.words = Saved[o].words]
        OBVIOUS
      <4>2. w \in Gens
        BY <4>1, <2>2 DEF Gens
      <4>3. u = [w EXCEPT !.type = TypeFor(n)]
        BY <3>1, <4>1
      <4> QED BY <4>2, <4>3, <2>1 DEF Gens
    <3>3. g = _fbsd_srandom_r(u, x)
      BY <1>2, <3>1 DEF _fbsd_initstate_r
    <3> QED BY <3>2, <3>3, <1>0, SeededKeeps
  <2>4. PICK jm : jm = Placed(o, g)
    OBVIOUS
  <2>5. PICK e : e = [first |-> FirstWord(g), words |-> g.words]
    OBVIOUS
  <2>6. g \in Gens /\ Aligned(g.type, g.fptr, g.rptr) /\ FirstWord(g) \in Nat
    BY <2>3, FirstWordFact DEF IsGen
  <2>7. /\ jm \in Placings /\ jm.table = o
        /\ jm.type = g.type /\ jm.fptr = g.fptr /\ jm.rptr = g.rptr
    BY <2>4, <2>6, <1>0 DEF Placed, Placings, Gens
  <2>8. e \in Tabled
    BY <2>5, <2>6 DEF Tabled, Gens
  <2>9. implicit' = jm /\ tables' = [Saved EXCEPT ![jm.table] = e]
    BY <1>2, <1>4, <2>4, <2>5, <2>7 DEF _fbsd_initstate
  <2>10. RandInv' /\ \A b \in Tables : b # o => Register(b)' = Register(b)
    BY <2>6, <2>7, <2>8, <2>9, AfterTake
  <2>11. \A b \in Tables : b = o => Seeding(b)
    BY <1>4 DEF Seeding
  <2> QED BY <2>10, <2>11 DEF Spared
<1> QED BY <1>3, <1>4

\* setstate goes on where the table it is given was left.
LEMMA SetstateSteps ==
  ASSUME RandInv, NEW o \in Tables, _fbsd_setstate(o)
  PROVE  RandInv' /\ \A b \in Tables : Spared(b)
<1>1. PICK type : type = tables[o].first % MAX_TYPES
  OBVIOUS
<1>2. PICK rear : rear = tables[o].first \div MAX_TYPES
  OBVIOUS
<1>3. PICK w : w = tables[o].words
  OBVIOUS
<1>4. type \in Kinds /\ rear \in Nat /\ implicit \in Placings /\ w \in [Spots -> Int]
  <2>1. PICK f : f = tables[o].first
    OBVIOUS
  <2>2. f \in Nat /\ implicit \in Placings /\ w \in [Spots -> Int]
    <3>1. implicit \in Placings /\ tables[o] \in Tabled
      BY DEF RandInv, Sound
    <3> QED BY <3>1, <1>3, <2>1 DEF Tabled
  <2>3. type = f % MAX_TYPES /\ rear = f \div MAX_TYPES
    BY <1>1, <1>2, <2>1
  <2>4. MAX_TYPES \in Nat \ {0}
    BY KindsFact
  <2>5. type \in 0..(MAX_TYPES - 1) /\ rear \in Nat
    <3>1. f \in Int
      BY <2>2
    <3>2. /\ f % MAX_TYPES \in 0..(MAX_TYPES - 1)
          /\ f \in Nat => f \div MAX_TYPES \in Nat
      BY <3>1, <2>4, Divided
    <3> QED BY <2>2, <2>3, <3>2
  <2> QED BY <2>2, <2>5 DEF Kinds
<1>5. CASE type # 0 /\ rear >= degrees[type]
  <2>1. UNCHANGED <<implicit, tables>>
    BY <1>1, <1>2, <1>5 DEF _fbsd_setstate
  <2> QED BY <2>1, StaysSound DEF Spared
<1>6. CASE ~(type # 0 /\ rear >= degrees[type])
  <2>1. PICK jm : jm = IF type = 0 THEN [implicit EXCEPT !.table = o, !.type = type]
                       ELSE [table |-> o, type |-> type, rptr |-> rear,
                             fptr |-> (rear + seps[type]) % degrees[type]]
    OBVIOUS
  <2>2. implicit' = jm /\ tables' = Saved
    BY <1>1, <1>2, <1>6, <2>1 DEF _fbsd_setstate
  <2>3. /\ jm \in Placings /\ jm.table = o /\ jm.type = type
        /\ Aligned(jm.type, jm.fptr, jm.rptr)
        /\ type # 0 => jm.fptr = (rear + seps[type]) % degrees[type]
    <3>1. CASE type = 0
      BY <3>1, <2>1, <1>4 DEF Placings, Aligned
    <3>2. CASE type # 0
      <4>1. /\ rear \in 0..(degrees[type] - 1) /\ degrees[type] \in Nat \ {0, 1}
            /\ seps[type] \in 1..(degrees[type] - 1)
        BY <3>2, <1>4, <1>6, KindsFact
      <4>2. PICK f : f = (rear + seps[type]) % degrees[type]
        OBVIOUS
      <4>3. f = Wrap(rear + seps[type], degrees[type])
        BY <4>1, <4>2, <3>2, <1>4, TurnedTo
      <4>4. f \in Nat
        BY <4>1, <4>3 DEF Wrap
      <4>5. jm = [table |-> o, type |-> type, rptr |-> rear, fptr |-> f]
        BY <2>1, <3>2, <4>2
      <4> QED BY <1>4, <3>2, <4>1, <4>2, <4>3, <4>4, <4>5 DEF Placings, Aligned
    <3> QED BY <3>1, <3>2
  <2>4. PICK e : e = Saved[o]
    OBVIOUS
  <2>5. e \in Tabled /\ e.words = w /\ Saved \in [Tables -> Tabled]
    BY <2>4, <1>3, SavedFact DEF Sound
  <2>6. tables' = [Saved EXCEPT ![jm.table] = e]
    BY <2>2, <2>3, <2>4, <2>5
  <2>7. /\ RandInv'
        /\ \A b \in Tables : Register(b)' = IF b = jm.table THEN Ring(jm.type, jm.fptr, e.words)
                                            ELSE Register(b)
    BY <2>2, <2>3, <2>5, <2>6, AfterTake
  <2>8. CASE o = implicit.table
    <3>1. \A b \in Tables : b = o => Spared(b)
      BY <2>8 DEF Spared
    <3>2. \A b \in Tables : b # o => Register(b)' = Register(b)
      BY <2>3, <2>7
    <3> QED BY <2>7, <3>1, <3>2 DEF Spared
  <2>9. CASE o # implicit.table
    <3>1. Register(o) = Ring(type, (rear + seps[type]) % degrees[type], w)
      BY <2>9, <1>1, <1>2, <1>3, AsRing DEF RingOf, Loose
    <3>2. Ring(jm.type, jm.fptr, e.words) = Register(o)
      <4>1. CASE type = 0
        <5>1. \A f : Ring(0, f, w) = <<w[0]>>
          BY DEF Ring
        <5> QED BY <4>1, <5>1, <3>1, <2>3, <2>5
      <4>2. CASE type # 0
        BY <4>2, <3>1, <2>3, <2>5
      <4> QED BY <4>1, <4>2
    <3>3. \A b \in Tables : Register(b)' = Register(b)
      BY <3>2, <2>3, <2>7
    <3> QED BY <2>7, <3>3 DEF Spared
  <2> QED BY <2>8, <2>9
<1> QED BY <1>5, <1>6

\* Every call.
LEMMA StepSound ==
  ASSUME RandInv, [TablesNext \/ RandNext]_randomVars
  PROVE  RandInv' /\ (UNCHANGED <<implicit, tables>> \/ \A b \in Tables : Undisturbed(b))
<1>1. CASE random
  <2>1. RandInv' /\ \A b \in Tables : Undisturbed(b)
    BY <1>1, RandomSteps DEF Undisturbed
  <2> QED BY <2>1
<1>2. ASSUME RandInv', \A b \in Tables : Spared(b), ~random
      PROVE  RandInv' /\ \A b \in Tables : Undisturbed(b)
  BY <1>2 DEF Spared, Undisturbed
<1>3. CASE ~random
  <2>1. CASE \E x \in Seeds : srandom(x) \/ srandomdev(x)
    BY <2>1, <1>2, <1>3, SrandomSteps, SrandomdevSteps
  <2>2. CASE \E b \in Buffers, x \in Seeds, n \in TableSizes : _fbsd_initstate(x, b, n)
    BY <2>2, <1>2, <1>3, InitstateSteps
  <2>3. CASE \E b \in Tables : _fbsd_setstate(b)
    BY <2>3, <1>2, <1>3, SetstateSteps
  <2>4. CASE RandNext
    <3>1. UNCHANGED <<implicit, tables>>
      BY <2>4 DEF RandNext, rand, srand
    <3> QED BY <3>1, StaysSound
  <2>5. CASE UNCHANGED randomVars
    <3>1. UNCHANGED <<implicit, tables>>
      BY <2>5 DEF randomVars
    <3> QED BY <3>1, StaysSound
  <2> QED BY <1>3, <2>1, <2>2, <2>3, <2>4, <2>5 DEF TablesNext
<1> QED BY <1>1, <1>3

(* Whatever tables a program changes to and back, the words that decide     *)
(* what a table will draw stay until it is drawn from, and then move on by  *)
(* one as the trinomial (or, for type 0, the multiplication) says.          *)
THEOREM AlwaysInSequence == RandomSpec => SequenceKept
<1>1. RandInv /\ [TablesNext \/ RandNext]_randomVars => RandInv'
  BY StepSound
<1>2. RandInv /\ [TablesNext \/ RandNext]_randomVars
        => [UNCHANGED <<implicit, tables>> \/ \A b \in Tables : Undisturbed(b)]_randomVars
  BY StepSound
<1> QED BY <1>1, <1>2, StartsSound, PTL DEF RandomSpec, SequenceKept

-----------------------------------------------------------------------------
(* Sorting and searching.  The loops of qsort.c and bsearch.c are recursive  *)
(* functions of the number of passes: a loop keeps, from each pass to the    *)
(* next, a set of states that says what has been reached.                    *)
(* A loop of n passes that goes from each set of states to the next.        *)
IsLoop(n, G, base, step) ==
  base \in G[0] /\ \A k \in 1..n : \A x \in G[k - 1] : step[k][x] \in G[k]

(* A run of that loop.                                                      *)
IsRun(c, n, G, base, step) ==
  /\ c = [k \in 0..n |-> c[k]]
  /\ c[0] = base
  /\ \A k \in 1..n : c[k] = step[k][c[k - 1]]
  /\ \A k \in 0..n : c[k] \in G[k]

(* From a state of the first set there is such a run.                       *)
LEMMA LoopExists ==
  ASSUME NEW n \in Nat, NEW G, NEW base, NEW step, IsLoop(n, G, base, step)
  PROVE  \E c : IsRun(c, n, G, base, step)
<1> DEFINE V == UNION {G[k] : k \in 0..n}
           st == [k \in 1..n |-> [x \in V |-> IF x \in G[k - 1] THEN step[k][x] ELSE base]]
<1>1. base \in V /\ \A k \in 0..n : \A x \in G[k] : x \in V
  BY DEF IsLoop
<1>2. \A k \in 1..n : \A x \in G[k - 1] : step[k][x] \in V
  BY <1>1 DEF IsLoop
<1> HIDE DEF V
<1>3. st \in [1..n -> [V -> V]]
  BY <1>1, <1>2
<1>4. PICK c : IsChain(c, n, V, base, st)
  <2> HIDE DEF st
  <2> QED BY <1>1, <1>3, ChainExists
<1>5. c \in [0..n -> V] /\ c[0] = base /\ \A k \in 1..n : c[k] = st[k][c[k - 1]]
  BY <1>4 DEF IsChain
<1>6. \A k \in 1..n : \A x \in G[k - 1] : st[k][x] = step[k][x]
  <2>1. \A k \in 1..n : \A x \in G[k - 1] : x \in V
    BY <1>1
  <2> QED BY <2>1
<1> HIDE DEF st
<1> DEFINE H == {k \in 0..n : c[k] \in G[k]}
<1>7. 0 \in H
  BY <1>5 DEF IsLoop
<1>8. ASSUME NEW k \in 0..n, k \in H, k < n PROVE k + 1 \in H
  <2>1. k + 1 \in 1..n /\ (k + 1) - 1 = k /\ c[k] \in G[k]
    BY <1>8
  <2>2. c[k + 1] = step[k + 1][c[k]]
    BY <2>1, <1>5, <1>6
  <2>3. step[k + 1][c[k]] \in G[k + 1]
    BY <2>1 DEF IsLoop
  <2> QED BY <2>1, <2>2, <2>3
<1>9. \A k \in 0..n : k \in H
  <2> HIDE DEF H
  <2> QED BY <1>7, <1>8, UpTo0
<1>10. \A k \in 1..n : c[k] = step[k][c[k - 1]]
  <2> TAKE k \in 1..n
  <2>1. k - 1 \in 0..n
    OBVIOUS
  <2> QED BY <2>1, <1>5, <1>6, <1>9
<1> QED BY <1>5, <1>9, <1>10 DEF IsRun

(* What a loop is in when it has made n passes.                             *)
LEMMA LoopLeads ==
  ASSUME NEW n \in Nat, NEW G, NEW f, f[0] \in G[0],
         \A k \in 1..n : f[k - 1] \in G[k - 1] => f[k] \in G[k]
  PROVE  f[n] \in G[n]
<1> DEFINE H == {k \in 0..n : f[k] \in G[k]}
<1>1. 0 \in H
  OBVIOUS
<1>2. ASSUME NEW k \in 0..n, k \in H, k < n PROVE k + 1 \in H
  <2>1. k + 1 \in 1..n /\ (k + 1) - 1 = k /\ f[k] \in G[k]
    BY <1>2
  <2> QED BY <2>1
<1>3. \A k \in 0..n : k \in H
  <2> HIDE DEF H
  <2> QED BY <1>1, <1>2, UpTo0
<1> QED BY <1>3

(* A comparison of the elements E puts them in an order, some side by side. *)
IsOrder(cmp, E) ==
  /\ \A x, y \in E : cmp[x][y] \in Int
  /\ \A x, y \in E : cmp[x][y] < 0 <=> cmp[y][x] > 0
  /\ \A x, y, z \in E : cmp[x][y] <= 0 /\ cmp[y][z] <= 0 => cmp[x][z] <= 0

(* r has the elements of s, at other places among the n from a.             *)
Shuffled(s, r, a, n) ==
  /\ \A i \in DOMAIN s : i \notin a..(a + n - 1) => r[i] = s[i]
  /\ \A i \in a..(a + n - 1) : \E j \in a..(a + n - 1) : r[i] = s[j]
  /\ \A i \in a..(a + n - 1) : \E j \in a..(a + n - 1) : s[i] = r[j]
(* The n elements from a are in order.                                      *)
InOrder(s, a, n, cmp) ==
  \A i, j \in a..(a + n - 1) : i < j => cmp[s[i]][s[j]] <= 0

(* What an order says of two elements, either way round.                    *)
LEMMA OrderFact ==
  ASSUME NEW E, NEW cmp, IsOrder(cmp, E)
  PROVE  /\ \A x, y \in E : cmp[x][y] \in Int /\ cmp[y][x] \in Int
         /\ \A x, y \in E : (cmp[x][y] = 0 <=> cmp[y][x] = 0)
         /\ \A x, y \in E : (cmp[x][y] >= 0 <=> cmp[y][x] <= 0)
         /\ \A x, y \in E : (cmp[x][y] > 0 <=> cmp[y][x] < 0)
         /\ \A x, y, z \in E : cmp[x][y] <= 0 /\ cmp[y][z] <= 0 => cmp[x][z] <= 0
<1>1. \A x, y \in E : cmp[x][y] \in Int /\ cmp[y][x] \in Int
  BY DEF IsOrder
<1>2. \A x, y \in E : /\ cmp[x][y] < 0 <=> cmp[y][x] > 0
                      /\ cmp[y][x] < 0 <=> cmp[x][y] > 0
  BY DEF IsOrder
<1> QED BY <1>1, <1>2 DEF IsOrder

(* An exchange of two elements, place by place.                             *)
LEMMA ExchangedFact ==
  ASSUME NEW L \in Nat, NEW E, NEW s \in [1..L -> E], NEW i \in 1..L, NEW j \in 1..L
  PROVE  /\ Exchanged(s, i, j) \in [1..L -> E]
         /\ \A k \in 1..L : Exchanged(s, i, j)[k] = IF k = i THEN s[j] ELSE IF k = j THEN s[i] ELSE s[k]
BY DEF Exchanged

(* What is left alone is shuffled; so is what an exchange within the places *)
(* makes.                                                                   *)
LEMMA ShuffledSelf ==
  ASSUME NEW s, NEW a, NEW n PROVE Shuffled(s, s, a, n)
BY DEF Shuffled

LEMMA ShuffledExchange ==
  ASSUME NEW L \in Nat, NEW E, NEW s \in [1..L -> E], NEW a \in 1..L, NEW n \in Nat,
         a + n - 1 <= L, NEW i \in a..(a + n - 1), NEW j \in a..(a + n - 1)
  PROVE  Shuffled(s, Exchanged(s, i, j), a, n)
<1>1. i \in 1..L /\ j \in 1..L /\ DOMAIN s = 1..L
  OBVIOUS
<1>2. PICK r : r = Exchanged(s, i, j)
  OBVIOUS
<1>3. \A k \in 1..L : r[k] = IF k = i THEN s[j] ELSE IF k = j THEN s[i] ELSE s[k]
  BY <1>1, <1>2 DEF Exchanged
<1>4. \A k \in a..(a + n - 1) : k \in 1..L
  OBVIOUS
<1>5. ASSUME NEW k \in a..(a + n - 1)
      PROVE  /\ \E m \in a..(a + n - 1) : r[k] = s[m]
             /\ \E m \in a..(a + n - 1) : s[k] = r[m]
  <2>1. CASE k = i
    BY <2>1, <1>3, <1>4
  <2>2. CASE k = j
    BY <2>2, <1>3, <1>4
  <2>3. CASE k # i /\ k # j
    BY <2>3, <1>3, <1>4
  <2> QED BY <2>1, <2>2, <2>3
<1>6. \A k \in 1..L : k \notin a..(a + n - 1) => r[k] = s[k]
  BY <1>3
<1> QED BY <1>1, <1>2, <1>5, <1>6 DEF Shuffled

(* Shuffling twice is shuffling.                                            *)
LEMMA ShuffledTwice ==
  ASSUME NEW s, NEW r, NEW t, NEW a, NEW n, DOMAIN r = DOMAIN s,
         Shuffled(s, r, a, n), Shuffled(r, t, a, n)
  PROVE  Shuffled(s, t, a, n)
<1> DEFINE B == a..(a + n - 1)
<1>1. /\ \A i \in DOMAIN s : i \notin B => r[i] = s[i] /\ t[i] = r[i]
      /\ \A i \in B : \E j \in B : r[i] = s[j]
      /\ \A i \in B : \E j \in B : s[i] = r[j]
      /\ \A i \in B : \E j \in B : t[i] = r[j]
      /\ \A i \in B : \E j \in B : r[i] = t[j]
  BY DEF Shuffled
<1> HIDE DEF B
<1>2. /\ \A i \in DOMAIN s : i \notin B => t[i] = s[i]
      /\ \A i \in B : \E j \in B : t[i] = s[j]
      /\ \A i \in B : \E j \in B : s[i] = t[j]
  <2>1. ASSUME NEW i \in B PROVE \E j \in B : t[i] = s[j]
    <3>1. PICK j \in B : t[i] = r[j]
      BY <1>1
    <3>2. PICK k \in B : r[j] = s[k]
      BY <1>1
    <3> QED BY <3>1, <3>2
  <2>2. ASSUME NEW i \in B PROVE \E j \in B : s[i] = t[j]
    <3>1. PICK j \in B : s[i] = r[j]
      BY <1>1
    <3>2. PICK k \in B : r[j] = t[k]
      BY <1>1
    <3> QED BY <3>1, <3>2
  <2> QED BY <1>1, <2>1, <2>2
<1> QED BY <1>2 DEF Shuffled, B

(* Shuffling some of the places is shuffling more of them.                  *)
LEMMA ShuffledWider ==
  ASSUME NEW L \in Nat, NEW E, NEW s \in [1..L -> E], NEW r, NEW a \in Int, NEW n \in Int,
         NEW b \in Int, NEW m \in Int, 1 <= b, b <= a, a + n <= b + m, b + m - 1 <= L,
         Shuffled(s, r, a, n)
  PROVE  Shuffled(s, r, b, m)
<1>1. \A i \in a..(a + n - 1) : i \in b..(b + m - 1)
  OBVIOUS
<1>2. \A i \in b..(b + m - 1) : i \in 1..L
  OBVIOUS
<1>3. DOMAIN s = 1..L
  OBVIOUS
<1>4. \A i \in 1..L : i \notin b..(b + m - 1) => r[i] = s[i]
  BY <1>1, <1>3 DEF Shuffled
<1>5. ASSUME NEW i \in b..(b + m - 1)
      PROVE  /\ \E j \in b..(b + m - 1) : r[i] = s[j]
             /\ \E j \in b..(b + m - 1) : s[i] = r[j]
  <2>1. CASE i \in a..(a + n - 1)
    BY <2>1, <1>1 DEF Shuffled
  <2>2. CASE i \notin a..(a + n - 1)
    BY <2>2, <1>2, <1>3 DEF Shuffled
  <2> QED BY <2>1, <2>2
<1> QED BY <1>3, <1>4, <1>5 DEF Shuffled

(* Insertion of the element at j, when those below are in order: after k    *)
(* steps it is at p.pl, and the others are in order; either it came down at *)
(* each step, or it stays above one that is not greater.                    *)
Sinking(s, low, j, cmp, L, E, k) ==
  {p \in [s : [1..L -> E], pl : low..j] :
     /\ Shuffled(s, p.s, low, j - low + 1)
     /\ \A x, y \in low..j : x < y /\ x # p.pl /\ y # p.pl => cmp[p.s[x]][p.s[y]] <= 0
     /\ \A y \in low..j : p.pl < y => cmp[p.s[p.pl]][p.s[y]] <= 0
     /\ p.pl >= j - k
     /\ p.pl > j - k => p.pl > low /\ cmp[p.s[p.pl - 1]][p.s[p.pl]] <= 0}

(* A step down keeps what the insertion has reached.                        *)
LEMMA SunkKeeps ==
  ASSUME NEW L \in Nat, NEW E, NEW cmp, IsOrder(cmp, E), NEW s \in [1..L -> E],
         NEW low \in 1..L, NEW j \in low..L, NEW k \in 1..(j - low),
         NEW p \in Sinking(s, low, j, cmp, L, E, k - 1)
  PROVE  Sunk(p, low, cmp) \in Sinking(s, low, j, cmp, L, E, k)
<1>1. PICK t, i : t = p.s /\ i = p.pl
  OBVIOUS
<1>2. /\ t \in [1..L -> E] /\ i \in low..j /\ p \in [s : [1..L -> E], pl : low..j]
      /\ Shuffled(s, t, low, j - low + 1)
      /\ \A x, y \in low..j : x < y /\ x # i /\ y # i => cmp[t[x]][t[y]] <= 0
      /\ \A y \in low..j : i < y => cmp[t[i]][t[y]] <= 0
      /\ i >= j - (k - 1)
      /\ i > j - (k - 1) => i > low /\ cmp[t[i - 1]][t[i]] <= 0
  BY <1>1 DEF Sinking
<1>3. low \in Int /\ j \in Int /\ k \in Int /\ i \in Int /\ i \in 1..L /\ \A x \in low..j : x \in 1..L
  <2>1. low \in Int /\ j \in Int /\ k \in Int /\ 1 <= low /\ j <= L /\ L \in Int
    OBVIOUS
  <2>2. i \in low..j
    BY <1>2
  <2> QED BY <2>1, <2>2
<1>6. i >= j - (k - 1) /\ (i > j - (k - 1) => i > low)
  BY <1>2
<1>7. k <= j - low
  BY <1>3
<1>8. \A x \in 1..L : t[x] \in E
  BY <1>2
<1>4. CASE ~(i > low /\ cmp[t[i - 1]][t[i]] > 0)
  <2>1. Sunk(p, low, cmp) = p
    BY <1>1, <1>4 DEF Sunk
  <2>2. i >= j - k
    BY <1>2, <1>3
  <2>3. i > j - k => i > low /\ cmp[t[i - 1]][t[i]] <= 0
    <3>1. ASSUME i > j - k PROVE i > low
      <4>1. i >= j - (k - 1) /\ (i > j - (k - 1) => i > low) /\ k <= j - low
        BY <1>6, <1>7
      <4>2. i > j - (k - 1) \/ i = j - (k - 1)
        BY <1>3, <4>1
      <4>3. i = j - (k - 1) => i > low
        BY <1>3, <4>1
      <4> QED BY <4>1, <4>2, <4>3
    <3>2. ASSUME i > low PROVE cmp[t[i - 1]][t[i]] <= 0
      <4>1. i - 1 \in 1..L
        BY <3>2, <1>3
      <4>3. t[i - 1] \in E /\ t[i] \in E
        BY <4>1, <1>3, <1>8
      <4>2. cmp[t[i - 1]][t[i]] \in Int
        BY <4>3, OrderFact
      <4> QED BY <4>2, <3>2, <1>4
    <3> QED BY <3>1, <3>2
  <2> QED BY <2>1, <2>2, <2>3, <1>1, <1>2 DEF Sinking
<1>5. CASE i > low /\ cmp[t[i - 1]][t[i]] > 0
  <2>1. PICK r : r = Exchanged(t, i, i - 1)
    OBVIOUS
  <2>2. i - 1 \in 1..L /\ i - 1 \in low..j /\ i - 1 \in Int
    BY <1>2, <1>3, <1>5
  <2>3. /\ r \in [1..L -> E]
        /\ \A x \in 1..L : r[x] = IF x = i THEN t[i - 1] ELSE IF x = i - 1 THEN t[i] ELSE t[x]
    BY <2>1, <2>2, <1>2, <1>3 DEF Exchanged
  <2>4. \A x \in 1..L : t[x] \in E
    BY <1>2
  <2>5. cmp[t[i - 1]][t[i]] \in Int
    BY <2>2, <2>4, <1>3, OrderFact
  <2>6. i = j - (k - 1)
    <3>1. ~(cmp[t[i - 1]][t[i]] <= 0)
      BY <2>5, <1>5
    <3>2. ~(i > j - (k - 1))
      BY <3>1, <1>2
    <3> QED BY <3>2, <1>3, <1>6
  <2>7. Shuffled(s, r, low, j - low + 1)
    <3>1. /\ low \in 1..L /\ j - low + 1 \in Nat /\ low + (j - low + 1) - 1 <= L
          /\ i \in low..(low + (j - low + 1) - 1) /\ i - 1 \in low..(low + (j - low + 1) - 1)
      BY <1>2, <1>3, <2>2
    <3>2. Shuffled(t, r, low, j - low + 1)
      BY <3>1, <2>1, <1>2, ShuffledExchange
    <3>3. DOMAIN t = DOMAIN s /\ Shuffled(s, t, low, j - low + 1)
      BY <1>2
    <3> QED BY <3>2, <3>3, ShuffledTwice
  <2>8. \A x, y \in low..j : x < y /\ x # i - 1 /\ y # i - 1 => cmp[r[x]][r[y]] <= 0
    <3> SUFFICES ASSUME NEW x \in low..j, NEW y \in low..j, x < y, x # i - 1, y # i - 1
                 PROVE  cmp[r[x]][r[y]] <= 0
      OBVIOUS
    <3>1. x \in 1..L /\ y \in 1..L
      BY <1>3
    <3>2. CASE x = i
      <4>1. r[x] = t[i - 1] /\ r[y] = t[y] /\ i - 1 < y /\ i - 1 # i /\ y # i
        BY <3>1, <3>2, <2>3, <1>3
      <4> QED BY <4>1, <2>2, <1>2
    <3>3. CASE y = i
      <4>1. r[y] = t[i - 1] /\ r[x] = t[x] /\ x < i - 1 /\ x # i /\ i - 1 # i
        BY <3>1, <3>3, <2>3, <1>3
      <4> QED BY <4>1, <2>2, <1>2
    <3>4. CASE x # i /\ y # i
      <4>1. r[x] = t[x] /\ r[y] = t[y]
        BY <3>1, <3>4, <2>3
      <4> QED BY <4>1, <3>4, <1>2
    <3> QED BY <3>2, <3>3, <3>4
  <2>9. \A y \in low..j : i - 1 < y => cmp[r[i - 1]][r[y]] <= 0
    <3> SUFFICES ASSUME NEW y \in low..j, i - 1 < y PROVE cmp[r[i - 1]][r[y]] <= 0
      OBVIOUS
    <3>1. y \in 1..L /\ r[i - 1] = t[i]
      BY <1>3, <2>2, <2>3
    <3>2. CASE y = i
      <4>1. r[y] = t[i - 1]
        BY <3>1, <3>2, <2>3
      <4>2. cmp[t[i]][t[i - 1]] < 0
        BY <1>3, <1>5, <2>2, <2>4, OrderFact
      <4>3. cmp[t[i]][t[i - 1]] \in Int
        BY <1>3, <2>2, <2>4, OrderFact
      <4> QED BY <3>1, <4>1, <4>2, <4>3
    <3>3. CASE y # i
      <4>1. r[y] = t[y] /\ i < y
        BY <3>1, <3>3, <2>3, <1>3
      <4> QED BY <3>1, <4>1, <1>2
    <3> QED BY <3>2, <3>3
  <2>10. PICK q : q = [s |-> r, pl |-> i - 1]
    OBVIOUS
  <2>11. Sunk(p, low, cmp) = q
    BY <1>1, <1>5, <2>1, <2>10 DEF Sunk
  <2>12. i - 1 = j - k
    BY <2>6, <1>3
  <2>13. ~(i - 1 > j - k) /\ i - 1 >= j - k
    BY <2>12, <1>3
  <2>14. q \in [s : [1..L -> E], pl : low..j] /\ q.s = r /\ q.pl = i - 1
    BY <2>2, <2>3, <2>10
  <2>15. q \in Sinking(s, low, j, cmp, L, E, k)
    BY <2>7, <2>8, <2>9, <2>13, <2>14 DEF Sinking
  <2> QED BY <2>11, <2>15
<1> QED BY <1>4, <1>5

(* Insertion puts one element more in order.                                *)
LEMMA InsertedSorts ==
  ASSUME NEW L \in Nat, NEW E, NEW cmp, IsOrder(cmp, E), NEW s \in [1..L -> E],
         NEW low \in 1..L, NEW j \in low..L, InOrder(s, low, j - low, cmp)
  PROVE  LET r == Inserted(s, j, low, cmp)
         IN  r \in [1..L -> E] /\ Shuffled(s, r, low, j - low + 1) /\ InOrder(r, low, j - low + 1, cmp)
<1>1. PICK n : n = j - low
  OBVIOUS
<1>2. n \in Nat /\ low \in Int /\ j \in Int /\ low + n - 1 = j - 1
  BY <1>1
<1>3. PICK z : z = [s |-> s, pl |-> j]
  OBVIOUS
<1> DEFINE G == [k \in 0..n |-> Sinking(s, low, j, cmp, L, E, k)]
           step == [k \in 1..n |-> [p \in G[k - 1] |-> Sunk(p, low, cmp)]]
           Law(f) == f = [k \in 0..n |-> IF k = 0 THEN z ELSE Sunk(f[k - 1], low, cmp)]
<1>4. z \in G[0]
  <2>1. z \in [s : [1..L -> E], pl : low..j] /\ z.s = s /\ z.pl = j
    BY <1>3
  <2>2. \A x, y \in low..j : x < y /\ x # j /\ y # j => cmp[s[x]][s[y]] <= 0
    BY <1>1, <1>2 DEF InOrder
  <2>3. z \in Sinking(s, low, j, cmp, L, E, 0)
    BY <2>1, <2>2, <1>2, ShuffledSelf DEF Sinking
  <2> QED BY <2>3, <1>2
<1>5. \A k \in 1..n : \A p \in G[k - 1] : Sunk(p, low, cmp) \in G[k]
  <2> TAKE k \in 1..n
  <2> TAKE p \in G[k - 1]
  <2>1. k \in 0..n /\ k - 1 \in 0..n /\ k \in 1..(j - low)
    BY <1>1, <1>2
  <2>2. p \in Sinking(s, low, j, cmp, L, E, k - 1)
    BY <2>1
  <2>3. Sunk(p, low, cmp) \in Sinking(s, low, j, cmp, L, E, k)
    BY <2>1, <2>2, SunkKeeps
  <2> QED BY <2>1, <2>3
<1>6. \E f : Law(f)
  <2>1. \A k \in 1..n : \A p \in G[k - 1] : step[k][p] = Sunk(p, low, cmp)
    OBVIOUS
  <2> HIDE DEF G, step
  <2>2. IsLoop(n, G, z, step)
    BY <1>4, <1>5, <2>1 DEF IsLoop
  <2>3. PICK c : IsRun(c, n, G, z, step)
    BY <1>2, <2>2, LoopExists
  <2>4. \A k \in 0..n : c[k] = IF k = 0 THEN z ELSE Sunk(c[k - 1], low, cmp)
    <3>1. \A k \in 0..n : k # 0 => k \in 1..n /\ k - 1 \in 0..n
      BY <1>2
    <3> QED BY <3>1, <2>1, <2>3 DEF IsRun
  <2>5. Law(c)
    BY <2>3, <2>4 DEF IsRun
  <2> QED BY <2>5
<1>7. PICK f : f = (CHOOSE h : Law(h)) /\ Law(f)
  <2> HIDE DEF Law
  <2> QED BY <1>6
<1>8. Inserted(s, j, low, cmp) = f[n].s
  BY <1>1, <1>3, <1>7 DEF Inserted
<1>9. f[n] \in G[n]
  <2> HIDE DEF G
  <2>1. f[0] = z /\ \A k \in 1..n : f[k] = Sunk(f[k - 1], low, cmp)
    <3>1. f = [k \in 0..n |-> IF k = 0 THEN z ELSE Sunk(f[k - 1], low, cmp)]
      BY <1>7
    <3>2. \A k \in 0..n : f[k] = IF k = 0 THEN z ELSE Sunk(f[k - 1], low, cmp)
      BY <3>1
    <3>3. 0 \in 0..n /\ \A k \in 1..n : k \in 0..n /\ k # 0
      BY <1>2
    <3> QED BY <3>2, <3>3
  <2> HIDE DEF Law
  <2>2. \A k \in 1..n : f[k - 1] \in G[k - 1] => f[k] \in G[k]
    BY <2>1, <1>5
  <2> QED BY <2>1, <2>2, <1>2, <1>4, LoopLeads
<1>10. PICK p : p = f[n]
  OBVIOUS
<1>11. PICK t, i : t = p.s /\ i = p.pl
  OBVIOUS
<1>12. /\ t \in [1..L -> E] /\ i \in low..j
       /\ Shuffled(s, t, low, j - low + 1)
       /\ \A x, y \in low..j : x < y /\ x # i /\ y # i => cmp[t[x]][t[y]] <= 0
       /\ \A y \in low..j : i < y => cmp[t[i]][t[y]] <= 0
       /\ i > j - n => i > low /\ cmp[t[i - 1]][t[i]] <= 0
  <2>1. p \in Sinking(s, low, j, cmp, L, E, n)
    BY <1>2, <1>9, <1>10
  <2> QED BY <2>1, <1>11 DEF Sinking
<1>13. InOrder(t, low, j - low + 1, cmp)
  <2> SUFFICES ASSUME NEW x \in low..j, NEW y \in low..j, x < y PROVE cmp[t[x]][t[y]] <= 0
    BY <1>2 DEF InOrder
  <2>1. CASE x # i /\ y # i
    BY <2>1, <1>12
  <2>2. CASE x = i
    BY <2>2, <1>12
  <2>3. CASE y = i
    <3>1. i > low /\ cmp[t[i - 1]][t[i]] <= 0 /\ i - 1 \in low..j
      BY <2>3, <1>1, <1>2, <1>12
    <3>2. CASE x = i - 1
      BY <2>3, <3>1, <3>2
    <3>3. CASE x # i - 1
      <4>1. x < i - 1 /\ x # i /\ i - 1 # i
        BY <2>3, <3>3, <1>2, <1>12
      <4>2. cmp[t[x]][t[i - 1]] <= 0
        BY <4>1, <3>1, <1>12
      <4>3. t[x] \in E /\ t[i - 1] \in E /\ t[i] \in E
        BY <3>1, <1>2, <1>12
      <4> QED BY <2>3, <3>1, <4>2, <4>3, OrderFact
    <3> QED BY <3>2, <3>3
  <2> QED BY <2>1, <2>2, <2>3
<1> QED BY <1>8, <1>10, <1>11, <1>12, <1>13

(* What insertion has made of s after k passes: k + 1 elements are in order. *)
Inserting(s, low, n, cmp, L, E, k) ==
  {r \in [1..L -> E] : Shuffled(s, r, low, n) /\ InOrder(r, low, k + 1, cmp)}

(* Insertion of all elements puts them in order.                            *)
LEMMA InsertionSorts ==
  ASSUME NEW L \in Nat, NEW E, NEW cmp, IsOrder(cmp, E), NEW s \in [1..L -> E],
         NEW low \in 1..L, NEW n \in Nat, n >= 1, low + n - 1 <= L
  PROVE  LET r == InsertionSorted(s, low, n, cmp)
         IN  r \in [1..L -> E] /\ Shuffled(s, r, low, n) /\ InOrder(r, low, n, cmp)
<1>1. PICK m : m = n - 1
  OBVIOUS
<1>2. m \in Nat /\ low \in Int /\ n \in Int /\ m + 1 = n
  BY <1>1
<1> DEFINE G == [k \in 0..m |-> Inserting(s, low, n, cmp, L, E, k)]
           step == [k \in 1..m |-> [r \in G[k - 1] |-> Inserted(r, low + k, low, cmp)]]
           Law(f) == f = [k \in 0..m |-> IF k = 0 THEN s ELSE Inserted(f[k - 1], low + k, low, cmp)]
<1>4. s \in G[0]
  <2>1. InOrder(s, low, 1, cmp)
    BY <1>2 DEF InOrder
  <2>2. s \in Inserting(s, low, n, cmp, L, E, 0)
    BY <2>1, ShuffledSelf DEF Inserting
  <2> QED BY <2>2, <1>2
<1>5. \A k \in 1..m : \A r \in G[k - 1] : Inserted(r, low + k, low, cmp) \in G[k]
  <2> TAKE k \in 1..m
  <2> TAKE r \in G[k - 1]
  <2>1. k \in 0..m /\ k - 1 \in 0..m /\ low + k \in low..L /\ (k - 1) + 1 = k /\ k \in Int
    BY <1>1, <1>2
  <2>2. r \in [1..L -> E] /\ Shuffled(s, r, low, n) /\ InOrder(r, low, k, cmp)
    BY <2>1 DEF Inserting
  <2>3. PICK j : j = low + k
    OBVIOUS
  <2>4. j \in low..L /\ j - low = k
    BY <2>1, <2>3, <1>2
  <2>5. InOrder(r, low, j - low, cmp)
    BY <2>2, <2>4
  <2>6. PICK t : t = Inserted(r, j, low, cmp)
    OBVIOUS
  <2>7. t \in [1..L -> E] /\ Shuffled(r, t, low, k + 1) /\ InOrder(t, low, k + 1, cmp)
    <3>1. t \in [1..L -> E] /\ Shuffled(r, t, low, j - low + 1) /\ InOrder(t, low, j - low + 1, cmp)
      BY <2>2, <2>4, <2>5, <2>6, InsertedSorts
    <3> QED BY <3>1, <2>4
  <2>8. Shuffled(r, t, low, n)
    <3>1. /\ k + 1 \in Int /\ 1 <= low /\ low <= low /\ low + (k + 1) <= low + n
      BY <1>1, <1>2, <2>1
    <3> HIDE DEF G
    <3> QED BY <3>1, <2>2, <2>7, <1>2, ShuffledWider
  <2>9. Shuffled(s, t, low, n)
    <3>1. DOMAIN r = DOMAIN s
      BY <2>2
    <3> QED BY <3>1, <2>2, <2>8, ShuffledTwice
  <2>10. t \in Inserting(s, low, n, cmp, L, E, k)
    BY <2>7, <2>9 DEF Inserting
  <2> QED BY <2>1, <2>3, <2>6, <2>10
<1>6. \E f : Law(f)
  <2>1. \A k \in 1..m : \A r \in G[k - 1] : step[k][r] = Inserted(r, low + k, low, cmp)
    OBVIOUS
  <2> HIDE DEF G, step
  <2>2. IsLoop(m, G, s, step)
    BY <1>4, <1>5, <2>1 DEF IsLoop
  <2>3. PICK c : IsRun(c, m, G, s, step)
    BY <1>2, <2>2, LoopExists
  <2>4. \A k \in 0..m : c[k] = IF k = 0 THEN s ELSE Inserted(c[k - 1], low + k, low, cmp)
    <3>1. \A k \in 0..m : k # 0 => k \in 1..m /\ k - 1 \in 0..m
      BY <1>2
    <3> QED BY <3>1, <2>1, <2>3 DEF IsRun
  <2>5. Law(c)
    BY <2>3, <2>4 DEF IsRun
  <2> QED BY <2>5
<1>7. PICK f : f = (CHOOSE h : Law(h)) /\ Law(f)
  <2> HIDE DEF Law
  <2> QED BY <1>6
<1>8. InsertionSorted(s, low, n, cmp) = f[m]
  BY <1>1, <1>7 DEF InsertionSorted
<1>9. f[m] \in G[m]
  <2> HIDE DEF G
  <2>1. f[0] = s /\ \A k \in 1..m : f[k] = Inserted(f[k - 1], low + k, low, cmp)
    <3>1. f = [k \in 0..m |-> IF k = 0 THEN s ELSE Inserted(f[k - 1], low + k, low, cmp)]
      BY <1>7
    <3>2. \A k \in 0..m : f[k] = IF k = 0 THEN s ELSE Inserted(f[k - 1], low + k, low, cmp)
      BY <3>1
    <3>3. 0 \in 0..m /\ \A k \in 1..m : k \in 0..m /\ k # 0
      BY <1>2
    <3> QED BY <3>2, <3>3
  <2> HIDE DEF Law
  <2>2. \A k \in 1..m : f[k - 1] \in G[k - 1] => f[k] \in G[k]
    BY <2>1, <1>5
  <2> QED BY <2>1, <2>2, <1>2, <1>4, LoopLeads
<1>10. f[m] \in Inserting(s, low, n, cmp, L, E, m)
  BY <1>2, <1>9
<1> QED BY <1>2, <1>8, <1>10 DEF Inserting

(* The pivot is one of the n elements.                                      *)
LEMMA PivotFact ==
  ASSUME NEW s, NEW cmp, NEW a \in Nat, NEW n \in Nat, n >= 1
  PROVE  Pivot(s, a, n, cmp) \in a..(a + n - 1)
<1> DEFINE d == n \div 8
           h == n \div 2
           B == a..(a + n - 1)
<1>1. /\ d \in Nat /\ h \in Nat /\ 2 * d <= h /\ h + d <= n - 1 /\ 2 * d <= n - 1 /\ h <= n - 1
  OBVIOUS
<1> HIDE DEF d, h
<1>2. /\ a \in B /\ a + d \in B /\ a + 2 * d \in B
      /\ (a + h) - d \in B /\ a + h \in B /\ (a + h) + d \in B
      /\ (a + n - 1) - 2 * d \in B /\ (a + n - 1) - d \in B /\ a + n - 1 \in B
  BY <1>1
<1>3. \A x, y, z \in B : med3(s, x, y, z, cmp) \in B
  BY DEF med3
<1> HIDE DEF B
<1> DEFINE pl == IF n > Many THEN med3(s, a, a + d, a + 2 * d, cmp) ELSE a
           pm == IF n > Many THEN med3(s, (a + h) - d, a + h, (a + h) + d, cmp) ELSE a + h
           pn == IF n > Many THEN med3(s, (a + n - 1) - 2 * d, (a + n - 1) - d, a + n - 1, cmp) ELSE a + n - 1
<1>4. pl \in B /\ pm \in B /\ pn \in B
  BY <1>2, <1>3
<1>5. Pivot(s, a, n, cmp) = IF n > Few THEN med3(s, pl, pm, pn, cmp) ELSE a + h
  BY DEF Pivot, d, h
<1> HIDE DEF pl, pm, pn
<1>6. Pivot(s, a, n, cmp) \in B
  BY <1>2, <1>3, <1>4, <1>5
<1> QED BY <1>6 DEF B

(* The places pa, pb, pc and pd part the n elements from a, the pivot first. *)
Parted(t, a, n, pa, pb, pc, pd, cmp) ==
  /\ a + 1 <= pa /\ pa <= pb /\ pb <= pc + 1 /\ pc <= pd /\ pd <= a + n - 1
  /\ \A i \in a..(a + n - 1) : i < pa => cmp[t[i]][t[a]] = 0
  /\ \A i \in a..(a + n - 1) : pa <= i /\ i < pb => cmp[t[i]][t[a]] < 0
  /\ \A i \in a..(a + n - 1) : pc < i /\ i <= pd => cmp[t[i]][t[a]] > 0
  /\ \A i \in a..(a + n - 1) : pd < i => cmp[t[i]][t[a]] = 0

(* What partition has made of s after k steps.                              *)
Parting(s, a, n, cmp, L, E, k) ==
  {p \in [s : [1..L -> E], pa : Int, pb : Int, pc : Int, pd : Int, swapped : BOOLEAN] :
     /\ Shuffled(s, p.s, a, n)
     /\ Parted(p.s, a, n, p.pa, p.pb, p.pc, p.pd, cmp)
     /\ p.pc - p.pb + 1 <= (n - 1) - k}

(* Each thing the three loops of the partition do keeps the places parted.  *)
LEMMA PartedUp ==
  ASSUME NEW L \in Nat, NEW E, NEW cmp, IsOrder(cmp, E), NEW t \in [1..L -> E],
         NEW a \in 1..L, NEW n \in Nat, a + n - 1 <= L,
         NEW pa \in Int, NEW pb \in Int, NEW pc \in Int, NEW pd \in Int,
         Parted(t, a, n, pa, pb, pc, pd, cmp), pb <= pc
  PROVE  /\ cmp[t[pb]][t[a]] < 0 => Parted(t, a, n, pa, pb + 1, pc, pd, cmp)
         /\ cmp[t[pb]][t[a]] = 0 =>
              Parted(Exchanged(t, pa, pb), a, n, pa + 1, pb + 1, pc, pd, cmp)
         /\ cmp[t[pc]][t[a]] > 0 => Parted(t, a, n, pa, pb, pc - 1, pd, cmp)
         /\ cmp[t[pc]][t[a]] = 0 =>
              Parted(Exchanged(t, pc, pd), a, n, pa, pb, pc - 1, pd - 1, cmp)
         /\ cmp[t[pb]][t[a]] > 0 /\ cmp[t[pc]][t[a]] < 0 =>
              Parted(Exchanged(t, pb, pc), a, n, pa, pb + 1, pc - 1, pd, cmp)
<1> DEFINE B == a..(a + n - 1)
<1>1. /\ a + 1 <= pa /\ pa <= pb /\ pb <= pc + 1 /\ pc <= pd /\ pd <= a + n - 1
      /\ \A i \in B : i < pa => cmp[t[i]][t[a]] = 0
      /\ \A i \in B : pa <= i /\ i < pb => cmp[t[i]][t[a]] < 0
      /\ \A i \in B : pc < i /\ i <= pd => cmp[t[i]][t[a]] > 0
      /\ \A i \in B : pd < i => cmp[t[i]][t[a]] = 0
  BY DEF Parted
<1>2. pa \in B /\ pb \in B /\ pc \in B /\ pd \in B /\ a \in B
  BY <1>1
<1>3. a \in Int /\ n \in Int /\ \A i \in B : i \in Int /\ i \in 1..L
  OBVIOUS
<1>4. ASSUME NEW i \in B, NEW j \in B
      PROVE  \A k \in B : Exchanged(t, i, j)[k] = IF k = i THEN t[j] ELSE IF k = j THEN t[i] ELSE t[k]
  <2>1. i \in 1..L /\ j \in 1..L /\ (\A k \in B : k \in 1..L) /\ t \in [1..L -> E]
    BY <1>3
  <2> HIDE DEF B
  <2> QED BY <2>1 DEF Exchanged
<1> HIDE DEF B
<1>5. ASSUME cmp[t[pb]][t[a]] < 0 PROVE Parted(t, a, n, pa, pb + 1, pc, pd, cmp)
  <2>1. \A i \in B : pa <= i /\ i < pb + 1 => cmp[t[i]][t[a]] < 0
    <3> SUFFICES ASSUME NEW i \in B, pa <= i, i < pb + 1 PROVE cmp[t[i]][t[a]] < 0
      OBVIOUS
    <3>1. i < pb \/ i = pb
      BY <1>3
    <3> QED BY <3>1, <1>1, <1>5
  <2>2. pa <= pb + 1 /\ pb + 1 <= pc + 1
    BY <1>1
  <2> QED BY <2>1, <2>2, <1>1 DEF Parted, B
<1>6. ASSUME cmp[t[pc]][t[a]] > 0 PROVE Parted(t, a, n, pa, pb, pc - 1, pd, cmp)
  <2>1. \A i \in B : pc - 1 < i /\ i <= pd => cmp[t[i]][t[a]] > 0
    <3> SUFFICES ASSUME NEW i \in B, pc - 1 < i, i <= pd PROVE cmp[t[i]][t[a]] > 0
      OBVIOUS
    <3>1. pc < i \/ i = pc
      BY <1>3
    <3> QED BY <3>1, <1>1, <1>6
  <2>2. pb <= (pc - 1) + 1 /\ pc - 1 <= pd
    BY <1>1
  <2> QED BY <2>1, <2>2, <1>1 DEF Parted, B
<1>7. ASSUME cmp[t[pb]][t[a]] = 0
      PROVE  Parted(Exchanged(t, pa, pb), a, n, pa + 1, pb + 1, pc, pd, cmp)
  <2>1. PICK r : r = Exchanged(t, pa, pb)
    OBVIOUS
  <2>2. \A k \in B : r[k] = IF k = pa THEN t[pb] ELSE IF k = pb THEN t[pa] ELSE t[k]
    BY <2>1, <1>2, <1>4
  <2>3. r[a] = t[a]
    BY <2>2, <1>1, <1>2, <1>3
  <2>4. \A i \in B : i < pa + 1 => cmp[r[i]][t[a]] = 0
    <3> SUFFICES ASSUME NEW i \in B, i < pa + 1 PROVE cmp[r[i]][t[a]] = 0
      OBVIOUS
    <3>1. i = pa \/ (i < pa /\ i # pa /\ i # pb)
      BY <1>1, <1>3
    <3> QED BY <3>1, <2>2, <1>1, <1>7
  <2>5. \A i \in B : pa + 1 <= i /\ i < pb + 1 => cmp[r[i]][t[a]] < 0
    <3> SUFFICES ASSUME NEW i \in B, pa + 1 <= i, i < pb + 1 PROVE cmp[r[i]][t[a]] < 0
      OBVIOUS
    <3>1. (i = pb /\ i # pa /\ pa < pb /\ pa <= pa) \/ (pa <= i /\ i < pb /\ i # pa /\ i # pb)
      BY <1>1, <1>3
    <3> QED BY <3>1, <2>2, <1>1, <1>2
  <2>6. \A i \in B : pc < i => r[i] = t[i]
    <3> SUFFICES ASSUME NEW i \in B, pc < i PROVE r[i] = t[i]
      OBVIOUS
    <3>1. i # pa /\ i # pb
      BY <1>1, <1>3
    <3> QED BY <3>1, <2>2
  <2>7. \A i \in B : pd < i => pc < i
    BY <1>1, <1>3
  <2>8. a + 1 <= pa + 1 /\ pa + 1 <= pb + 1 /\ pb + 1 <= pc + 1
    BY <1>1, <1>3
  <2>9. Parted(r, a, n, pa + 1, pb + 1, pc, pd, cmp)
    BY <2>3, <2>4, <2>5, <2>6, <2>7, <2>8, <1>1 DEF Parted, B
  <2> QED BY <2>1, <2>9
<1>8. ASSUME cmp[t[pc]][t[a]] = 0
      PROVE  Parted(Exchanged(t, pc, pd), a, n, pa, pb, pc - 1, pd - 1, cmp)
  <2>1. PICK r : r = Exchanged(t, pc, pd)
    OBVIOUS
  <2>2. \A k \in B : r[k] = IF k = pc THEN t[pd] ELSE IF k = pd THEN t[pc] ELSE t[k]
    BY <2>1, <1>2, <1>4
  <2>3. r[a] = t[a]
    BY <2>2, <1>1, <1>2, <1>3
  <2>4. \A i \in B : pd - 1 < i => cmp[r[i]][t[a]] = 0
    <3> SUFFICES ASSUME NEW i \in B, pd - 1 < i PROVE cmp[r[i]][t[a]] = 0
      OBVIOUS
    <3>1. (i = pd /\ i # pc) \/ (i = pd /\ pc = pd) \/ (pd < i /\ i # pc /\ i # pd)
      BY <1>1, <1>3
    <3> QED BY <3>1, <2>2, <1>1, <1>8
  <2>5. \A i \in B : pc - 1 < i /\ i <= pd - 1 => cmp[r[i]][t[a]] > 0
    <3> SUFFICES ASSUME NEW i \in B, pc - 1 < i, i <= pd - 1 PROVE cmp[r[i]][t[a]] > 0
      OBVIOUS
    <3>1. (i = pc /\ pc < pd /\ pd <= pd) \/ (pc < i /\ i <= pd /\ i # pc /\ i # pd)
      BY <1>1, <1>3
    <3> QED BY <3>1, <2>2, <1>1, <1>2
  <2>6. \A i \in B : i < pb => r[i] = t[i]
    <3> SUFFICES ASSUME NEW i \in B, i < pb PROVE r[i] = t[i]
      OBVIOUS
    <3>1. i # pc /\ i # pd
      BY <1>1, <1>3
    <3> QED BY <3>1, <2>2
  <2>7. \A i \in B : i < pa => i < pb
    BY <1>1, <1>3
  <2>8. pb <= (pc - 1) + 1 /\ pc - 1 <= pd - 1 /\ pd - 1 <= a + n - 1
    BY <1>1, <1>3
  <2>9. Parted(r, a, n, pa, pb, pc - 1, pd - 1, cmp)
    BY <2>3, <2>4, <2>5, <2>6, <2>7, <2>8, <1>1 DEF Parted, B
  <2> QED BY <2>1, <2>9
<1>9. ASSUME cmp[t[pb]][t[a]] > 0, cmp[t[pc]][t[a]] < 0
      PROVE  Parted(Exchanged(t, pb, pc), a, n, pa, pb + 1, pc - 1, pd, cmp)
  <2>1. PICK r : r = Exchanged(t, pb, pc)
    OBVIOUS
  <2>2. \A k \in B : r[k] = IF k = pb THEN t[pc] ELSE IF k = pc THEN t[pb] ELSE t[k]
    BY <2>1, <1>2, <1>4
  <2>3. r[a] = t[a]
    BY <2>2, <1>1, <1>2, <1>3
  <2>4. pb < pc
    <3>1. PICK v : v = cmp[t[pb]][t[a]]
      OBVIOUS
    <3>2. ASSUME pb = pc PROVE FALSE
      <4>1. v > 0 /\ v < 0
        BY <3>1, <3>2, <1>9
      <4>2. v \in Int
        <5>1. t[pb] \in E /\ t[a] \in E
          BY <1>2, <1>3
        <5> QED BY <5>1, <3>1, OrderFact
      <4> QED BY <4>1, <4>2
    <3> QED BY <3>2, <1>1
  <2>5. \A i \in B : pa <= i /\ i < pb + 1 => cmp[r[i]][t[a]] < 0
    <3> SUFFICES ASSUME NEW i \in B, pa <= i, i < pb + 1 PROVE cmp[r[i]][t[a]] < 0
      OBVIOUS
    <3>1. i = pb \/ (i < pb /\ i # pb /\ i # pc)
      BY <2>4, <1>3
    <3> QED BY <3>1, <2>2, <1>1, <1>9
  <2>6. \A i \in B : pc - 1 < i /\ i <= pd => cmp[r[i]][t[a]] > 0
    <3> SUFFICES ASSUME NEW i \in B, pc - 1 < i, i <= pd PROVE cmp[r[i]][t[a]] > 0
      OBVIOUS
    <3>1. (i = pc /\ i # pb) \/ (pc < i /\ i # pb /\ i # pc)
      BY <2>4, <1>3
    <3> QED BY <3>1, <2>2, <1>1, <1>9
  <2>7. \A i \in B : i < pa \/ pd < i => r[i] = t[i]
    <3> SUFFICES ASSUME NEW i \in B, i < pa \/ pd < i PROVE r[i] = t[i]
      OBVIOUS
    <3>1. i # pb /\ i # pc
      BY <1>1, <1>3
    <3> QED BY <3>1, <2>2
  <2>8. pa <= pb + 1 /\ pb + 1 <= (pc - 1) + 1 /\ pc - 1 <= pd
    BY <2>4, <1>1, <1>3
  <2>9. Parted(r, a, n, pa, pb + 1, pc - 1, pd, cmp)
    BY <2>3, <2>5, <2>6, <2>7, <2>8, <1>1 DEF Parted, B
  <2> QED BY <2>1, <2>9
<1> QED BY <1>5, <1>6, <1>7, <1>8, <1>9

(* A step of the partition keeps it, and brings pb and pc closer.           *)
LEMMA ScannedKeeps ==
  ASSUME NEW L \in Nat, NEW E, NEW cmp, IsOrder(cmp, E), NEW s \in [1..L -> E],
         NEW a \in 1..L, NEW n \in Nat, a + n - 1 <= L, NEW k \in 1..(n - 1),
         NEW p \in Parting(s, a, n, cmp, L, E, k - 1)
  PROVE  Scanned(p, a, cmp) \in Parting(s, a, n, cmp, L, E, k)
<1> DEFINE R == [s : [1..L -> E], pa : Int, pb : Int, pc : Int, pd : Int, swapped : BOOLEAN]
           B == a..(a + n - 1)
<1>1. PICK t, pa, pb, pc, pd, sw :
        t = p.s /\ pa = p.pa /\ pb = p.pb /\ pc = p.pc /\ pd = p.pd /\ sw = p.swapped
  OBVIOUS
<1>2. /\ t \in [1..L -> E] /\ pa \in Int /\ pb \in Int /\ pc \in Int /\ pd \in Int /\ sw \in BOOLEAN
      /\ p \in R
      /\ Shuffled(s, t, a, n) /\ Parted(t, a, n, pa, pb, pc, pd, cmp)
      /\ pc - pb + 1 <= (n - 1) - (k - 1)
  BY <1>1 DEF Parting
<1>3. p = [s |-> t, pa |-> pa, pb |-> pb, pc |-> pc, pd |-> pd, swapped |-> sw]
  BY <1>1, <1>2
<1>4. /\ a \in Int /\ n \in Int /\ k \in Int /\ 1 <= k /\ k <= n - 1
      /\ a + 1 <= pa /\ pa <= pb /\ pb <= pc + 1 /\ pc <= pd /\ pd <= a + n - 1
  BY <1>2 DEF Parted
<1>5. ASSUME NEW r \in [1..L -> E], Shuffled(s, r, a, n), NEW xa \in Int, NEW xb \in Int, NEW xc \in Int,
             NEW xd \in Int, NEW x \in BOOLEAN, Parted(r, a, n, xa, xb, xc, xd, cmp),
             xc - xb + 1 <= (n - 1) - k
      PROVE  [s |-> r, pa |-> xa, pb |-> xb, pc |-> xc, pd |-> xd, swapped |-> x]
               \in Parting(s, a, n, cmp, L, E, k)
  BY <1>5 DEF Parting
<1>6. CASE pb > pc
  <2>1. Scanned(p, a, cmp) = p
    BY <1>1, <1>6 DEF Scanned
  <2>2. pc - pb + 1 <= (n - 1) - k
    BY <1>2, <1>4, <1>6
  <2> QED BY <2>1, <2>2, <1>2, <1>3, <1>5
<1>7. CASE ~(pb > pc)
  <2>1. /\ pb <= pc /\ pb \in 1..L /\ pc \in 1..L
        /\ pa \in B /\ pb \in B /\ pc \in B /\ pd \in B
    BY <1>2, <1>4, <1>7
  <2>2. PICK up, down : up = cmp[t[pb]][t[a]] /\ down = cmp[t[pc]][t[a]]
    OBVIOUS
  <2>3. up \in Int /\ down \in Int
    <3>1. t[pb] \in E /\ t[pc] \in E /\ t[a] \in E
      BY <2>1, <1>2
    <3> QED BY <3>1, <2>2, OrderFact
  <2>4. ASSUME NEW i \in B, NEW j \in B
        PROVE  LET r == Exchanged(t, i, j) IN r \in [1..L -> E] /\ Shuffled(s, r, a, n)
    <3>1. i \in 1..L /\ j \in 1..L
      BY <1>4
    <3>2. PICK r : r = Exchanged(t, i, j)
      OBVIOUS
    <3>3. r \in [1..L -> E]
      BY <3>1, <3>2, <1>2 DEF Exchanged
    <3>4. Shuffled(t, r, a, n)
      BY <3>2, <1>2, ShuffledExchange
    <3>5. DOMAIN t = DOMAIN s
      BY <1>2
    <3>6. Shuffled(s, r, a, n)
      BY <3>4, <3>5, <1>2, ShuffledTwice
    <3> QED BY <3>2, <3>3, <3>6
  <2>5. /\ up < 0 => Parted(t, a, n, pa, pb + 1, pc, pd, cmp)
        /\ up = 0 => Parted(Exchanged(t, pa, pb), a, n, pa + 1, pb + 1, pc, pd, cmp)
        /\ down > 0 => Parted(t, a, n, pa, pb, pc - 1, pd, cmp)
        /\ down = 0 => Parted(Exchanged(t, pc, pd), a, n, pa, pb, pc - 1, pd - 1, cmp)
        /\ up > 0 /\ down < 0 => Parted(Exchanged(t, pb, pc), a, n, pa, pb + 1, pc - 1, pd, cmp)
    BY <2>1, <2>2, <1>2, PartedUp
  <2>6. /\ pc - (pb + 1) + 1 <= (n - 1) - k
        /\ (pc - 1) - pb + 1 <= (n - 1) - k
        /\ (pc - 1) - (pb + 1) + 1 <= (n - 1) - k
    BY <1>2, <1>4
  <2> DEFINE A1 == [p EXCEPT !.pb = @ + 1]
             A2 == [p EXCEPT !.s = Exchanged(@, p.pa, p.pb), !.pa = @ + 1, !.pb = @ + 1,
                             !.swapped = TRUE]
             A3 == [p EXCEPT !.pc = @ - 1]
             A4 == [p EXCEPT !.s = Exchanged(@, p.pc, p.pd), !.pc = @ - 1, !.pd = @ - 1,
                             !.swapped = TRUE]
             A5 == [p EXCEPT !.s = Exchanged(@, p.pb, p.pc), !.pb = @ + 1, !.pc = @ - 1,
                             !.swapped = TRUE]
  <2>12. A1 = [s |-> t, pa |-> pa, pb |-> pb + 1, pc |-> pc, pd |-> pd, swapped |-> sw]
    BY <1>3
  <2>13. A2 = [s |-> Exchanged(t, pa, pb), pa |-> pa + 1, pb |-> pb + 1, pc |-> pc, pd |-> pd,
               swapped |-> TRUE]
    <3>1. PICK x1 : x1 = [p EXCEPT !.s = Exchanged(p.s, p.pa, p.pb)]
      OBVIOUS
    <3>2. x1 = [s |-> Exchanged(t, pa, pb), pa |-> pa, pb |-> pb,
               pc |-> pc, pd |-> pd, swapped |-> sw]
      BY <1>3, <3>1
    <3>3. PICK x2 : x2 = [x1 EXCEPT !.pa = p.pa + 1]
      OBVIOUS
    <3>4. x2 = [s |-> Exchanged(t, pa, pb), pa |-> pa + 1, pb |-> pb,
               pc |-> pc, pd |-> pd, swapped |-> sw]
      BY <1>3, <3>3, <3>2
    <3>5. PICK x3 : x3 = [x2 EXCEPT !.pb = p.pb + 1]
      OBVIOUS
    <3>6. x3 = [s |-> Exchanged(t, pa, pb), pa |-> pa + 1, pb |-> pb + 1,
               pc |-> pc, pd |-> pd, swapped |-> sw]
      BY <1>3, <3>5, <3>4
    <3>7. PICK x4 : x4 = [x3 EXCEPT !.swapped = TRUE]
      OBVIOUS
    <3>8. x4 = [s |-> Exchanged(t, pa, pb), pa |-> pa + 1, pb |-> pb + 1,
               pc |-> pc, pd |-> pd, swapped |-> TRUE]
      BY <1>3, <3>7, <3>6
    <3> QED BY <3>1, <3>2, <3>3, <3>4, <3>5, <3>6, <3>7, <3>8
  <2>14. A3 = [s |-> t, pa |-> pa, pb |-> pb, pc |-> pc - 1, pd |-> pd, swapped |-> sw]
    BY <1>3
  <2>15. A4 = [s |-> Exchanged(t, pc, pd), pa |-> pa, pb |-> pb, pc |-> pc - 1, pd |-> pd - 1,
               swapped |-> TRUE]
    <3>1. PICK x1 : x1 = [p EXCEPT !.s = Exchanged(p.s, p.pc, p.pd)]
      OBVIOUS
    <3>2. x1 = [s |-> Exchanged(t, pc, pd), pa |-> pa, pb |-> pb,
               pc |-> pc, pd |-> pd, swapped |-> sw]
      BY <1>3, <3>1
    <3>3. PICK x2 : x2 = [x1 EXCEPT !.pc = p.pc - 1]
      OBVIOUS
    <3>4. x2 = [s |-> Exchanged(t, pc, pd), pa |-> pa, pb |-> pb,
               pc |-> pc - 1, pd |-> pd, swapped |-> sw]
      BY <1>3, <3>3, <3>2
    <3>5. PICK x3 : x3 = [x2 EXCEPT !.pd = p.pd - 1]
      OBVIOUS
    <3>6. x3 = [s |-> Exchanged(t, pc, pd), pa |-> pa, pb |-> pb,
               pc |-> pc - 1, pd |-> pd - 1, swapped |-> sw]
      BY <1>3, <3>5, <3>4
    <3>7. PICK x4 : x4 = [x3 EXCEPT !.swapped = TRUE]
      OBVIOUS
    <3>8. x4 = [s |-> Exchanged(t, pc, pd), pa |-> pa, pb |-> pb,
               pc |-> pc - 1, pd |-> pd - 1, swapped |-> TRUE]
      BY <1>3, <3>7, <3>6
    <3> QED BY <3>1, <3>2, <3>3, <3>4, <3>5, <3>6, <3>7, <3>8
  <2>16. A5 = [s |-> Exchanged(t, pb, pc), pa |-> pa, pb |-> pb + 1, pc |-> pc - 1, pd |-> pd,
               swapped |-> TRUE]
    <3>1. PICK x1 : x1 = [p EXCEPT !.s = Exchanged(p.s, p.pb, p.pc)]
      OBVIOUS
    <3>2. x1 = [s |-> Exchanged(t, pb, pc), pa |-> pa, pb |-> pb,
               pc |-> pc, pd |-> pd, swapped |-> sw]
      BY <1>3, <3>1
    <3>3. PICK x2 : x2 = [x1 EXCEPT !.pb = p.pb + 1]
      OBVIOUS
    <3>4. x2 = [s |-> Exchanged(t, pb, pc), pa |-> pa, pb |-> pb + 1,
               pc |-> pc, pd |-> pd, swapped |-> sw]
      BY <1>3, <3>3, <3>2
    <3>5. PICK x3 : x3 = [x2 EXCEPT !.pc = p.pc - 1]
      OBVIOUS
    <3>6. x3 = [s |-> Exchanged(t, pb, pc), pa |-> pa, pb |-> pb + 1,
               pc |-> pc - 1, pd |-> pd, swapped |-> sw]
      BY <1>3, <3>5, <3>4
    <3>7. PICK x4 : x4 = [x3 EXCEPT !.swapped = TRUE]
      OBVIOUS
    <3>8. x4 = [s |-> Exchanged(t, pb, pc), pa |-> pa, pb |-> pb + 1,
               pc |-> pc - 1, pd |-> pd, swapped |-> TRUE]
      BY <1>3, <3>7, <3>6
    <3> QED BY <3>1, <3>2, <3>3, <3>4, <3>5, <3>6, <3>7, <3>8
  <2>17. Scanned(p, a, cmp) =
           IF p.pb > p.pc THEN p
           ELSE CASE cmp[p.s[p.pb]][p.s[a]] < 0 -> A1
                  [] cmp[p.s[p.pb]][p.s[a]] = 0 -> A2
                  [] cmp[p.s[p.pb]][p.s[a]] > 0 /\ cmp[p.s[p.pc]][p.s[a]] > 0 -> A3
                  [] cmp[p.s[p.pb]][p.s[a]] > 0 /\ cmp[p.s[p.pc]][p.s[a]] = 0 -> A4
                  [] cmp[p.s[p.pb]][p.s[a]] > 0 /\ cmp[p.s[p.pc]][p.s[a]] < 0 -> A5
    BY DEF Scanned
  <2> HIDE DEF A1, A2, A3, A4, A5
  <2>18. Scanned(p, a, cmp) =
           IF pb > pc THEN p
           ELSE CASE up < 0 -> A1 [] up = 0 -> A2 [] up > 0 /\ down > 0 -> A3
                  [] up > 0 /\ down = 0 -> A4 [] up > 0 /\ down < 0 -> A5
    BY <1>1, <2>2, <2>17, Zenon
  <2>7. CASE up < 0
    <3>1. Scanned(p, a, cmp) = [s |-> t, pa |-> pa, pb |-> pb + 1, pc |-> pc, pd |-> pd, swapped |-> sw]
      BY <2>7, <1>7, <2>3, <2>18, <2>12
    <3>2. pb + 1 \in Int /\ Parted(t, a, n, pa, pb + 1, pc, pd, cmp)
      BY <2>5, <2>7, <1>2
    <3> QED BY <3>1, <3>2, <2>6, <1>2, <1>5
  <2>8. CASE up = 0
    <3>1. PICK r : r = Exchanged(t, pa, pb)
      OBVIOUS
    <3>2. Scanned(p, a, cmp) = [s |-> r, pa |-> pa + 1, pb |-> pb + 1, pc |-> pc, pd |-> pd, swapped |-> TRUE]
      BY <2>8, <1>7, <2>3, <2>18, <2>13, <3>1
    <3>3. pa + 1 \in Int /\ pb + 1 \in Int /\ Parted(r, a, n, pa + 1, pb + 1, pc, pd, cmp)
      BY <2>5, <2>8, <1>2, <3>1
    <3>4. r \in [1..L -> E] /\ Shuffled(s, r, a, n)
      BY <3>1, <2>1, <2>4
    <3> QED BY <3>2, <3>3, <3>4, <2>6, <1>2, SMTT(30) DEF Parting
  <2>9. CASE up > 0 /\ down > 0
    <3>1. Scanned(p, a, cmp) = [s |-> t, pa |-> pa, pb |-> pb, pc |-> pc - 1, pd |-> pd, swapped |-> sw]
      BY <2>9, <1>7, <2>3, <2>18, <2>14
    <3>2. pc - 1 \in Int /\ Parted(t, a, n, pa, pb, pc - 1, pd, cmp)
      BY <2>5, <2>9, <1>2
    <3> QED BY <3>1, <3>2, <2>6, <1>2, <1>5
  <2>10. CASE up > 0 /\ down = 0
    <3>1. PICK r : r = Exchanged(t, pc, pd)
      OBVIOUS
    <3>2. Scanned(p, a, cmp) = [s |-> r, pa |-> pa, pb |-> pb, pc |-> pc - 1, pd |-> pd - 1, swapped |-> TRUE]
      BY <2>10, <1>7, <2>3, <2>18, <2>15, <3>1
    <3>3. pc - 1 \in Int /\ pd - 1 \in Int /\ Parted(r, a, n, pa, pb, pc - 1, pd - 1, cmp)
      BY <2>5, <2>10, <1>2, <3>1
    <3>4. r \in [1..L -> E] /\ Shuffled(s, r, a, n)
      BY <3>1, <2>1, <2>4
    <3> QED BY <3>2, <3>3, <3>4, <2>6, <1>2, SMTT(30) DEF Parting
  <2>11. CASE up > 0 /\ down < 0
    <3>1. PICK r : r = Exchanged(t, pb, pc)
      OBVIOUS
    <3>2. Scanned(p, a, cmp) = [s |-> r, pa |-> pa, pb |-> pb + 1, pc |-> pc - 1, pd |-> pd, swapped |-> TRUE]
      BY <2>11, <1>7, <2>3, <2>18, <2>16, <3>1
    <3>3. pb + 1 \in Int /\ pc - 1 \in Int /\ Parted(r, a, n, pa, pb + 1, pc - 1, pd, cmp)
      BY <2>5, <2>11, <1>2, <3>1
    <3>4. r \in [1..L -> E] /\ Shuffled(s, r, a, n)
      BY <3>1, <2>1, <2>4
    <3> QED BY <3>2, <3>3, <3>4, <2>6, <1>2, SMTT(30) DEF Parting
  <2> QED BY <2>3, <2>7, <2>8, <2>9, <2>10, <2>11
<1> QED BY <1>6, <1>7

(* After as many steps as there are elements but one, nothing is left       *)
(* between.                                                                 *)
LEMMA PartitionedFact ==
  ASSUME NEW L \in Nat, NEW E, NEW cmp, IsOrder(cmp, E), NEW s \in [1..L -> E],
         NEW a \in 1..L, NEW n \in Nat, n >= 1, a + n - 1 <= L
  PROVE  Partitioned(s, a, n, cmp) \in Parting(s, a, n, cmp, L, E, n - 1)
<1>1. PICK m : m = n - 1
  OBVIOUS
<1>2. m \in Nat /\ a \in Nat /\ n \in Int /\ m + 1 = n /\ a + n - 1 = a + m
  BY <1>1
<1>3. PICK r : r = Exchanged(s, a, Pivot(s, a, n, cmp))
  OBVIOUS
<1>4. PICK z : z = [s |-> r, pa |-> a + 1, pb |-> a + 1, pc |-> a + n - 1, pd |-> a + n - 1, swapped |-> FALSE]
  OBVIOUS
<1> DEFINE G == [k \in 0..m |-> Parting(s, a, n, cmp, L, E, k)]
           step == [k \in 1..m |-> [p \in G[k - 1] |-> Scanned(p, a, cmp)]]
           Law(f) == f = [k \in 0..m |-> IF k = 0 THEN z ELSE Scanned(f[k - 1], a, cmp)]
<1>5. z \in G[0]
  <2>1. r \in [1..L -> E] /\ Shuffled(s, r, a, n)
    <3>1. PICK v : v = Pivot(s, a, n, cmp)
      OBVIOUS
    <3>2. v \in a..(a + n - 1) /\ a \in a..(a + n - 1)
      BY <3>1, <1>2, PivotFact
    <3>3. v \in 1..L
      BY <3>2, <1>2
    <3>4. r = Exchanged(s, a, v)
      BY <3>1, <1>3
    <3>5. r \in [1..L -> E]
      BY <3>3, <3>4 DEF Exchanged
    <3>6. Shuffled(s, r, a, n)
      BY <3>2, <3>4, ShuffledExchange
    <3> QED BY <3>5, <3>6
  <2>2. cmp[r[a]][r[a]] = 0
    <3>1. PICK x, v : x = r[a] /\ v = cmp[x][x]
      OBVIOUS
    <3>2. x \in E
      BY <2>1, <3>1
    <3>3. v \in Int
      BY <3>1, <3>2, OrderFact
    <3>4. cmp[x][x] > 0 <=> cmp[x][x] < 0
      BY <3>2, OrderFact
    <3> QED BY <3>1, <3>3, <3>4
  <2>3. Parted(r, a, n, a + 1, a + 1, a + n - 1, a + n - 1, cmp)
    <3>1. \A i \in a..(a + n - 1) : i < a + 1 => i = a
      BY <1>2
    <3> QED BY <2>2, <3>1, <1>2 DEF Parted
  <2>4. (a + n - 1) - (a + 1) + 1 <= (n - 1) - 0
    BY <1>2
  <2>5. a + 1 \in Int /\ a + n - 1 \in Int
    BY <1>2
  <2>6. z \in Parting(s, a, n, cmp, L, E, 0)
    BY <1>4, <2>1, <2>3, <2>4, <2>5 DEF Parting
  <2> QED BY <2>6, <1>2
<1>6. \A k \in 1..m : \A p \in G[k - 1] : Scanned(p, a, cmp) \in G[k]
  <2> TAKE k \in 1..m
  <2> TAKE p \in G[k - 1]
  <2>1. k \in 0..m /\ k - 1 \in 0..m /\ k \in 1..(n - 1)
    BY <1>1, <1>2
  <2>2. p \in Parting(s, a, n, cmp, L, E, k - 1)
    BY <2>1
  <2>3. Scanned(p, a, cmp) \in Parting(s, a, n, cmp, L, E, k)
    BY <2>1, <2>2, ScannedKeeps
  <2> QED BY <2>1, <2>3
<1>7. \E f : Law(f)
  <2>1. \A k \in 1..m : \A p \in G[k - 1] : step[k][p] = Scanned(p, a, cmp)
    OBVIOUS
  <2> HIDE DEF G, step
  <2>2. IsLoop(m, G, z, step)
    BY <1>5, <1>6, <2>1 DEF IsLoop
  <2>3. PICK c : IsRun(c, m, G, z, step)
    BY <1>2, <2>2, LoopExists
  <2>4. \A k \in 0..m : c[k] = IF k = 0 THEN z ELSE Scanned(c[k - 1], a, cmp)
    <3>1. \A k \in 0..m : k # 0 => k \in 1..m /\ k - 1 \in 0..m
      BY <1>2
    <3> QED BY <3>1, <2>1, <2>3 DEF IsRun
  <2>5. Law(c)
    BY <2>3, <2>4 DEF IsRun
  <2> QED BY <2>5
<1>8. PICK f : f = (CHOOSE h : Law(h)) /\ Law(f)
  <2> HIDE DEF Law
  <2> QED BY <1>7
<1>9. Partitioned(s, a, n, cmp) = f[m]
  BY <1>1, <1>3, <1>4, <1>8 DEF Partitioned
<1>10. f[m] \in G[m]
  <2> HIDE DEF G
  <2>1. f[0] = z /\ \A k \in 1..m : f[k] = Scanned(f[k - 1], a, cmp)
    <3>1. f = [k \in 0..m |-> IF k = 0 THEN z ELSE Scanned(f[k - 1], a, cmp)]
      BY <1>8
    <3>2. \A k \in 0..m : f[k] = IF k = 0 THEN z ELSE Scanned(f[k - 1], a, cmp)
      BY <3>1
    <3>3. 0 \in 0..m /\ \A k \in 1..m : k \in 0..m /\ k # 0
      BY <1>2
    <3> QED BY <3>2, <3>3
  <2> HIDE DEF Law
  <2>2. \A k \in 1..m : f[k - 1] \in G[k - 1] => f[k] \in G[k]
    BY <2>1, <1>6
  <2> QED BY <2>1, <2>2, <1>2, <1>5, LoopLeads
<1>11. f[m] \in Parting(s, a, n, cmp, L, E, m)
  BY <1>2, <1>10
<1> QED BY <1>1, <1>9, <1>11

(* The smaller of two numbers.                                              *)
LEMMA MinOfTwo ==
  ASSUME NEW x \in Int, NEW y \in Int
  PROVE  Min({x, y}) = IF x <= y THEN x ELSE y
<1>1. \E z \in {x, y} : \A w \in {x, y} : z <= w
  OBVIOUS
<1>2. PICK m : m = Min({x, y})
  OBVIOUS
<1>3. m \in {x, y} /\ \A w \in {x, y} : m <= w
  BY <1>1, <1>2 DEF Min
<1> QED BY <1>2, <1>3

(* r is t with the d elements from i and those from j exchanged.            *)
HasSwapped(r, t, i, j, d, L) ==
  \A k \in 1..L : r[k] = IF i <= k /\ k < i + d THEN t[k + (j - i)]
                          ELSE IF j <= k /\ k < j + d THEN t[k - (j - i)] ELSE t[k]

(* vecswap exchanges two stretches that do not overlap.                     *)
LEMMA VecswapFact ==
  ASSUME NEW L \in Nat, NEW E, NEW t \in [1..L -> E], NEW i \in 1..L, NEW j \in Int, NEW d \in Nat,
         i + d <= j, j + d - 1 <= L
  PROVE  /\ vecswap(t, i, j, d) \in [1..L -> E]
         /\ HasSwapped(vecswap(t, i, j, d), t, i, j, d, L)
         /\ Shuffled(t, vecswap(t, i, j, d), i, j + d - i)
<1>1. i \in Int /\ d \in Int /\ DOMAIN t = 1..L
  OBVIOUS
<1>2. PICK r : r = vecswap(t, i, j, d)
  OBVIOUS
<1>3. r = [k \in 1..L |-> IF k \in i..(i + d - 1) THEN t[k + (j - i)]
                      ELSE IF k \in j..(j + d - 1) THEN t[k - (j - i)] ELSE t[k]]
  BY <1>1, <1>2 DEF vecswap
<1>4. \A k \in 1..L : /\ k \in i..(i + d - 1) <=> i <= k /\ k < i + d
                      /\ k \in j..(j + d - 1) <=> j <= k /\ k < j + d
  BY <1>1
<1>5. \A k \in 1..L : r[k] = IF i <= k /\ k < i + d THEN t[k + (j - i)]
                             ELSE IF j <= k /\ k < j + d THEN t[k - (j - i)] ELSE t[k]
  BY <1>3, <1>4
<1>6. \A k \in 1..L : /\ i <= k /\ k < i + d => k + (j - i) \in 1..L
                      /\ j <= k /\ k < j + d => k - (j - i) \in 1..L
  BY <1>1
<1>7. r \in [1..L -> E]
  <2>1. \A k \in 1..L : r[k] \in E
    BY <1>5, <1>6
  <2>2. r = [k \in 1..L |-> r[k]]
    BY <1>3
  <2> QED BY <2>1, <2>2
<1>8. PICK B : B = i..(i + (j + d - i) - 1)
  OBVIOUS
<1>9. \A k \in B : k \in 1..L /\ k \in Int
  BY <1>1, <1>8
<1>10. ASSUME NEW k \in B
       PROVE  \E m \in B : r[k] = t[m] /\ r[m] = t[k]
  <2>1. CASE i <= k /\ k < i + d
    <3>1. PICK m : m = k + (j - i)
      OBVIOUS
    <3>2. m \in B /\ j <= m /\ m < j + d /\ ~(i <= m /\ m < i + d) /\ m - (j - i) = k
      BY <2>1, <3>1, <1>1, <1>8, <1>9
    <3>3. m \in 1..L /\ k \in 1..L
      BY <3>2, <1>9
    <3>4. r[k] = t[m] /\ r[m] = t[k]
      BY <2>1, <3>1, <3>2, <3>3, <1>5
    <3> QED BY <3>2, <3>4
  <2>2. CASE j <= k /\ k < j + d
    <3>1. PICK m : m = k - (j - i)
      OBVIOUS
    <3>2. m \in B /\ i <= m /\ m < i + d /\ ~(i <= k /\ k < i + d) /\ m + (j - i) = k
      BY <2>2, <3>1, <1>1, <1>8, <1>9
    <3>3. m \in 1..L /\ k \in 1..L
      BY <3>2, <1>9
    <3>4. r[k] = t[m] /\ r[m] = t[k]
      BY <2>2, <3>1, <3>2, <3>3, <1>5
    <3> QED BY <3>2, <3>4
  <2>3. CASE ~(i <= k /\ k < i + d) /\ ~(j <= k /\ k < j + d)
    BY <2>3, <1>5, <1>9
  <2> QED BY <2>1, <2>2, <2>3
<1>11. \A k \in 1..L : k \notin B => r[k] = t[k]
  <2> SUFFICES ASSUME NEW k \in 1..L, k \notin B PROVE r[k] = t[k]
    OBVIOUS
  <2>1. ~(i <= k /\ k < i + d) /\ ~(j <= k /\ k < j + d)
    BY <1>1, <1>8
  <2> QED BY <2>1, <1>5
<1>12. Shuffled(t, r, i, j + d - i)
  BY <1>1, <1>8, <1>10, <1>11 DEF Shuffled
<1> QED BY <1>2, <1>5, <1>7, <1>12 DEF HasSwapped

(* Below, in and above the middle are the elements smaller than, equal to   *)
(* and greater than v.                                                      *)
Gathering(u, a, n, l, g, v, cmp) ==
  \A i \in a..(a + n - 1) : /\ i < a + l => cmp[u[i]][v] < 0
                            /\ a + l <= i /\ i < a + n - g => cmp[u[i]][v] = 0
                            /\ a + n - g <= i => cmp[u[i]][v] > 0

(* Gathered, for an array and the places of the partition.                  *)
GatheredAt(t, a, n, pa, pb, pc, pd) ==
  LET d1 == Min({pa - a, pb - pa})
      d2 == Min({pd - pc, a + n - 1 - pd})
  IN  vecswap(vecswap(t, a, pb - d1, d1), pb, a + n - d2, d2)

(* The exchange of the shorter stretch on each side leaves the equal        *)
(* elements in the middle: as many as are exchanged change sides.           *)
LEMMA SwappedToMiddle ==
  ASSUME NEW L \in Nat, NEW E, NEW cmp, NEW t \in [1..L -> E],
         NEW a \in 1..L, NEW n \in Nat, a + n - 1 <= L,
         NEW pa \in Int, NEW pb \in Int, NEW pc \in Int, NEW pd \in Int,
         Parted(t, a, n, pa, pb, pc, pd, cmp), pb = pc + 1
  PROVE  LET u == GatheredAt(t, a, n, pa, pb, pc, pd)
         IN  /\ u \in [1..L -> E]
             /\ Shuffled(t, u, a, n)
             /\ Gathering(u, a, n, pb - pa, pd - pc, t[a], cmp)
<1> DEFINE B == a..(a + n - 1)
<1>1. /\ a + 1 <= pa /\ pa <= pb /\ pb = pc + 1 /\ pc <= pd /\ pd <= a + n - 1
      /\ \A i \in B : i < pa => cmp[t[i]][t[a]] = 0
      /\ \A i \in B : pa <= i /\ i < pb => cmp[t[i]][t[a]] < 0
      /\ \A i \in B : pc < i /\ i <= pd => cmp[t[i]][t[a]] > 0
      /\ \A i \in B : pd < i => cmp[t[i]][t[a]] = 0
  BY DEF Parted
<1>2. PICK d1, d2 : /\ d1 = IF pa - a <= pb - pa THEN pa - a ELSE pb - pa
                    /\ d2 = IF pd - pc <= a + n - 1 - pd THEN pd - pc ELSE a + n - 1 - pd
  OBVIOUS
<1>0. /\ a \in Int /\ n \in Int /\ L \in Int /\ pa \in Int /\ pb \in Int /\ pc \in Int /\ pd \in Int
      /\ 1 <= a /\ a + n - 1 <= L
      /\ a + 1 <= pa /\ pa <= pb /\ pb = pc + 1 /\ pc <= pd /\ pd <= a + n - 1
  BY <1>1
<1>3. a \in Int /\ n \in Int /\ \A k \in B : k \in Int /\ k \in 1..L
  OBVIOUS
<1>4. d1 \in Nat /\ d2 \in Nat /\ d1 <= pa - a /\ d1 <= pb - pa /\ d2 <= pd - pc /\ d2 <= a + n - 1 - pd
  BY <1>0, <1>2
<1>5. PICK w : w = vecswap(t, a, pb - d1, d1)
  OBVIOUS
<1>6. PICK u : u = vecswap(w, pb, a + n - d2, d2)
  OBVIOUS
<1>7. GatheredAt(t, a, n, pa, pb, pc, pd) = u
  <2>1. pa - a \in Int /\ pb - pa \in Int /\ pd - pc \in Int /\ a + n - 1 - pd \in Int
    OBVIOUS
  <2>2. Min({pa - a, pb - pa}) = d1
    BY <2>1, <1>2, MinOfTwo
  <2>3. Min({pd - pc, a + n - 1 - pd}) = d2
    BY <2>1, <1>2, MinOfTwo
  <2> QED BY <2>2, <2>3, <1>5, <1>6 DEF GatheredAt
<1>8. /\ w \in [1..L -> E]
      /\ \A k \in 1..L : w[k] = IF a <= k /\ k < a + d1 THEN t[k + ((pb - d1) - a)]
              ELSE IF pb - d1 <= k /\ k < (pb - d1) + d1 THEN t[k - ((pb - d1) - a)] ELSE t[k]
      /\ Shuffled(t, w, a, (pb - d1) + d1 - a)
  <2>1. PICK j : j = pb - d1
    OBVIOUS
  <2>2. j \in Int /\ a + d1 <= j /\ j + d1 - 1 <= L
    BY <2>1, <1>0, <1>4
  <2>3. d1 \in Nat
    BY <1>4
  <2> HIDE DEF B
  <2>4. /\ vecswap(t, a, j, d1) \in [1..L -> E]
        /\ HasSwapped(vecswap(t, a, j, d1), t, a, j, d1, L)
        /\ Shuffled(t, vecswap(t, a, j, d1), a, j + d1 - a)
    BY <2>2, <2>3, VecswapFact
  <2> QED BY <2>1, <2>4, <1>5 DEF HasSwapped
<1>9. /\ u \in [1..L -> E]
      /\ \A k \in 1..L : u[k] = IF pb <= k /\ k < pb + d2 THEN w[k + ((a + n - d2) - pb)]
              ELSE IF a + n - d2 <= k /\ k < (a + n - d2) + d2 THEN w[k - ((a + n - d2) - pb)] ELSE w[k]
      /\ d2 > 0 => Shuffled(w, u, pb, (a + n - d2) + d2 - pb)
      /\ d2 = 0 => u = w
  <2>1. PICK j : j = a + n - d2
    OBVIOUS
  <2>2. CASE d2 > 0
    <3>1. j \in Int /\ pb + d2 <= j /\ j + d2 - 1 <= L /\ pb \in 1..L /\ d2 \in Nat
      BY <2>1, <2>2, <1>0, <1>4
    <3>2. w \in [1..L -> E]
      BY <1>8
    <3> HIDE DEF B
    <3>3. /\ vecswap(w, pb, j, d2) \in [1..L -> E]
          /\ HasSwapped(vecswap(w, pb, j, d2), w, pb, j, d2, L)
          /\ Shuffled(w, vecswap(w, pb, j, d2), pb, j + d2 - pb)
      BY <3>1, <3>2, VecswapFact
    <3> QED BY <2>1, <2>2, <3>3, <1>6 DEF HasSwapped
  <2>3. CASE d2 = 0
    <3>1. DOMAIN w = 1..L /\ w \in [1..L -> E]
      BY <1>8
    <3>2. u = [k \in 1..L |-> IF k \in pb..(pb + d2 - 1) THEN w[k + (j - pb)]
                              ELSE IF k \in j..(j + d2 - 1) THEN w[k - (j - pb)] ELSE w[k]]
      BY <3>1, <2>1, <1>6 DEF vecswap
    <3>3. \A k \in 1..L : k \notin pb..(pb + d2 - 1) /\ k \notin j..(j + d2 - 1)
      BY <2>1, <2>3, <1>3
    <3>4. u = [k \in 1..L |-> w[k]]
      BY <3>2, <3>3
    <3>5. u = w
      BY <3>1, <3>4
    <3>6. \A k \in 1..L : ~(pb <= k /\ k < pb + d2) /\ ~(a + n - d2 <= k /\ k < (a + n - d2) + d2)
      BY <2>3, <1>3
    <3> QED BY <2>3, <3>1, <3>5, <3>6
  <2> QED BY <2>2, <2>3, <1>4
<1>10. Shuffled(t, u, a, n)
  <2>1. Shuffled(t, w, a, n)
    <3>0. PICK m : m = (pb - d1) + d1 - a
      OBVIOUS
    <3>1. m \in Int /\ 1 <= a /\ a <= a /\ a + m <= a + n /\ a + n - 1 <= L
      BY <3>0, <1>0, <1>4
    <3>2. Shuffled(t, w, a, m)
      BY <3>0, <1>8
    <3> HIDE DEF B
    <3> QED BY <3>1, <3>2, <1>3, ShuffledWider
  <2>2. CASE d2 = 0
    BY <2>1, <2>2, <1>9
  <2>3. CASE d2 > 0
    <3>0. PICK m : m = (a + n - d2) + d2 - pb
      OBVIOUS
    <3>1. m \in Int /\ 1 <= a /\ a <= pb /\ pb + m <= a + n /\ a + n - 1 <= L
      BY <3>0, <1>0, <1>4
    <3>2. Shuffled(w, u, pb, m) /\ w \in [1..L -> E]
      BY <3>0, <2>3, <1>8, <1>9
    <3>3. Shuffled(w, u, a, n)
      <4> HIDE DEF B
      <4> QED BY <3>1, <3>2, <1>3, ShuffledWider
    <3>4. DOMAIN w = DOMAIN t
      BY <3>2
    <3> QED BY <3>3, <3>4, <2>1, ShuffledTwice
  <2> QED BY <2>2, <2>3, <1>4
<1>11. ASSUME NEW i \in B, i < pb
       PROVE  /\ i < a + (pb - pa) => cmp[w[i]][t[a]] < 0
              /\ a + (pb - pa) <= i => cmp[w[i]][t[a]] = 0
  <2>0. i \in Int /\ a <= i /\ i <= a + n - 1
    BY <1>0
  <2>1. CASE i < a + d1
    <3>1. w[i] = t[i + ((pb - d1) - a)]
      BY <2>1, <1>3, <1>8
    <3>2. /\ i + ((pb - d1) - a) \in B /\ pa <= i + ((pb - d1) - a) /\ i + ((pb - d1) - a) < pb
          /\ i < a + (pb - pa)
      BY <2>0, <2>1, <1>0, <1>4
    <3> QED BY <3>1, <3>2, <1>1, <1>3
  <2>2. CASE pb - d1 <= i
    <3>1. w[i] = t[i - ((pb - d1) - a)]
      BY <2>2, <1>1, <1>3, <1>4, <1>8, <1>11
    <3>2. /\ i - ((pb - d1) - a) \in B /\ i - ((pb - d1) - a) < pa
          /\ ~(i < a + (pb - pa))
      BY <2>0, <2>2, <1>0, <1>2, <1>4, <1>11
    <3> QED BY <3>1, <3>2, <1>1, <1>3
  <2>3. CASE ~(i < a + d1) /\ ~(pb - d1 <= i)
    <3>1. w[i] = t[i]
      BY <2>3, <1>3, <1>8
    <3>2. CASE pa - a <= pb - pa
      <4>1. pa <= i /\ i < a + (pb - pa)
        BY <2>0, <2>3, <3>2, <1>0, <1>2, <1>11
      <4> QED BY <4>1, <3>1, <1>1, <1>3, <1>11
    <3>3. CASE ~(pa - a <= pb - pa)
      <4>1. i < pa /\ a + (pb - pa) <= i
        BY <2>0, <2>3, <3>3, <1>0, <1>2, <1>11
      <4> QED BY <4>1, <3>1, <1>1, <1>3, <1>11
    <3> QED BY <3>2, <3>3
  <2> QED BY <2>1, <2>2, <2>3
<1>12. \A i \in B : pb <= i => w[i] = t[i]
  <2> SUFFICES ASSUME NEW i \in B, pb <= i PROVE w[i] = t[i]
    OBVIOUS
  <2>1. ~(i < a + d1) /\ ~(i < (pb - d1) + d1)
    BY <1>0, <1>4
  <2> QED BY <2>1, <1>3, <1>8
<1>13. ASSUME NEW i \in B, pb <= i
       PROVE  /\ i < a + n - (pd - pc) => cmp[u[i]][t[a]] = 0
              /\ a + n - (pd - pc) <= i => cmp[u[i]][t[a]] > 0
  <2>0. i \in Int /\ a <= i /\ i <= a + n - 1
    BY <1>0
  <2>1. CASE i < pb + d2
    <3>1. PICK j : j = i + ((a + n - d2) - pb)
      OBVIOUS
    <3>2. u[i] = w[j]
      BY <2>1, <3>1, <1>3, <1>9, <1>13
    <3>3. j \in B /\ pb <= j /\ j > pd /\ i < a + n - (pd - pc)
      BY <2>0, <2>1, <3>1, <1>0, <1>2, <1>4, <1>13
    <3> QED BY <3>2, <3>3, <1>1, <1>3, <1>12
  <2>2. CASE a + n - d2 <= i
    <3>1. PICK j : j = i - ((a + n - d2) - pb)
      OBVIOUS
    <3>2. ~(i < pb + d2) /\ i < (a + n - d2) + d2
      BY <2>0, <2>2, <1>0, <1>4
    <3>3. u[i] = w[j]
      BY <2>2, <3>1, <3>2, <1>3, <1>9
    <3>4. j \in B /\ pb <= j /\ pc < j /\ j <= pd /\ ~(i < a + n - (pd - pc))
      BY <2>0, <2>2, <3>1, <1>0, <1>2, <1>4, <1>13
    <3> QED BY <3>3, <3>4, <1>1, <1>3, <1>12
  <2>3. CASE ~(i < pb + d2) /\ ~(a + n - d2 <= i)
    <3>1. u[i] = w[i] /\ w[i] = t[i]
      BY <2>3, <1>3, <1>9, <1>12, <1>13
    <3>2. CASE pd - pc <= a + n - 1 - pd
      <4>1. pd < i /\ i < a + n - (pd - pc)
        BY <2>0, <2>3, <3>2, <1>0, <1>2, <1>13
      <4> QED BY <4>1, <3>1, <1>1, <1>3, <1>13
    <3>3. CASE ~(pd - pc <= a + n - 1 - pd)
      <4>1. pc < i /\ i <= pd /\ a + n - (pd - pc) <= i
        BY <2>0, <2>3, <3>3, <1>0, <1>2, <1>13
      <4> QED BY <4>1, <3>1, <1>1, <1>3, <1>13
    <3> QED BY <3>2, <3>3
  <2> QED BY <2>1, <2>2, <2>3
<1>14. \A i \in B : i < pb => u[i] = w[i]
  <2> SUFFICES ASSUME NEW i \in B, i < pb PROVE u[i] = w[i]
    OBVIOUS
  <2>1. ~(pb <= i) /\ ~(a + n - d2 <= i)
    BY <1>0, <1>4
  <2> QED BY <2>1, <1>3, <1>9
<1>15. Gathering(u, a, n, pb - pa, pd - pc, t[a], cmp)
  <2> SUFFICES ASSUME NEW i \in B
               PROVE  /\ i < a + (pb - pa) => cmp[u[i]][t[a]] < 0
                      /\ a + (pb - pa) <= i /\ i < a + n - (pd - pc) => cmp[u[i]][t[a]] = 0
                      /\ a + n - (pd - pc) <= i => cmp[u[i]][t[a]] > 0
    BY DEF Gathering
  <2>1. CASE i < pb
    <3>1. i < a + n - (pd - pc)
      BY <2>1, <1>1, <1>3
    <3> QED BY <2>1, <3>1, <1>3, <1>11, <1>14
  <2>2. CASE ~(i < pb)
    <3>1. pb <= i /\ ~(i < a + (pb - pa))
      BY <2>2, <1>1, <1>3
    <3> QED BY <3>1, <1>13
  <2> QED BY <2>1, <2>2
<1> QED BY <1>7, <1>9, <1>10, <1>15

(* The same for what the partition returns.                                 *)
LEMMA GatheredFact ==
  ASSUME NEW L \in Nat, NEW E, NEW cmp, NEW q, NEW a \in 1..L, NEW n \in Nat, a + n - 1 <= L,
         q.s \in [1..L -> E], q.pa \in Int, q.pb \in Int, q.pc \in Int, q.pd \in Int,
         Parted(q.s, a, n, q.pa, q.pb, q.pc, q.pd, cmp), q.pb = q.pc + 1
  PROVE  /\ Gathered(q, a, n) \in [1..L -> E]
         /\ Shuffled(q.s, Gathered(q, a, n), a, n)
         /\ Gathering(Gathered(q, a, n), a, n, q.pb - q.pa, q.pd - q.pc, q.s[a], cmp)
<1>1. PICK t \in [1..L -> E], pa \in Int, pb \in Int, pc \in Int, pd \in Int :
        q.s = t /\ q.pa = pa /\ q.pb = pb /\ q.pc = pc /\ q.pd = pd
  OBVIOUS
<1>2. Parted(t, a, n, pa, pb, pc, pd, cmp) /\ pb = pc + 1
  BY <1>1
<1>3. PICK u : u = GatheredAt(t, a, n, pa, pb, pc, pd)
  OBVIOUS
<1>5. Gathered(q, a, n) = u
  BY <1>1, <1>3 DEF Gathered, GatheredAt
<1>6. /\ u \in [1..L -> E]
      /\ Shuffled(t, u, a, n)
      /\ Gathering(u, a, n, pb - pa, pd - pc, t[a], cmp)
  BY <1>2, <1>3, SwappedToMiddle
<1> QED BY <1>1, <1>5, <1>6

(* r is s with the n elements from a sorted.                                *)
HasSorted(r, s, a, n, cmp, L, E) ==
  r \in [1..L -> E] /\ Shuffled(s, r, a, n) /\ InOrder(r, a, n, cmp)

(* Shuffling one side leaves what lies on which side.                       *)
LEMMA GatheringKept ==
  ASSUME NEW L \in Nat, NEW E, NEW cmp, NEW v, NEW u \in [1..L -> E], NEW r \in [1..L -> E],
         NEW a \in 1..L, NEW n \in Nat, a + n - 1 <= L, NEW l \in Nat, NEW g \in Nat, l + g <= n,
         Gathering(u, a, n, l, g, v, cmp),
         Shuffled(u, r, a, l) \/ Shuffled(u, r, a + n - g, g)
  PROVE  Gathering(r, a, n, l, g, v, cmp)
<1> SUFFICES ASSUME NEW i \in a..(a + n - 1)
             PROVE  /\ i < a + l => cmp[r[i]][v] < 0
                    /\ a + l <= i /\ i < a + n - g => cmp[r[i]][v] = 0
                    /\ a + n - g <= i => cmp[r[i]][v] > 0
  BY DEF Gathering
<1>1. \A k \in a..(a + n - 1) : /\ k < a + l => cmp[u[k]][v] < 0
                                /\ a + l <= k /\ k < a + n - g => cmp[u[k]][v] = 0
                                /\ a + n - g <= k => cmp[u[k]][v] > 0
  BY DEF Gathering
<1>2. i \in Int /\ a \in Int /\ n \in Int /\ l \in Int /\ g \in Int /\ i \in 1..L /\ DOMAIN u = 1..L
  OBVIOUS
<1>3. CASE Shuffled(u, r, a, l)
  <2>1. CASE i < a + l
    <3>1. i \in a..(a + l - 1)
      BY <2>1, <1>2
    <3>2. PICK j \in a..(a + l - 1) : r[i] = u[j]
      BY <3>1, <1>3 DEF Shuffled
    <3>3. j \in a..(a + n - 1) /\ j < a + l /\ ~(a + l <= i) /\ ~(a + n - g <= i)
      BY <3>2, <2>1, <1>2
    <3> QED BY <3>2, <3>3, <1>1
  <2>2. CASE ~(i < a + l)
    <3>1. i \notin a..(a + l - 1)
      BY <2>2, <1>2
    <3>2. r[i] = u[i]
      BY <3>1, <1>2, <1>3 DEF Shuffled
    <3> QED BY <3>2, <1>1
  <2> QED BY <2>1, <2>2
<1>4. CASE Shuffled(u, r, a + n - g, g)
  <2> DEFINE C == (a + n - g)..((a + n - g) + g - 1)
  <2>1. CASE a + n - g <= i
    <3>1. i \in C
      BY <2>1, <1>2
    <3>2. PICK j \in C : r[i] = u[j]
      BY <3>1, <1>4 DEF Shuffled
    <3>3. j \in a..(a + n - 1) /\ a + n - g <= j /\ ~(i < a + n - g) /\ ~(i < a + l)
      BY <3>2, <2>1, <1>2
    <3> QED BY <3>2, <3>3, <1>1
  <2>2. CASE ~(a + n - g <= i)
    <3>1. i \notin C
      BY <2>2, <1>2
    <3>2. r[i] = u[i]
      BY <3>1, <1>2, <1>4 DEF Shuffled
    <3> QED BY <3>2, <1>1
  <2> QED BY <2>1, <2>2
<1> QED BY <1>3, <1>4

(* What is in order stays so while other places are shuffled.               *)
LEMMA InOrderKept ==
  ASSUME NEW L \in Nat, NEW E, NEW cmp, NEW u \in [1..L -> E], NEW r,
         NEW a \in Int, NEW n \in Int, NEW b \in Int, NEW m \in Int,
         1 <= a, a + n - 1 <= L, a + n <= b \/ b + m <= a,
         InOrder(u, a, n, cmp), Shuffled(u, r, b, m)
  PROVE  InOrder(r, a, n, cmp)
<1>1. \A i \in a..(a + n - 1) : i \in 1..L /\ i \notin b..(b + m - 1)
  OBVIOUS
<1>2. \A i \in a..(a + n - 1) : r[i] = u[i]
  BY <1>1 DEF Shuffled
<1> QED BY <1>2 DEF InOrder

(* Both sides in order, all is.                                             *)
LEMMA GatheredInOrder ==
  ASSUME NEW L \in Nat, NEW E, NEW cmp, IsOrder(cmp, E), NEW v \in E, NEW r \in [1..L -> E],
         NEW a \in 1..L, NEW n \in Nat, a + n - 1 <= L, NEW l \in Nat, NEW g \in Nat, l + g <= n,
         Gathering(r, a, n, l, g, v, cmp), InOrder(r, a, l, cmp), InOrder(r, a + n - g, g, cmp)
  PROVE  InOrder(r, a, n, cmp)
<1> SUFFICES ASSUME NEW i \in a..(a + n - 1), NEW j \in a..(a + n - 1), i < j
             PROVE  cmp[r[i]][r[j]] <= 0
  BY DEF InOrder
<1>1. /\ i \in Int /\ j \in Int /\ a \in Int /\ n \in Int /\ l \in Int /\ g \in Int
      /\ a <= i /\ i < j /\ j <= a + n - 1
  OBVIOUS
<1>2. \A k \in a..(a + n - 1) : /\ k < a + l => cmp[r[k]][v] < 0
                                /\ a + l <= k /\ k < a + n - g => cmp[r[k]][v] = 0
                                /\ a + n - g <= k => cmp[r[k]][v] > 0
  BY DEF Gathering
<1>3. CASE j < a + l
  <2>1. i \in a..(a + l - 1) /\ j \in a..(a + l - 1)
    BY <1>1, <1>3
  <2> QED BY <2>1 DEF InOrder
<1>4. CASE a + n - g <= i
  <2>1. /\ i \in (a + n - g)..((a + n - g) + g - 1)
        /\ j \in (a + n - g)..((a + n - g) + g - 1)
    BY <1>1, <1>4
  <2> QED BY <2>1 DEF InOrder
<1>5. CASE a + l <= j /\ i < a + n - g
  <2>1. PICK x, y : x = r[i] /\ y = r[j]
    OBVIOUS
  <2>2. x \in E /\ y \in E
    BY <2>1
  <2>3. cmp[x][v] \in Int /\ cmp[y][v] \in Int
    BY <2>2, OrderFact
  <2>4. cmp[x][v] <= 0
    <3>1. i < a + l \/ a + l <= i
      BY <1>1
    <3>2. cmp[x][v] < 0 \/ cmp[x][v] = 0
      BY <3>1, <2>1, <1>2, <1>5
    <3> QED BY <3>2, <2>3
  <2>5. cmp[y][v] >= 0
    <3>1. j < a + n - g \/ a + n - g <= j
      BY <1>1
    <3>2. cmp[y][v] > 0 \/ cmp[y][v] = 0
      BY <3>1, <2>1, <1>2, <1>5
    <3> QED BY <3>2, <2>3
  <2>6. cmp[v][y] <= 0
    BY <2>2, <2>5, OrderFact
  <2> QED BY <2>1, <2>2, <2>4, <2>6, OrderFact
<1> QED BY <1>1, <1>3, <1>4, <1>5

(* h sorts up to m elements.                                                *)
IsSorter(h, m, cmp, L, E) ==
  \A s \in [1..L -> E] : \A a \in 1..L : \A n \in 0..m :
    a + n - 1 <= L => HasSorted(h[[s |-> s, a |-> a, n |-> n]], s, a, n, cmp, L, E)

(* Both parts sorted, one after the other, the whole is: neither order of   *)
(* the two disturbs what was done first.                                    *)
LEMMA PartsSorted ==
  ASSUME NEW L \in Nat, NEW E, NEW cmp, IsOrder(cmp, E), NEW s \in [1..L -> E],
         NEW a \in 1..L, NEW n \in Nat, a + n - 1 <= L, NEW u \in [1..L -> E], Shuffled(s, u, a, n),
         NEW l \in Nat, NEW g \in Nat, l + g <= n, NEW v \in E, Gathering(u, a, n, l, g, v, cmp),
         NEW r1, NEW r2,
         \/ HasSorted(r1, u, a, l, cmp, L, E) /\ HasSorted(r2, r1, a + n - g, g, cmp, L, E)
         \/ HasSorted(r1, u, a + n - g, g, cmp, L, E) /\ HasSorted(r2, r1, a, l, cmp, L, E)
  PROVE  HasSorted(r2, s, a, n, cmp, L, E)
<1>1. PICK b : b = a + n - g
  OBVIOUS
<1>2. /\ a \in Int /\ n \in Int /\ l \in Int /\ g \in Int /\ b \in Int /\ L \in Int
      /\ 1 <= a /\ a <= b /\ a + l <= b /\ b + g = a + n /\ a + n - 1 <= L
      /\ a + l - 1 <= L /\ b + g - 1 <= L /\ 1 <= b /\ a <= a /\ a + l <= a + n /\ b + g <= a + n
  BY <1>1
<1>3. ASSUME NEW t \in [1..L -> E], NEW r, NEW i \in Int, NEW d \in Int, a <= i, i + d <= a + n, 1 <= a,
             a \in Int, n \in Int, a + n - 1 <= L,
             Shuffled(s, t, a, n), Shuffled(t, r, i, d)
      PROVE  Shuffled(s, r, a, n)
  <2>1. Shuffled(t, r, a, n)
    BY <1>3, ShuffledWider
  <2>2. DOMAIN t = DOMAIN s
    OBVIOUS
  <2> QED BY <2>1, <2>2, <1>3, ShuffledTwice
<1>4. CASE HasSorted(r1, u, a, l, cmp, L, E) /\ HasSorted(r2, r1, b, g, cmp, L, E)
  <2>1. /\ r1 \in [1..L -> E] /\ Shuffled(u, r1, a, l) /\ InOrder(r1, a, l, cmp)
        /\ r2 \in [1..L -> E] /\ Shuffled(r1, r2, b, g) /\ InOrder(r2, b, g, cmp)
    BY <1>4 DEF HasSorted
  <2>2. Gathering(r1, a, n, l, g, v, cmp)
    BY <2>1, GatheringKept
  <2>3. Gathering(r2, a, n, l, g, v, cmp)
    <3>1. Shuffled(r1, r2, a + n - g, g)
      BY <2>1, <1>1
    <3> QED BY <3>1, <2>1, <2>2, GatheringKept
  <2>4. InOrder(r2, a, l, cmp)
    BY <2>1, <1>2, InOrderKept
  <2>5. InOrder(r2, a + n - g, g, cmp)
    BY <2>1, <1>1
  <2>6. InOrder(r2, a, n, cmp)
    BY <2>1, <2>3, <2>4, <2>5, GatheredInOrder
  <2>7. Shuffled(s, r1, a, n)
    BY <2>1, <1>2, <1>3
  <2>8. Shuffled(s, r2, a, n)
    BY <2>1, <2>7, <1>2, <1>3
  <2> QED BY <2>1, <2>6, <2>8 DEF HasSorted
<1>5. CASE HasSorted(r1, u, b, g, cmp, L, E) /\ HasSorted(r2, r1, a, l, cmp, L, E)
  <2>1. /\ r1 \in [1..L -> E] /\ Shuffled(u, r1, b, g) /\ InOrder(r1, b, g, cmp)
        /\ r2 \in [1..L -> E] /\ Shuffled(r1, r2, a, l) /\ InOrder(r2, a, l, cmp)
    BY <1>5 DEF HasSorted
  <2>2. Gathering(r1, a, n, l, g, v, cmp)
    <3>1. Shuffled(u, r1, a + n - g, g)
      BY <2>1, <1>1
    <3> QED BY <3>1, <2>1, GatheringKept
  <2>3. Gathering(r2, a, n, l, g, v, cmp)
    BY <2>1, <2>2, GatheringKept
  <2>4. InOrder(r2, b, g, cmp)
    BY <2>1, <1>2, InOrderKept
  <2>5. InOrder(r2, a + n - g, g, cmp)
    BY <2>4, <1>1
  <2>6. InOrder(r2, a, n, cmp)
    BY <2>1, <2>3, <2>5, GatheredInOrder
  <2>7. Shuffled(s, r1, a, n)
    BY <2>1, <1>2, <1>3
  <2>8. Shuffled(s, r2, a, n)
    BY <2>1, <2>7, <1>2, <1>3
  <2> QED BY <2>1, <2>6, <2>8 DEF HasSorted
<1> QED BY <1>1, <1>4, <1>5

(* local_qsort sorts n elements when what it is given sorts fewer.          *)
LEMMA LocalSorts ==
  ASSUME NEW L \in Nat, NEW E, NEW cmp, IsOrder(cmp, E), NEW s \in [1..L -> E],
         NEW a \in 1..L, NEW n \in Nat, a + n - 1 <= L,
         NEW fewer, NEW m \in Nat, n <= m + 1, IsSorter(fewer, m, cmp, L, E)
  PROVE  HasSorted(local_qsort(s, a, n, cmp, fewer), s, a, n, cmp, L, E)
<1>1. CASE n < 2
  <2>1. local_qsort(s, a, n, cmp, fewer) = s
    BY <1>1 DEF local_qsort
  <2>2. InOrder(s, a, n, cmp)
    BY <1>1 DEF InOrder
  <2> QED BY <2>1, <2>2, ShuffledSelf DEF HasSorted
<1>2. CASE ~(n < 2) /\ n < Few
  <2>1. local_qsort(s, a, n, cmp, fewer) = InsertionSorted(s, a, n, cmp)
    BY <1>2 DEF local_qsort
  <2>2. n >= 1
    BY <1>2
  <2> QED BY <2>1, <2>2, InsertionSorts DEF HasSorted
<1>3. CASE ~(n < 2) /\ ~(n < Few)
  <2>1. PICK q : q = Partitioned(s, a, n, cmp)
    OBVIOUS
  <2>2. n >= 1
    BY <1>3
  <2>3. q \in Parting(s, a, n, cmp, L, E, n - 1)
    BY <2>1, <2>2, PartitionedFact
  <2>4. PICK t, pa, pb, pc, pd : t = q.s /\ pa = q.pa /\ pb = q.pb /\ pc = q.pc /\ pd = q.pd
    OBVIOUS
  <2>5. /\ t \in [1..L -> E] /\ pa \in Int /\ pb \in Int /\ pc \in Int /\ pd \in Int
        /\ q.swapped \in BOOLEAN
        /\ Shuffled(s, t, a, n) /\ Parted(t, a, n, pa, pb, pc, pd, cmp)
        /\ pc - pb + 1 <= (n - 1) - (n - 1)
    BY <2>3, <2>4 DEF Parting
  <2>6. CASE ~q.swapped
    <3>1. local_qsort(s, a, n, cmp, fewer) = InsertionSorted(t, a, n, cmp)
      BY <2>1, <2>4, <2>6, <1>3 DEF local_qsort
    <3>2. PICK r : r = InsertionSorted(t, a, n, cmp)
      OBVIOUS
    <3>3. r \in [1..L -> E] /\ Shuffled(t, r, a, n) /\ InOrder(r, a, n, cmp)
      BY <3>2, <2>2, <2>5, InsertionSorts
    <3>4. DOMAIN t = DOMAIN s
      BY <2>5
    <3>5. Shuffled(s, r, a, n)
      BY <3>3, <3>4, <2>5, ShuffledTwice
    <3> QED BY <3>1, <3>2, <3>3, <3>5 DEF HasSorted
  <2>7. CASE q.swapped
    <3>1. PICK l, g : l = pb - pa /\ g = pd - pc
      OBVIOUS
    <3>2. /\ a \in Int /\ n \in Int /\ a + 1 <= pa /\ pa <= pb /\ pb <= pc + 1 /\ pc <= pd
          /\ pd <= a + n - 1
      BY <2>5 DEF Parted
    <3>3. pb = pc + 1 /\ l \in Nat /\ g \in Nat /\ l + g <= n - 1
      BY <3>1, <3>2, <2>5
    <3>4. PICK u : u = Gathered(q, a, n)
      OBVIOUS
    <3>5. u \in [1..L -> E] /\ Shuffled(t, u, a, n) /\ Gathering(u, a, n, l, g, t[a], cmp)
      <4>1. /\ q.s \in [1..L -> E] /\ q.pa \in Int /\ q.pb \in Int /\ q.pc \in Int /\ q.pd \in Int
            /\ Parted(q.s, a, n, q.pa, q.pb, q.pc, q.pd, cmp) /\ q.pb = q.pc + 1
        BY <3>3, <2>4, <2>5
      <4>2. /\ Gathered(q, a, n) \in [1..L -> E]
            /\ Shuffled(q.s, Gathered(q, a, n), a, n)
            /\ Gathering(Gathered(q, a, n), a, n, q.pb - q.pa, q.pd - q.pc, q.s[a], cmp)
        BY <4>1, GatheredFact
      <4> QED BY <4>2, <3>1, <3>4, <2>4
    <3>6. Shuffled(s, u, a, n)
      <4>1. DOMAIN t = DOMAIN s
        BY <2>5
      <4> QED BY <4>1, <3>5, <2>5, ShuffledTwice
    <3> DEFINE left(x) == IF l > 1 THEN fewer[[s |-> x, a |-> a, n |-> l]] ELSE x
               right(x) == IF g > 1 THEN fewer[[s |-> x, a |-> a + n - g, n |-> g]] ELSE x
    <3>7. ASSUME NEW x \in [1..L -> E] PROVE HasSorted(left(x), x, a, l, cmp, L, E)
      <4>1. CASE l > 1
        <5>1. l \in 0..m /\ a + l - 1 <= L
          BY <3>2, <3>3
        <5> QED BY <4>1, <5>1 DEF IsSorter
      <4>2. CASE ~(l > 1)
        <5>1. InOrder(x, a, l, cmp)
          BY <4>2, <3>3 DEF InOrder
        <5> QED BY <4>2, <5>1, ShuffledSelf DEF HasSorted
      <4> QED BY <4>1, <4>2
    <3>8. ASSUME NEW x \in [1..L -> E] PROVE HasSorted(right(x), x, a + n - g, g, cmp, L, E)
      <4>1. CASE g > 1
        <5>1. g \in 0..m /\ (a + n - g) + g - 1 <= L /\ a + n - g \in 1..L
          BY <4>1, <3>2, <3>3
        <5> QED BY <4>1, <5>1 DEF IsSorter
      <4>2. CASE ~(g > 1)
        <5>1. InOrder(x, a + n - g, g, cmp)
          BY <4>2, <3>2, <3>3 DEF InOrder
        <5> QED BY <4>2, <5>1, ShuffledSelf DEF HasSorted
      <4> QED BY <4>1, <4>2
    <3>9. local_qsort(s, a, n, cmp, fewer) = IF l <= g THEN right(left(u)) ELSE left(right(u))
      BY <1>3, <2>1, <2>4, <2>7, <3>1, <3>4 DEF local_qsort
    <3> HIDE DEF left, right
    <3>10. PICK v : v = t[a]
      OBVIOUS
    <3>11. v \in E /\ Gathering(u, a, n, l, g, v, cmp) /\ l + g <= n /\ u \in [1..L -> E]
      BY <3>3, <3>5, <3>10, <2>5
    <3>12. CASE l <= g
      <4>1. PICK r1, r2 : r1 = left(u) /\ r2 = right(r1)
        OBVIOUS
      <4>2. HasSorted(r1, u, a, l, cmp, L, E)
        BY <4>1, <3>7, <3>11
      <4>3. HasSorted(r2, r1, a + n - g, g, cmp, L, E)
        BY <4>1, <4>2, <3>8 DEF HasSorted
      <4>4. HasSorted(r2, s, a, n, cmp, L, E)
        BY <4>2, <4>3, <3>3, <3>6, <3>11, PartsSorted
      <4> QED BY <4>1, <4>4, <3>9, <3>12
    <3>13. CASE ~(l <= g)
      <4>1. PICK r1, r2 : r1 = right(u) /\ r2 = left(r1)
        OBVIOUS
      <4>2. HasSorted(r1, u, a + n - g, g, cmp, L, E)
        BY <4>1, <3>8, <3>11
      <4>3. HasSorted(r2, r1, a, l, cmp, L, E)
        BY <4>1, <4>2, <3>7 DEF HasSorted
      <4>4. HasSorted(r2, s, a, n, cmp, L, E)
        BY <4>2, <4>3, <3>3, <3>6, <3>11, PartsSorted
      <4> QED BY <4>1, <4>4, <3>9, <3>13
    <3> QED BY <3>12, <3>13
  <2> QED BY <2>5, <2>6, <2>7
<1> QED BY <1>1, <1>2, <1>3

(* qsort sorts, by the number of elements.                                  *)
LEMMA QsortSorts ==
  ASSUME NEW X, NEW s \in Seq(X), NEW cmp, IsOrder(cmp, Range(s))
  PROVE  HasSorted(qsort(s, cmp), s, 1, Len(s), cmp, Len(s), Range(s))
<1>1. PICK L, E : L = Len(s) /\ E = Range(s)
  OBVIOUS
<1>2. L \in Nat /\ s \in [1..L -> E] /\ IsOrder(cmp, E)
  <2>1. L \in Nat /\ DOMAIN s = 1..L /\ s \in [1..L -> X]
    BY <1>1
  <2>2. \A i \in 1..L : s[i] \in E
    BY <2>1, <1>1 DEF Range
  <2> QED BY <2>1, <2>2, <1>1
<1> DEFINE Req(k) == [s : Seq(E), a : Nat, n : 0..k]
           Pass(k, h) == [x \in Req(k) |-> IF k = 0 THEN x.s ELSE local_qsort(x.s, x.a, x.n, cmp, h)]
           Law(f, m) == f = [k \in 0..m |-> Pass(k, f[k - 1])]
<1>3. \A h, g : Pass(0, h) = Pass(0, g)
  OBVIOUS
<1>4. \E f : Law(f, L)
  <2> DEFINE H == {m \in 0..L : \E f : Law(f, m)}
  <2>1. 0 \in H
    <3> HIDE DEF Pass
    <3>1. PICK c : c = [k \in 0..0 |-> Pass(k, 0)]
      OBVIOUS
    <3>2. \A k \in 0..0 : k = 0 /\ Pass(k, 0) = Pass(k, c[k - 1])
      BY <1>3
    <3>3. Law(c, 0)
      BY <3>1, <3>2
    <3> QED BY <3>3, <1>2
  <2>2. ASSUME NEW m \in 0..L, m \in H, m < L PROVE m + 1 \in H
    <3> HIDE DEF Pass
    <3>1. PICK c : Law(c, m)
      BY <2>2
    <3>2. \A k \in 0..m : c[k] = Pass(k, c[k - 1])
      <4>1. c = [k \in 0..m |-> Pass(k, c[k - 1])]
        BY <3>1
      <4> QED BY <4>1
    <3>3. PICK d : d = [k \in 0..(m + 1) |-> IF k <= m THEN c[k] ELSE Pass(m + 1, c[m])]
      OBVIOUS
    <3>4. ASSUME NEW k \in 0..(m + 1) PROVE d[k] = Pass(k, d[k - 1])
      <4>1. CASE k = 0
        <5>1. d[k] = c[k] /\ k \in 0..m
          BY <4>1, <3>3, <2>2
        <5>2. d[k] = Pass(0, c[k - 1])
          BY <5>1, <4>1, <3>2
        <5> QED BY <5>2, <4>1, <1>3
      <4>2. CASE k # 0 /\ k <= m
        <5>1. k \in 0..m /\ k - 1 \in 0..(m + 1) /\ k - 1 <= m
          BY <4>2, <2>2
        <5>2. d[k] = c[k] /\ d[k - 1] = c[k - 1]
          BY <5>1, <4>2, <3>3
        <5> QED BY <5>1, <5>2, <3>2
      <4>3. CASE ~(k <= m)
        <5>1. k = m + 1 /\ k - 1 = m /\ m \in 0..(m + 1) /\ m <= m
          BY <4>3, <2>2
        <5>2. d[k] = Pass(m + 1, c[m])
          BY <5>1, <4>3, <3>3
        <5>3. d[k - 1] = c[m]
          BY <5>1, <3>3
        <5> QED BY <5>1, <5>2, <5>3
      <4> QED BY <4>1, <4>2, <4>3
    <3>5. d = [k \in 0..(m + 1) |-> d[k]]
      BY <3>3
    <3>6. Law(d, m + 1)
      BY <3>4, <3>5
    <3>7. m + 1 \in 0..L
      BY <2>2, <1>2
    <3> HIDE DEF Law
    <3>8. \E g : Law(g, m + 1)
      BY <3>6
    <3> QED BY <3>7, <3>8
  <2>3. L \in H
    <3>1. \A m \in 0..L : m \in H
      <4> HIDE DEF H
      <4> QED BY <2>1, <2>2, <1>2, UpTo0
    <3>2. L \in 0..L
      BY <1>2
    <3> QED BY <3>1, <3>2
  <2> HIDE DEF Law
  <2> QED BY <2>3
<1>5. PICK f : f = (CHOOSE h : Law(h, L)) /\ Law(f, L)
  <2> HIDE DEF Law
  <2> QED BY <1>4
<1>6. qsort(s, cmp) = f[L][[s |-> s, a |-> 1, n |-> L]]
  BY <1>1, <1>5 DEF qsort
<1>7. \A k \in 0..L : f[k] = Pass(k, f[k - 1])
  <2>1. f = [k \in 0..L |-> Pass(k, f[k - 1])]
    BY <1>5
  <2> HIDE DEF Pass
  <2> QED BY <2>1
<1> HIDE DEF Law
<1>8. \A k \in 0..L : IsSorter(f[k], k, cmp, L, E)
  <2> DEFINE H == {k \in 0..L : IsSorter(f[k], k, cmp, L, E)}
  <2>0. ASSUME NEW k \in 0..L, NEW r \in [1..L -> E], NEW a \in 1..L, NEW n \in 0..k
        PROVE  f[k][[s |-> r, a |-> a, n |-> n]] =
                 IF k = 0 THEN r ELSE local_qsort(r, a, n, cmp, f[k - 1])
    <3>1. PICK x : x = [s |-> r, a |-> a, n |-> n]
      OBVIOUS
    <3>2. r \in Seq(E)
      BY <1>2
    <3>3. x \in Req(k) /\ x.s = r /\ x.a = a /\ x.n = n
      BY <3>1, <3>2
    <3>4. f[k] = Pass(k, f[k - 1])
      BY <1>7
    <3>5. f[k][x] = IF k = 0 THEN x.s ELSE local_qsort(x.s, x.a, x.n, cmp, f[k - 1])
      <4> HIDE DEF Req
      <4> QED BY <3>3, <3>4
    <3> QED BY <3>1, <3>3, <3>5
  <2> HIDE DEF Req, Pass
  <2>1. 0 \in H
    <3>1. 0 \in 0..L
      BY <1>2
    <3>2. ASSUME NEW r \in [1..L -> E], NEW a \in 1..L, NEW n \in 0..0, a + n - 1 <= L
          PROVE  HasSorted(f[0][[s |-> r, a |-> a, n |-> n]], r, a, n, cmp, L, E)
      <4>1. f[0][[s |-> r, a |-> a, n |-> n]] = r
        BY <3>1, <2>0
      <4>2. InOrder(r, a, n, cmp)
        BY <1>2 DEF InOrder
      <4> QED BY <4>1, <4>2, ShuffledSelf DEF HasSorted
    <3> QED BY <3>1, <3>2 DEF IsSorter
  <2>2. ASSUME NEW k \in 0..L, k \in H, k < L PROVE k + 1 \in H
    <3>1. k + 1 \in 0..L /\ (k + 1) - 1 = k /\ k + 1 # 0 /\ k \in Nat
      BY <2>2, <1>2
    <3>2. IsSorter(f[k], k, cmp, L, E)
      BY <2>2
    <3>3. ASSUME NEW r \in [1..L -> E], NEW a \in 1..L, NEW n \in 0..(k + 1), a + n - 1 <= L
          PROVE  HasSorted(f[k + 1][[s |-> r, a |-> a, n |-> n]], r, a, n, cmp, L, E)
      <4>1. f[k + 1][[s |-> r, a |-> a, n |-> n]] = local_qsort(r, a, n, cmp, f[k])
        BY <3>1, <2>0
      <4>2. n \in Nat /\ n <= k + 1
        BY <3>1
      <4>3. PICK h : h = f[k]
        OBVIOUS
      <4>4. IsSorter(h, k, cmp, L, E)
        BY <4>3, <3>2
      <4>5. HasSorted(local_qsort(r, a, n, cmp, h), r, a, n, cmp, L, E)
        BY <4>2, <4>4, <3>1, <3>3, <1>2, LocalSorts
      <4> QED BY <4>1, <4>3, <4>5
    <3> QED BY <3>1, <3>3 DEF IsSorter
  <2> HIDE DEF H
  <2>3. \A k \in 0..L : k \in H
    BY <2>1, <2>2, <1>2, UpTo0
  <2> QED BY <2>3 DEF H
<1>9. CASE L = 0
  <2>1. 0 \in 0..L /\ s \in Seq(E)
    BY <1>2
  <2>2. PICK x : x = [s |-> s, a |-> 1, n |-> L]
    OBVIOUS
  <2>3. x \in Req(0) /\ x.s = s
    BY <2>1, <2>2, <1>9
  <2>4. f[0][x] = s
    <3>1. f[0] = Pass(0, f[0 - 1])
      BY <2>1, <1>7
    <3> HIDE DEF Req
    <3> QED BY <2>3, <3>1
  <2>5. InOrder(s, 1, L, cmp)
    BY <1>9 DEF InOrder
  <2>6. HasSorted(s, s, 1, L, cmp, L, E)
    BY <2>5, <1>2, ShuffledSelf DEF HasSorted
  <2> QED BY <2>2, <2>4, <2>6, <1>1, <1>6, <1>9
<1>10. CASE L # 0
  <2>1. L \in 0..L /\ 1 \in 1..L /\ 1 + L - 1 <= L
    BY <1>2, <1>10
  <2>2. HasSorted(f[L][[s |-> s, a |-> 1, n |-> L]], s, 1, L, cmp, L, E)
    BY <2>1, <1>2, <1>8 DEF IsSorter
  <2> QED BY <2>2, <1>1, <1>6
<1> QED BY <1>9, <1>10

(* What the search has found after k steps: the key is not below base and   *)
(* not from base + lim on, and there are fewer elements left each time.     *)
Searching(key, s, cmp, L, k) ==
  {p \in [base : Int, lim : Int, at : Int] :
     /\ p.at # 0 => p.at \in 1..L /\ cmp[key][s[p.at]] = 0
     /\ 1 <= p.base /\ 0 <= p.lim /\ p.base + p.lim <= L + 1
     /\ p.at = 0 => p.lim <= L - k
     /\ \A i \in 1..L : i < p.base => cmp[key][s[i]] > 0
     /\ \A i \in 1..L : p.base + p.lim <= i => cmp[key][s[i]] < 0}

(* A step of the search keeps what it knows, and halves what is left.       *)
LEMMA SearchedKeeps ==
  ASSUME NEW L \in Nat, NEW E, NEW cmp, IsOrder(cmp, E), NEW s \in [1..L -> E],
         InOrder(s, 1, L, cmp), NEW key \in E, NEW k \in 1..L,
         NEW p \in Searching(key, s, cmp, L, k - 1)
  PROVE  Searched(key, s, p, cmp) \in Searching(key, s, cmp, L, k)
<1>1. PICK b \in Int, l \in Int, at \in Int : b = p.base /\ l = p.lim /\ at = p.at
  BY DEF Searching
<1>2. /\ at # 0 => at \in 1..L /\ cmp[key][s[at]] = 0
      /\ 1 <= b /\ 0 <= l /\ b + l <= L + 1
      /\ at = 0 => l <= L - (k - 1)
      /\ \A i \in 1..L : i < b => cmp[key][s[i]] > 0
      /\ \A i \in 1..L : b + l <= i => cmp[key][s[i]] < 0
      /\ p \in [base : Int, lim : Int, at : Int]
  BY <1>1 DEF Searching
<1>3. p = [base |-> b, lim |-> l, at |-> at]
  BY <1>1, <1>2
<1>4. CASE l = 0 \/ at # 0
  <2>1. Searched(key, s, p, cmp) = p
    BY <1>1, <1>4 DEF Searched
  <2>2. at = 0 => l <= L - k
    BY <1>4
  <2> QED BY <2>1, <2>2, <1>1, <1>2 DEF Searching
<1>5. CASE ~(l = 0) /\ at = 0
  <2>1. PICK h : h = l \div 2
    OBVIOUS
  <2>2. PICK g : g = (l - 1) \div 2
    OBVIOUS
  <2>3. h \in Int /\ g \in Int /\ 0 <= h /\ 0 <= g /\ h + g = l - 1 /\ h <= l - 1 /\ g <= l - 1
    BY <2>1, <2>2, <1>2, <1>5
  <2>4. PICK m : m = b + h
    OBVIOUS
  <2>16. l <= L - (k - 1) /\ 1 <= b
    BY <1>2, <1>5
  <2>5. m \in 1..L /\ m # 0 /\ m \in Int /\ L \in Int /\ k \in Int
    BY <2>3, <2>4, <1>2
  <2>6. PICK c : c = cmp[key][s[m]]
    OBVIOUS
  <2>7. c \in Int /\ \A i \in 1..L : s[i] \in E /\ cmp[key][s[i]] \in Int
    <3>1. \A i \in 1..L : s[i] \in E
      OBVIOUS
    <3> QED BY <3>1, <2>5, <2>6, OrderFact
  <2> DEFINE A1 == [p EXCEPT !.at = p.base + (p.lim \div 2)]
             A2 == [p EXCEPT !.base = (p.base + (p.lim \div 2)) + 1, !.lim = (p.lim - 1) \div 2]
             A3 == [p EXCEPT !.lim = p.lim \div 2]
  <2>11. Searched(key, s, p, cmp) =
           IF p.lim = 0 \/ p.at # 0 THEN p
           ELSE IF cmp[key][s[p.base + (p.lim \div 2)]] = 0 THEN A1
           ELSE IF cmp[key][s[p.base + (p.lim \div 2)]] > 0 THEN A2 ELSE A3
    BY DEF Searched
  <2>12. A1 = [base |-> b, lim |-> l, at |-> m]
    <3>1. p.base + (p.lim \div 2) = m
      BY <1>1, <2>1, <2>4
    <3> QED BY <3>1, <1>3
  <2>13. A2 = [base |-> m + 1, lim |-> g, at |-> at]
    <3>1. (p.base + (p.lim \div 2)) + 1 = m + 1 /\ (p.lim - 1) \div 2 = g
      BY <1>1, <2>1, <2>2, <2>4
    <3>2. PICK y : y = [p EXCEPT !.base = m + 1]
      OBVIOUS
    <3>3. y = [base |-> m + 1, lim |-> l, at |-> at]
      BY <3>2, <1>3
    <3>4. [y EXCEPT !.lim = g] = [base |-> m + 1, lim |-> g, at |-> at]
      BY <3>3
    <3> QED BY <3>1, <3>2, <3>4
  <2>14. A3 = [base |-> b, lim |-> h, at |-> at]
    BY <1>1, <1>3, <2>1
  <2> HIDE DEF A1, A2, A3
  <2>15. Searched(key, s, p, cmp) =
           IF l = 0 \/ at # 0 THEN p ELSE IF c = 0 THEN A1 ELSE IF c > 0 THEN A2 ELSE A3
    BY <1>1, <2>1, <2>4, <2>6, <2>11
  <2>8. CASE c = 0
    <3>1. PICK q : q = [base |-> b, lim |-> l, at |-> m]
      OBVIOUS
    <3>2. Searched(key, s, p, cmp) = q
      BY <3>1, <2>8, <2>12, <2>15, <1>5
    <3>3. q \in [base : Int, lim : Int, at : Int] /\ q.base = b /\ q.lim = l /\ q.at = m
      BY <3>1, <2>5
    <3> QED BY <3>2, <3>3, <2>5, <2>6, <2>8, <1>2 DEF Searching
  <2>9. CASE c > 0
    <3>1. PICK q : q = [base |-> m + 1, lim |-> g, at |-> 0]
      OBVIOUS
    <3>2. Searched(key, s, p, cmp) = q
      <4>1. ~(c = 0)
        BY <2>9, <2>7
      <4> QED BY <3>1, <4>1, <2>9, <2>13, <2>15, <1>5
    <3>3. q \in [base : Int, lim : Int, at : Int] /\ q.base = m + 1 /\ q.lim = g /\ q.at = 0
      BY <3>1, <2>3, <2>5
    <3>4. (m + 1) + g = b + l /\ g <= L - k /\ 1 <= m + 1
      BY <2>3, <2>4, <2>5, <2>16
    <3>5. \A i \in 1..L : i < m + 1 => cmp[key][s[i]] > 0
      <4> SUFFICES ASSUME NEW i \in 1..L, i < m + 1 PROVE cmp[key][s[i]] > 0
        OBVIOUS
      <4>1. PICK x, y : x = s[i] /\ y = s[m]
        OBVIOUS
      <4>2. x \in E /\ y \in E /\ cmp[key][x] \in Int
        BY <4>1, <2>5, <2>7
      <4>3. i = m \/ cmp[x][y] <= 0
        <5>1. i < m \/ i = m
          BY <2>5
        <5>2. i \in 1..(1 + L - 1) /\ m \in 1..(1 + L - 1)
          BY <2>5
        <5> QED BY <5>1, <5>2, <4>1 DEF InOrder
      <4>4. ASSUME cmp[key][x] <= 0, cmp[x][y] <= 0 PROVE FALSE
        <5>1. cmp[key][y] <= 0
          BY <4>2, <4>4, OrderFact
        <5> QED BY <5>1, <4>1, <2>6, <2>7, <2>9
      <4>5. cmp[x][y] <= 0 => cmp[key][x] > 0
        BY <4>2, <4>4
      <4> QED BY <4>1, <4>3, <4>5, <2>6, <2>9
    <3>6. \A i \in 1..L : (m + 1) + g <= i => cmp[key][s[i]] < 0
      BY <3>4, <1>2
    <3>7. 0 <= g /\ (m + 1) + g <= L + 1
      BY <3>4, <2>3, <1>2
    <3> QED BY <3>2, <3>3, <3>4, <3>5, <3>6, <3>7 DEF Searching
  <2>10. CASE c < 0
    <3>1. PICK q : q = [base |-> b, lim |-> h, at |-> 0]
      OBVIOUS
    <3>2. Searched(key, s, p, cmp) = q
      <4>1. ~(c = 0) /\ ~(c > 0)
        BY <2>10, <2>7
      <4> QED BY <3>1, <4>1, <2>14, <2>15, <1>5
    <3>3. q \in [base : Int, lim : Int, at : Int] /\ q.base = b /\ q.lim = h /\ q.at = 0
      BY <3>1, <2>3
    <3>4. h <= L - k /\ b + h <= L + 1
      BY <2>3, <2>5, <1>2, <1>5
    <3>5. \A i \in 1..L : b + h <= i => cmp[key][s[i]] < 0
      <4> SUFFICES ASSUME NEW i \in 1..L, m <= i PROVE cmp[key][s[i]] < 0
        BY <2>4
      <4>1. PICK x, y : x = s[i] /\ y = s[m]
        OBVIOUS
      <4>2. x \in E /\ y \in E /\ cmp[key][x] \in Int
        BY <4>1, <2>5, <2>7
      <4>3. i = m \/ cmp[y][x] <= 0
        <5>1. m < i \/ i = m
          BY <2>5
        <5>2. i \in 1..(1 + L - 1) /\ m \in 1..(1 + L - 1)
          BY <2>5
        <5> QED BY <5>1, <5>2, <4>1 DEF InOrder
      <4>4. ASSUME cmp[key][x] >= 0, cmp[y][x] <= 0 PROVE FALSE
        <5>1. cmp[x][key] <= 0
          BY <4>2, <4>4, OrderFact
        <5>2. cmp[y][key] <= 0
          BY <5>1, <4>2, <4>4, OrderFact
        <5>3. cmp[key][y] >= 0
          BY <5>2, <4>2, OrderFact
        <5> QED BY <5>3, <4>1, <2>6, <2>7, <2>10
      <4>5. cmp[y][x] <= 0 => cmp[key][x] < 0
        BY <4>2, <4>4
      <4> QED BY <4>1, <4>3, <4>5, <2>6, <2>10
    <3> QED BY <3>2, <3>3, <3>4, <3>5, <2>3, <1>2 DEF Searching
  <2> QED BY <2>7, <2>8, <2>9, <2>10
<1> QED BY <1>4, <1>5

(* bsearch finds an element equal to the key just when there is one.        *)
LEMMA BsearchFinds ==
  ASSUME NEW E, NEW s \in Seq(E), NEW cmp, IsOrder(cmp, E), NEW key \in E,
         InOrder(s, 1, Len(s), cmp)
  PROVE  LET at == bsearch(key, s, cmp)
         IN  IF \E i \in 1..Len(s) : cmp[key][s[i]] = 0
             THEN at \in 1..Len(s) /\ cmp[key][s[at]] = 0 ELSE at = 0
<1>1. PICK L : L = Len(s)
  OBVIOUS
<1>2. L \in Nat /\ s \in [1..L -> E] /\ InOrder(s, 1, L, cmp)
  BY <1>1
<1>3. PICK z : z = [base |-> 1, lim |-> L, at |-> 0]
  OBVIOUS
<1> DEFINE G == [k \in 0..L |-> Searching(key, s, cmp, L, k)]
           step == [k \in 1..L |-> [p \in G[k - 1] |-> Searched(key, s, p, cmp)]]
           Law(f) == f = [k \in 0..L |-> IF k = 0 THEN z ELSE Searched(key, s, f[k - 1], cmp)]
<1>5. z \in G[0]
  <2>1. z \in Searching(key, s, cmp, L, 0)
    BY <1>2, <1>3 DEF Searching
  <2> QED BY <2>1, <1>2
<1>6. \A k \in 1..L : \A p \in G[k - 1] : Searched(key, s, p, cmp) \in G[k]
  <2> TAKE k \in 1..L
  <2> TAKE p \in G[k - 1]
  <2>1. k \in 0..L /\ k - 1 \in 0..L
    BY <1>2
  <2>2. p \in Searching(key, s, cmp, L, k - 1)
    BY <2>1
  <2>3. Searched(key, s, p, cmp) \in Searching(key, s, cmp, L, k)
    BY <2>2, <1>2, SearchedKeeps
  <2> QED BY <2>1, <2>3
<1>7. \E f : Law(f)
  <2>1. \A k \in 1..L : \A p \in G[k - 1] : step[k][p] = Searched(key, s, p, cmp)
    OBVIOUS
  <2> HIDE DEF G, step
  <2>2. IsLoop(L, G, z, step)
    BY <1>5, <1>6, <2>1 DEF IsLoop
  <2>3. PICK c : IsRun(c, L, G, z, step)
    BY <1>2, <2>2, LoopExists
  <2>4. \A k \in 0..L : c[k] = IF k = 0 THEN z ELSE Searched(key, s, c[k - 1], cmp)
    <3>1. \A k \in 0..L : k # 0 => k \in 1..L /\ k - 1 \in 0..L
      BY <1>2
    <3> QED BY <3>1, <2>1, <2>3 DEF IsRun
  <2>5. Law(c)
    BY <2>3, <2>4 DEF IsRun
  <2> QED BY <2>5
<1>8. PICK f : f = (CHOOSE h : Law(h)) /\ Law(f)
  <2> HIDE DEF Law
  <2> QED BY <1>7
<1>9. bsearch(key, s, cmp) = f[L].at
  BY <1>1, <1>3, <1>8 DEF bsearch
<1>10. f[L] \in G[L]
  <2> HIDE DEF G
  <2>1. f[0] = z /\ \A k \in 1..L : f[k] = Searched(key, s, f[k - 1], cmp)
    <3>1. f = [k \in 0..L |-> IF k = 0 THEN z ELSE Searched(key, s, f[k - 1], cmp)]
      BY <1>8
    <3>2. \A k \in 0..L : f[k] = IF k = 0 THEN z ELSE Searched(key, s, f[k - 1], cmp)
      BY <3>1
    <3>3. 0 \in 0..L /\ \A k \in 1..L : k \in 0..L /\ k # 0
      BY <1>2
    <3> QED BY <3>2, <3>3
  <2> HIDE DEF Law
  <2>2. \A k \in 1..L : f[k - 1] \in G[k - 1] => f[k] \in G[k]
    BY <2>1, <1>6
  <2> QED BY <2>1, <2>2, <1>2, <1>5, LoopLeads
<1>11. PICK p : p = f[L]
  OBVIOUS
<1>12. p \in Searching(key, s, cmp, L, L)
  BY <1>2, <1>10, <1>11
<1>13. PICK b \in Int, l \in Int, at \in Int : b = p.base /\ l = p.lim /\ at = p.at
  BY <1>12 DEF Searching
<1>14. /\ at # 0 => at \in 1..L /\ cmp[key][s[at]] = 0
       /\ 0 <= l /\ (at = 0 => l <= L - L)
       /\ \A i \in 1..L : i < b => cmp[key][s[i]] > 0
       /\ \A i \in 1..L : b + l <= i => cmp[key][s[i]] < 0
  BY <1>12, <1>13 DEF Searching
<1>15. CASE at # 0
  BY <1>1, <1>9, <1>11, <1>13, <1>14, <1>15
<1>16. CASE at = 0
  <2>1. l = 0
    BY <1>2, <1>14, <1>16
  <2>2. ASSUME NEW i \in 1..L PROVE ~(cmp[key][s[i]] = 0)
    <3>1. i < b \/ b + l <= i
      BY <2>1
    <3>2. cmp[key][s[i]] > 0 \/ cmp[key][s[i]] < 0
      BY <3>1, <1>14
    <3>3. s[i] \in E
      BY <1>2
    <3>4. cmp[key][s[i]] \in Int
      BY <3>3, OrderFact
    <3> QED BY <3>2, <3>4
  <2> QED BY <2>2, <1>1, <1>9, <1>11, <1>13, <1>16
<1> QED BY <1>15, <1>16

(* The program's comparison, the difference of the keys, is an order.       *)
LEMMA ComparisonFact ==
  /\ \A x, y \in Elements : Comparison[x][y] = x[1] - y[1] /\ x[1] \in Int
  /\ IsOrder(Comparison, Elements)
<1>1. \A x \in Elements : x[1] \in Int
  <2>1. \A a \in Arrays : \A i \in DOMAIN a : a[i] \in Int
    <3> SUFFICES ASSUME NEW a \in Arrays PROVE \A i \in DOMAIN a : a[i] \in Int
      OBVIOUS
    <3>1. a \in Seq(Int)
      BY ArraysAssumption
    <3> QED BY <3>1
  <2>2. \A k \in Keys : k \in Int
    BY <2>1 DEF Keys, Range
  <2> QED BY <2>2 DEF Elements
<1>2. \A x, y \in Elements : Comparison[x][y] = x[1] - y[1]
  BY DEF Comparison
<1>3. ASSUME NEW x \in Elements, NEW y \in Elements
      PROVE  /\ Comparison[x][y] \in Int
             /\ Comparison[x][y] < 0 <=> Comparison[y][x] > 0
  <2>1. PICK i \in Int, j \in Int : i = x[1] /\ j = y[1]
    BY <1>1
  <2>2. Comparison[x][y] = i - j /\ Comparison[y][x] = j - i
    BY <2>1, <1>2
  <2> QED BY <2>2
<1>4. ASSUME NEW x \in Elements, NEW y \in Elements, NEW z \in Elements,
             Comparison[x][y] <= 0, Comparison[y][z] <= 0
      PROVE  Comparison[x][z] <= 0
  <2>1. PICK i \in Int, j \in Int, k \in Int : i = x[1] /\ j = y[1] /\ k = z[1]
    BY <1>1
  <2>2. Comparison[x][y] = i - j /\ Comparison[y][z] = j - k /\ Comparison[x][z] = i - k
    BY <2>1, <1>2
  <2> QED BY <2>2, <1>4
<1> QED BY <1>1, <1>2, <1>3, <1>4 DEF IsOrder

(* qsort and bsearch on an array of keys.                                   *)
LEMMA ArraySorted ==
  ASSUME NEW a \in Arrays
  PROVE  LET s == Tagged(a)
             r == qsort(s, Comparison)
         IN  /\ Len(r) = Len(s) /\ Range(r) = Range(s)
             /\ \A i \in 2..Len(r) : r[i - 1][1] <= r[i][1]
             /\ \A k \in Keys :
                  LET at == bsearch(<<k, 1>>, r, Comparison)
                  IN  IF \E i \in DOMAIN r : r[i][1] = k THEN r[at][1] = k ELSE at = 0
<1>1. PICK s : s = Tagged(a)
  OBVIOUS
<1>2. s \in Seq(Elements)
  <2>1. a \in Seq(Int)
    BY ArraysAssumption
  <2>2. DOMAIN a = 1..Len(a) /\ Len(a) \in Nat
    BY <2>1
  <2>3. \A i \in DOMAIN a : <<a[i], i>> \in Elements
    <3>1. \A i \in DOMAIN a : a[i] \in Keys
      BY DEF Keys, Range
    <3> QED BY <3>1, <2>2 DEF Elements
  <2>4. s = [i \in 1..Len(a) |-> <<a[i], i>>]
    BY <2>2, <1>1 DEF Tagged
  <2> QED BY <2>2, <2>3, <2>4
<1>3. PICK L, E : L = Len(s) /\ E = Range(s)
  OBVIOUS
<1>4. L \in Nat /\ DOMAIN s = 1..L /\ (\A x \in E : x \in Elements) /\ E = {s[i] : i \in 1..L}
  BY <1>2, <1>3 DEF Range
<1>5. PICK r : r = qsort(s, Comparison)
  OBVIOUS
<1>6. r \in [1..L -> E] /\ Shuffled(s, r, 1, L) /\ InOrder(r, 1, L, Comparison)
  <2>1. IsOrder(Comparison, Range(s))
    BY <1>3, <1>4, ComparisonFact DEF IsOrder
  <2>2. HasSorted(qsort(s, Comparison), s, 1, Len(s), Comparison, Len(s), Range(s))
    BY <2>1, <1>2, QsortSorts
  <2> QED BY <2>2, <1>3, <1>5 DEF HasSorted
<1>7. r \in [1..L -> Elements] /\ DOMAIN r = 1..L
  BY <1>4, <1>6
<1>8. r \in Seq(Elements) /\ Len(r) = L
  BY <1>4, <1>7
<1>9. Range(r) = Range(s)
  <2>1. Range(r) = {r[i] : i \in 1..L} /\ Range(s) = {s[i] : i \in 1..L}
    BY <1>4, <1>7 DEF Range
  <2>2. PICK B : B = 1..(1 + L - 1)
    OBVIOUS
  <2>4. /\ \A i \in B : \E j \in B : r[i] = s[j]
        /\ \A i \in B : \E j \in B : s[i] = r[j]
    BY <2>2, <1>6 DEF Shuffled
  <2>5. B = 1..L
    BY <2>2, <1>4
  <2>3. \A i \in 1..L : (\E j \in 1..L : r[i] = s[j]) /\ (\E j \in 1..L : s[i] = r[j])
    BY <2>4, <2>5
  <2> QED BY <2>1, <2>3
<1>10. \A i \in 2..L : r[i - 1][1] <= r[i][1]
  <2> SUFFICES ASSUME NEW i \in 2..L PROVE r[i - 1][1] <= r[i][1]
    OBVIOUS
  <2>1. i - 1 \in 1..(1 + L - 1) /\ i \in 1..(1 + L - 1) /\ i - 1 < i /\ i \in 1..L /\ i - 1 \in 1..L
    BY <1>4
  <2>2. PICK x \in Elements, y \in Elements : x = r[i - 1] /\ y = r[i]
    BY <2>1, <1>7
  <2>3. Comparison[x][y] <= 0
    BY <2>1, <2>2, <1>6 DEF InOrder
  <2>4. PICK m \in Int, n \in Int : m = x[1] /\ n = y[1]
    BY ComparisonFact
  <2>5. m - n <= 0
    BY <2>3, <2>4, ComparisonFact
  <2> QED BY <2>2, <2>4, <2>5
<1>11. ASSUME NEW k \in Keys
       PROVE  LET at == bsearch(<<k, 1>>, r, Comparison)
              IN  IF \E i \in DOMAIN r : r[i][1] = k THEN r[at][1] = k ELSE at = 0
  <2>1. PICK key \in Elements : key = <<k, 1>>
    BY DEF Elements
  <2>2. key[1] = k /\ k \in Int
    BY <2>1, ComparisonFact
  <2>3. ASSUME NEW i \in 1..L PROVE Comparison[key][r[i]] = 0 <=> r[i][1] = k
    <3>1. PICK x \in Elements : x = r[i]
      BY <1>7
    <3>2. PICK m \in Int : m = x[1]
      BY ComparisonFact
    <3>3. Comparison[key][x] = k - m
      BY <3>2, <2>2, ComparisonFact
    <3> QED BY <3>1, <3>2, <3>3, <2>2
  <2>4. PICK at : at = bsearch(key, r, Comparison)
    OBVIOUS
  <2>5. IF \E i \in 1..L : Comparison[key][r[i]] = 0
        THEN at \in 1..L /\ Comparison[key][r[at]] = 0 ELSE at = 0
    <3>1. InOrder(r, 1, Len(r), Comparison)
      BY <1>6, <1>8
    <3>2. PICK c : c = Comparison
      OBVIOUS
    <3>3. IsOrder(c, Elements) /\ InOrder(r, 1, Len(r), c)
      BY <3>1, <3>2, ComparisonFact
    <3>4. IF \E i \in 1..Len(r) : c[key][r[i]] = 0
          THEN bsearch(key, r, c) \in 1..Len(r) /\ c[key][r[bsearch(key, r, c)]] = 0
          ELSE bsearch(key, r, c) = 0
      BY <3>3, <1>8, BsearchFinds
    <3> QED BY <3>2, <3>4, <2>4, <1>8
  <2>6. IF \E i \in 1..L : r[i][1] = k THEN r[at][1] = k ELSE at = 0
    BY <2>3, <2>5
  <2> QED BY <2>1, <2>4, <2>6, <1>7
<1> QED BY <1>1, <1>3, <1>5, <1>8, <1>9, <1>10, <1>11

(* Between calls there is no answer, and during one it is what qsort gives. *)
SortAnswered ==
  \/ call = Idle
  \/ \E a \in Arrays : /\ call = [to |-> "qsort", array |-> Tagged(a)]
                       /\ answer = qsort(Tagged(a), Comparison)

(* For all arrays and all limits Few and Many: qsort (clib/qsort.c) returns  *)
(* the elements it was given, in the order of the comparison, whichever way *)
(* the pivots part them and however many are equal; and bsearch             *)
(* (clib/bsearch.c) finds a key in what was sorted just when it is there.   *)
THEOREM AlwaysSorted == SortSpec => []SortedRight
<1>1. CallsInit => SortAnswered
  BY DEF CallsInit, SortAnswered
<1>2. SortAnswered /\ [(call = Idle /\ Sorts) \/ Returns]_callVars => SortAnswered'
  <2> SUFFICES ASSUME SortAnswered, [(call = Idle /\ Sorts) \/ Returns]_callVars
               PROVE  SortAnswered'
    OBVIOUS
  <2>1. CASE call = Idle /\ Sorts
    <3>1. PICK a \in Arrays : /\ call' = [to |-> "qsort", array |-> Tagged(a)]
                              /\ answer' = qsort(Tagged(a), Comparison)
      BY <2>1 DEF Sorts, Called
    <3> QED BY <3>1 DEF SortAnswered
  <2>2. CASE Returns
    BY <2>2 DEF Returns, SortAnswered
  <2>3. CASE UNCHANGED callVars
    BY <2>3 DEF callVars, SortAnswered
  <2> QED BY <2>1, <2>2, <2>3
<1>3. SortAnswered => SortedRight
  <2> SUFFICES ASSUME SortAnswered, call.to = "qsort" PROVE SortedRight
    BY DEF SortedRight
  <2>1. call # Idle
    BY DEF Idle
  <2>2. PICK a \in Arrays : /\ call = [to |-> "qsort", array |-> Tagged(a)]
                            /\ answer = qsort(Tagged(a), Comparison)
    BY <2>1 DEF SortAnswered
  <2>3. call.array = Tagged(a)
    BY <2>2
  <2> QED BY <2>2, <2>3, ArraySorted DEF SortedRight
<1> QED BY <1>1, <1>2, <1>3, PTL DEF SortSpec

-----------------------------------------------------------------------------
(* Words of a string.  Memory is spoken of in texts: where one lies, and     *)
(* that it stays while its bytes do.  What strtok_r does to the bytes is     *)
(* what Cut does to the text that is left.                                   *)
(* The least of some numbers is among them and below the others.            *)
LEMMA LowestFact ==
  ASSUME NEW S \in SUBSET Nat, S # {}
  PROVE  /\ Strs!Min(S) \in S /\ \A x \in S : Strs!Min(S) <= x
         /\ Strs!Lowest(S) = Strs!Min(S) /\ Strs!Min(S) \in Nat
<1>1. \E x \in S : \A y \in S : x <= y
  BY NatMin
<1>2. Strs!Min(S) \in S /\ \A x \in S : Strs!Min(S) <= x
  BY <1>1 DEF Strs!Min
<1>3. Strs!Lowest(S) = Strs!Min(S)
  BY DEF Strs!Lowest
<1> QED BY <1>2, <1>3

(* It is the only such number.                                              *)
LEMMA LowestIs ==
  ASSUME NEW S \in SUBSET Nat, NEW x \in S, \A y \in S : x <= y
  PROVE  Strs!Min(S) = x /\ Strs!Lowest(S) = x
<1>1. Strs!Min(S) \in S /\ Strs!Min(S) <= x /\ Strs!Lowest(S) = Strs!Min(S)
  BY LowestFact
<1>2. x <= Strs!Min(S) /\ x \in Nat /\ Strs!Min(S) \in Nat
  BY <1>1
<1> QED BY <1>1, <1>2

(* There is none.                                                           *)
LEMMA LowestNone ==
  /\ Strs!Lowest({}) = Strs!Null /\ Strs!Null \notin Nat
  /\ \A x \in Nat : x # Strs!Null
BY DEF Strs!Lowest, Strs!Null

(* Memories of the size there is, and what strings are made of.             *)
Memories == [0..(MemorySize - 1) -> 0..255]
Characters == 1..255

(* The string t lies at s, with its NUL.                                    *)
AtText(m, s, t) ==
  /\ s \in Nat /\ t \in Seq(Characters) /\ s + Len(t) \in 0..(MemorySize - 1)
  /\ \A p \in s..((s + Len(t)) - 1) : m[p] = t[p - s + 1]
  /\ m[s + Len(t)] = 0

(* A string that lies somewhere is found there, whole.                      *)
LEMMA TextFound ==
  ASSUME NEW m \in Memories, NEW s, NEW t, AtText(m, s, t)
  PROVE  /\ Strs!EndOf(m, s) = s + Len(t)
         /\ Strs!TextAt(m, s) = t
         /\ Strs!CharsOf(m, s) = Range(t)
<1>1. PICK l : l = Len(t)
  OBVIOUS
<1>2. s \in Nat /\ l \in Nat /\ s + l \in 0..(MemorySize - 1) /\ MemorySize \in Nat /\ m[s + l] = 0
  BY <1>1, LenProperties, SizeAssumption DEF AtText
<1>3. t \in [1..l -> 1..255]
  <2>1. t \in Seq(Characters)
    BY DEF AtText
  <2> QED BY <2>1, <1>1, LenProperties DEF Characters
<1>4. \A p \in s..((s + l) - 1) : m[p] = t[p - s + 1]
  BY <1>1 DEF AtText
<1>5. \A p \in s..((s + l) - 1) : m[p] # 0
  <2> TAKE p \in s..((s + l) - 1)
  <2>1. p - s + 1 \in 1..l
    BY <1>2
  <2>2. t[p - s + 1] \in 1..255
    BY <2>1, <1>3
  <2>3. m[p] = t[p - s + 1]
    BY <1>4
  <2> QED BY <2>2, <2>3
<1>6. Strs!EndOf(m, s) = s + l
  <2> DEFINE S == {p \in DOMAIN m : s <= p /\ m[p] = 0}
  <2>1. DOMAIN m = 0..(MemorySize - 1)
    BY DEF Memories
  <2>2. S \in SUBSET Nat /\ s + l \in S
    BY <2>1, <1>2
  <2>3. ASSUME NEW y \in S PROVE s + l <= y
    <3>1. y \in Nat /\ s <= y /\ m[y] = 0
      BY <2>1
    <3>2. y \notin s..((s + l) - 1)
      BY <3>1, <1>5
    <3> QED BY <3>1, <3>2, <1>2
  <2>4. Strs!Min(S) = s + l
    <3> HIDE DEF S
    <3> QED BY <2>2, <2>3, LowestIs
  <2> QED BY <2>4 DEF Strs!EndOf
<1>7. Strs!TextAt(m, s) = t
  <2>1. Strs!strlen(m, s) = l
    BY <1>2, <1>6 DEF Strs!strlen
  <2>2. Strs!TextAt(m, s) = [i \in 1..l |-> m[s + i - 1]]
    BY <2>1 DEF Strs!TextAt
  <2>3. ASSUME NEW i \in 1..l PROVE m[s + i - 1] = t[i]
    <3>1. PICK p : p = s + i - 1
      OBVIOUS
    <3>2. p \in s..((s + l) - 1) /\ p - s + 1 = i
      BY <3>1, <1>2
    <3> QED BY <3>1, <3>2, <1>4
  <2> QED BY <2>2, <2>3, <1>3
<1>8. Strs!CharsOf(m, s) = Range(t)
  <2>1. Strs!CharsOf(m, s) = {m[p] : p \in s..((s + l) - 1)}
    BY <1>6 DEF Strs!CharsOf
  <2>2. Range(t) = {t[i] : i \in 1..l}
    BY <1>3 DEF Range
  <2>3. ASSUME NEW i \in 1..l PROVE \E p \in s..((s + l) - 1) : m[p] = t[i]
    <3>1. PICK p : p = s + i - 1
      OBVIOUS
    <3>2. p \in s..((s + l) - 1) /\ p - s + 1 = i
      BY <3>1, <1>2
    <3>3. m[p] = t[i]
      BY <3>2, <1>4
    <3> QED BY <3>2, <3>3
  <2>4. ASSUME NEW p \in s..((s + l) - 1) PROVE p - s + 1 \in 1..l /\ m[p] = t[p - s + 1]
    BY <1>2, <1>4
  <2> QED BY <2>1, <2>2, <2>3, <2>4
<1> QED BY <1>1, <1>6, <1>7, <1>8

(* Where a NUL is ahead there is a string, which ends at it or before.      *)
LEMMA TextThere ==
  ASSUME NEW m \in Memories, NEW s \in Nat, NEW z \in Nat, s <= z, z < MemorySize, m[z] = 0
  PROVE  AtText(m, s, Strs!TextAt(m, s)) /\ s + Len(Strs!TextAt(m, s)) <= z
<1> DEFINE S == {p \in DOMAIN m : s <= p /\ m[p] = 0}
<1>1. MemorySize \in Nat /\ DOMAIN m = 0..(MemorySize - 1)
  BY SizeAssumption DEF Memories
<1>2. S \in SUBSET Nat /\ z \in S
  BY <1>1
<1>3. PICK e : e = Strs!Min(S)
  OBVIOUS
<1>4. e \in S /\ \A p \in S : e <= p
  <2> HIDE DEF S
  <2> QED BY <1>2, <1>3, LowestFact
<1>5. PICK l : l = e - s
  OBVIOUS
<1>6. e \in Nat /\ l \in Nat /\ s + l = e /\ e <= z /\ e \in 0..(MemorySize - 1) /\ m[e] = 0
  BY <1>1, <1>2, <1>4, <1>5
<1>7. ASSUME NEW p \in s..((s + l) - 1) PROVE m[p] \in 1..255
  <2>1. p \in 0..(MemorySize - 1) /\ s <= p /\ ~(e <= p)
    BY <1>1, <1>6
  <2>2. m[p] # 0
    BY <2>1, <1>1, <1>4
  <2>3. m[p] \in 0..255
    BY <2>1 DEF Memories
  <2> QED BY <2>2, <2>3
<1>8. Strs!EndOf(m, s) = e
  BY <1>3 DEF Strs!EndOf
<1>9. Strs!strlen(m, s) = l
  BY <1>5, <1>8 DEF Strs!strlen
<1>10. PICK t : t = Strs!TextAt(m, s)
  OBVIOUS
<1>11. t = [i \in 1..l |-> m[s + i - 1]]
  BY <1>9, <1>10 DEF Strs!TextAt
<1>12. ASSUME NEW i \in 1..l PROVE m[s + i - 1] \in 1..255
  <2>1. PICK p : p = s + i - 1
    OBVIOUS
  <2>2. p \in s..((s + l) - 1)
    BY <2>1, <1>6
  <2> QED BY <2>1, <2>2, <1>7
<1>13. t \in [1..l -> 1..255]
  BY <1>11, <1>12
<1>14. t \in Seq(Characters) /\ Len(t) = l
  BY <1>6, <1>13, IsASeq, LenProperties DEF Characters
<1>15. ASSUME NEW p \in s..((s + l) - 1) PROVE m[p] = t[p - s + 1]
  <2>1. PICK i : i = p - s + 1
    OBVIOUS
  <2>2. i \in 1..l /\ s + i - 1 = p
    BY <2>1, <1>6
  <2>3. t[i] = m[s + i - 1]
    BY <2>2, <1>11
  <2> QED BY <2>1, <2>2, <2>3
<1> QED BY <1>6, <1>10, <1>14, <1>15 DEF AtText

(* A string stays while its bytes do.                                       *)
LEMMA TextKept ==
  ASSUME NEW m, NEW mm, NEW s, NEW t, AtText(m, s, t),
         \A p \in s..(s + Len(t)) : mm[p] = m[p]
  PROVE  AtText(mm, s, t)
<1>1. s \in Nat /\ Len(t) \in Nat
  BY LenProperties DEF AtText
<1>2. s + Len(t) \in s..(s + Len(t)) /\ \A p \in s..((s + Len(t)) - 1) : p \in s..(s + Len(t))
  BY <1>1
<1> QED BY <1>2 DEF AtText

(* What a program writes lies there, and nothing else is changed.           *)
LEMMA TextWritten ==
  ASSUME NEW m \in Memories, NEW at \in Nat, NEW text \in Seq(Characters),
         at + Len(text) < MemorySize
  PROVE  /\ WithText(m, at, text) \in Memories
         /\ AtText(WithText(m, at, text), at, text)
         /\ \A p \in 0..(MemorySize - 1) : p < at \/ p > at + Len(text) =>
              WithText(m, at, text)[p] = m[p]
<1>1. PICK l : l = Len(text)
  OBVIOUS
<1>2. l \in Nat /\ text \in [1..l -> 1..255] /\ at + l < MemorySize /\ MemorySize \in Nat
  BY <1>1, LenProperties, SizeAssumption DEF Characters
<1>3. PICK r : r = WithText(m, at, text)
  OBVIOUS
<1>4. r = [p \in 0..(MemorySize - 1) |-> IF p \in at..((at + l) - 1) THEN text[p - at + 1]
                                        ELSE IF p = at + l THEN 0 ELSE m[p]]
  <2>1. DOMAIN m = 0..(MemorySize - 1) /\ at + l - 1 = (at + l) - 1
    BY <1>2 DEF Memories
  <2> QED BY <1>1, <1>3, <2>1 DEF WithText
<1>5. ASSUME NEW p \in at..((at + l) - 1) PROVE r[p] = text[p - at + 1] /\ r[p] \in 1..255
  <2>1. p \in 0..(MemorySize - 1) /\ p - at + 1 \in 1..l
    BY <1>2
  <2> QED BY <2>1, <1>2, <1>4
<1>6. at + l \in 0..(MemorySize - 1) /\ at + l \notin at..((at + l) - 1) /\ r[at + l] = 0
  BY <1>2, <1>4
<1>7. ASSUME NEW p \in 0..(MemorySize - 1), p < at \/ p > at + l PROVE r[p] = m[p]
  <2>1. p \notin at..((at + l) - 1) /\ p # at + l
    BY <1>2, <1>7
  <2> QED BY <2>1, <1>4
<1>8. ASSUME NEW p \in 0..(MemorySize - 1) PROVE r[p] \in 0..255
  <2>1. p \in at..((at + l) - 1) \/ p = at + l \/ p < at \/ p > at + l
    BY <1>2
  <2>2. m[p] \in 0..255
    BY DEF Memories
  <2>3. CASE p \in at..((at + l) - 1)
    <3>1. r[p] \in 1..255
      BY <2>3, <1>5
    <3> QED BY <3>1
  <2>4. CASE p = at + l
    BY <2>4, <1>6
  <2>5. CASE p < at \/ p > at + l
    <3>1. r[p] = m[p]
      BY <2>5, <1>7
    <3> QED BY <3>1, <2>2
  <2> QED BY <2>1, <2>3, <2>4, <2>5
<1>9. r \in Memories
  BY <1>4, <1>8 DEF Memories
<1>10. AtText(r, at, text)
  BY <1>1, <1>2, <1>5, <1>6 DEF AtText
<1> QED BY <1>1, <1>3, <1>7, <1>9, <1>10

(* The end of a string is its first NUL.                                    *)
LEMMA EndIs ==
  ASSUME NEW m \in Memories, NEW s \in Nat, NEW z \in Nat, s <= z, z < MemorySize, m[z] = 0,
         \A p \in s..(z - 1) : m[p] # 0
  PROVE  Strs!EndOf(m, s) = z
<1> DEFINE S == {p \in DOMAIN m : s <= p /\ m[p] = 0}
<1>1. MemorySize \in Nat /\ DOMAIN m = 0..(MemorySize - 1)
  BY SizeAssumption DEF Memories
<1>2. S \in SUBSET Nat /\ z \in S
  BY <1>1
<1>3. ASSUME NEW y \in S PROVE z <= y
  <2>1. y \in Nat /\ s <= y /\ m[y] = 0
    BY <1>1
  <2>2. y \notin s..(z - 1)
    BY <2>1
  <2> QED BY <2>1, <2>2
<1>4. Strs!Min(S) = z
  <2> HIDE DEF S
  <2> QED BY <1>2, <1>3, LowestIs
<1> QED BY <1>4 DEF Strs!EndOf

(* The text r of m has its characters i to j from q to e in mm, with a NUL. *)
IsPart(m, mm, from, r, i, j, q, e) ==
  /\ AtText(m, from, r) /\ i \in Nat /\ j \in Nat /\ 1 <= i /\ i <= j + 1 /\ j <= Len(r)
  /\ q = from + i - 1 /\ e = from + j /\ mm[e] = 0 /\ \A p \in q..(e - 1) : mm[p] = m[p]

(* A part of a text is a text, when a NUL follows it.                       *)
LEMMA PartOfText ==
  ASSUME NEW m, NEW mm, NEW from, NEW r, NEW i, NEW j, NEW q, NEW e,
         IsPart(m, mm, from, r, i, j, q, e)
  PROVE  AtText(mm, q, SubSeq(r, i, j)) /\ q + Len(SubSeq(r, i, j)) = e
<1>1. PICK l : l = Len(r)
  OBVIOUS
<1>2. /\ AtText(m, from, r) /\ i \in Nat /\ j \in Nat /\ 1 <= i /\ i <= j + 1 /\ j <= Len(r)
      /\ q = from + i - 1 /\ e = from + j /\ mm[e] = 0 /\ \A p \in q..(e - 1) : mm[p] = m[p]
  BY DEF IsPart
<1>3. PICK t : t = SubSeq(r, i, j)
  OBVIOUS
<1>4. PICK n : n = j - i + 1
  OBVIOUS
<1>5. /\ from \in Nat /\ l \in Nat /\ from + l \in 0..(MemorySize - 1) /\ MemorySize \in Nat
      /\ r \in Seq(Characters)
  BY <1>1, <1>2, LenProperties, SizeAssumption DEF AtText
<1>6. /\ n \in Nat /\ q \in Nat /\ q + n = e /\ q + n \in 0..(MemorySize - 1) /\ j <= l
  BY <1>1, <1>2, <1>4, <1>5
<1>7. t \in Seq(Characters) /\ Len(t) = n /\ \A k \in 1..n : t[k] = r[i + k - 1]
  <2>1. i \in Int /\ j \in Int /\ \A k \in i..j : k \in 1..Len(r)
    BY <1>1, <1>2, <1>5
  <2>2. \A k \in i..j : r[k] \in Characters
    BY <2>1, <1>5, ElementOfSeq
  <2>3. /\ SubSeq(r, i, j) \in Seq(Characters)
        /\ Len(SubSeq(r, i, j)) = IF i <= j THEN j - i + 1 ELSE 0
        /\ \A k \in 1..(j - i + 1) : SubSeq(r, i, j)[k] = r[i + k - 1]
    BY <2>1, <2>2, SubSeqProperties
  <2>4. n = IF i <= j THEN j - i + 1 ELSE 0
    BY <1>2, <1>4
  <2> QED BY <2>3, <2>4, <1>3, <1>4
<1>8. ASSUME NEW p \in q..((q + n) - 1) PROVE mm[p] = t[p - q + 1]
  <2>1. p \in q..(e - 1) /\ p \in from..((from + l) - 1)
    BY <1>2, <1>4, <1>5, <1>6
  <2>2. mm[p] = m[p]
    BY <2>1, <1>2
  <2>3. m[p] = r[p - from + 1]
    BY <2>1, <1>1, <1>2 DEF AtText
  <2>4. PICK k : k = p - q + 1
    OBVIOUS
  <2>5. k \in 1..n /\ i + k - 1 = p - from + 1
    BY <2>4, <1>2, <1>5, <1>6
  <2>6. t[k] = r[i + k - 1]
    BY <2>5, <1>7
  <2> QED BY <2>2, <2>3, <2>4, <2>5, <2>6
<1>9. AtText(mm, q, t)
  BY <1>2, <1>6, <1>7, <1>8 DEF AtText
<1> QED BY <1>3, <1>6, <1>7, <1>9

(* x, what strtok_r returned of the text r at from, is what c says that is  *)
(* left and that was cut, after the words w.                                *)
IsCut(x, c, m, from, r, w) ==
  /\ x.m \in Memories
  /\ \A p \in 0..(MemorySize - 1) : m[p] = 0 => x.m[p] = 0
  /\ \A p \in 0..(MemorySize - 1) : p < from \/ p > from + Len(r) => x.m[p] = m[p]
  /\ \/ x.tok = Strs!Null /\ x.last = Strs!Null /\ c.rest = <<>> /\ c.words = w
     \/ \E t \in Seq(Characters) :
          /\ c.words = Append(w, t) /\ AtText(x.m, x.tok, t)
          /\ from <= x.tok /\ x.tok + Len(t) <= from + Len(r)
          /\ \/ x.last = Strs!Null /\ c.rest = <<>>
             \/ /\ AtText(x.m, x.last, c.rest) /\ x.tok + Len(t) < x.last
                /\ x.last + Len(c.rest) = from + Len(r)

(* Delimiters first: the span ends at the first other character, which may  *)
(* be the NUL.                                                              *)
LEMMA SpannedIs ==
  ASSUME NEW m \in Memories, NEW from \in Nat, NEW q \in Nat, NEW cs, from <= q, q < MemorySize,
         m[q] \notin cs, \A p \in from..(q - 1) : m[p] \in cs
  PROVE  Strs!Spanned(m, from, cs) = q
<1> DEFINE S == {p \in DOMAIN m : from <= p /\ m[p] \notin cs}
<1>1. MemorySize \in Nat /\ DOMAIN m = 0..(MemorySize - 1)
  BY SizeAssumption DEF Memories
<1>2. S \in SUBSET Nat /\ q \in S
  BY <1>1
<1>3. ASSUME NEW y \in S PROVE q <= y
  <2>1. y \in Nat /\ from <= y /\ m[y] \notin cs
    BY <1>1
  <2>2. y \notin from..(q - 1)
    BY <2>1
  <2> QED BY <2>1, <2>2
<1>4. Strs!Min(S) = q
  <2> HIDE DEF S
  <2> QED BY <1>2, <1>3, LowestIs
<1> QED BY <1>4 DEF Strs!Spanned

(* What strtok_r returns of a text, with the delimiters as a set.           *)
Taken(m, from, cs) ==
  LET tok == Strs!Spanned(m, from, cs)
      behind == Strs!Lowest({p \in tok..Strs!EndOf(m, tok) : m[p] \in cs \cup {0}})
  IN  IF m[tok] = 0 THEN [tok |-> Strs!Null, last |-> Strs!Null, m |-> m]
      ELSE [tok |-> tok, last |-> IF m[behind] = 0 THEN Strs!Null ELSE behind + 1,
            m |-> [m EXCEPT ![behind] = 0]]

(* It is the next word, cut off.                                            *)
LEMMA TakenIsCut ==
  ASSUME NEW m \in Memories, NEW cs, 0 \notin cs,
         NEW from \in Nat, NEW r, AtText(m, from, r), NEW w
  PROVE  IsCut(Taken(m, from, cs), Cut([rest |-> r, words |-> w], cs), m, from, r, w)
<1>1. PICK l, x, c : l = Len(r) /\ x = Taken(m, from, cs) /\ c = Cut([rest |-> r, words |-> w], cs)
  OBVIOUS
<1>2. /\ l \in Nat /\ from + l \in 0..(MemorySize - 1) /\ MemorySize \in Nat /\ m[from + l] = 0
      /\ r \in [1..l -> 1..255] /\ r \in Seq(Characters)
  <2>1. r \in Seq(Characters)
    BY DEF AtText
  <2>2. r \in [1..l -> 1..255] /\ l \in Nat
    BY <2>1, <1>1, LenProperties DEF Characters
  <2> QED BY <1>1, <2>1, <2>2, SizeAssumption DEF AtText
<1>6. ASSUME NEW i \in 1..l PROVE m[from + i - 1] = r[i] /\ r[i] # 0
  <2>1. PICK p : p = from + i - 1
    OBVIOUS
  <2>2. p \in from..((from + l) - 1) /\ p - from + 1 = i
    BY <2>1, <1>2
  <2>3. m[p] = r[p - from + 1]
    BY <2>2, <1>1 DEF AtText
  <2>4. r[i] \in 1..255
    BY <1>2
  <2> QED BY <2>1, <2>2, <2>3, <2>4
<1>7. DOMAIN r = 1..l
  BY <1>2
<1> DEFINE inner == {i \in 1..l : r[i] \notin cs}
           tok == Strs!Spanned(m, from, cs)
           B(q) == {p \in q..Strs!EndOf(m, q) : m[p] \in cs \cup {0}}
<1>8. x = IF m[tok] = 0 THEN [tok |-> Strs!Null, last |-> Strs!Null, m |-> m]
          ELSE [tok |-> tok,
                last |-> IF m[Strs!Lowest(B(tok))] = 0 THEN Strs!Null ELSE Strs!Lowest(B(tok)) + 1,
                m |-> [m EXCEPT ![Strs!Lowest(B(tok))] = 0]]
  BY <1>1 DEF Taken
<1>9. CASE inner = {}
  <2>1. tok = from + l
    <3>1. ASSUME NEW p \in from..((from + l) - 1) PROVE m[p] \in cs
      <4>1. PICK i : i = p - from + 1
        OBVIOUS
      <4>2. i \in 1..l /\ from + i - 1 = p
        BY <4>1, <1>2
      <4>3. m[from + i - 1] = r[i] /\ r[i] \in cs
        BY <4>2, <1>6, <1>9
      <4> QED BY <4>2, <4>3
    <3>2. PICK q : q = from + l
      OBVIOUS
    <3>3. q \in Nat /\ from <= q /\ q < MemorySize /\ m[q] \notin cs
      BY <3>2, <1>2
    <3>4. \A p \in from..(q - 1) : m[p] \in cs
      BY <3>1, <3>2
    <3> QED BY <3>2, <3>3, <3>4, SpannedIs
  <2>2. x = [tok |-> Strs!Null, last |-> Strs!Null, m |-> m]
    BY <2>1, <1>2, <1>8
  <2>3. c = [rest |-> <<>>, words |-> w]
    BY <1>1, <1>7, <1>9 DEF Cut
  <2> QED BY <2>2, <2>3, <1>1 DEF IsCut
<1>10. CASE inner # {}
  <2>1. PICK f : f = Strs!Lowest(inner)
    OBVIOUS
  <2>2. f \in 1..l /\ r[f] \notin cs /\ \A i \in 1..l : i < f => r[i] \in cs
    <3>1. inner \in SUBSET Nat
      OBVIOUS
    <3>2. f \in inner /\ \A i \in inner : f <= i
      <4> HIDE DEF inner
      <4> QED BY <3>1, <2>1, <1>10, LowestFact
    <3> QED BY <3>2
  <2>3. PICK q : q = from + f - 1
    OBVIOUS
  <2>4. /\ q \in Nat /\ from <= q /\ q < from + l /\ q < MemorySize /\ f \in Nat /\ 1 <= f /\ f <= l
        /\ m[q] = r[f] /\ m[q] # 0 /\ m[q] \notin cs
    BY <2>2, <2>3, <1>2, <1>6
  <2>5. tok = q
    <3>1. ASSUME NEW p \in from..(q - 1) PROVE m[p] \in cs
      <4>1. PICK i : i = p - from + 1
        OBVIOUS
      <4>2. i \in 1..l /\ from + i - 1 = p /\ i < f
        BY <4>1, <1>2, <2>3, <2>4
      <4>3. m[from + i - 1] = r[i] /\ r[i] \in cs
        BY <4>2, <1>6, <2>2
      <4> QED BY <4>2, <4>3
    <3> QED BY <3>1, <2>4, SpannedIs
  <2>6. Strs!EndOf(m, q) = from + l
    <3>1. ASSUME NEW p \in q..((from + l) - 1) PROVE m[p] # 0
      <4>1. PICK i : i = p - from + 1
        OBVIOUS
      <4>2. i \in 1..l /\ from + i - 1 = p
        BY <4>1, <1>2, <2>4
      <4> QED BY <4>2, <1>6
    <3>2. PICK z : z = from + l
      OBVIOUS
    <3>3. z \in Nat /\ q <= z /\ z < MemorySize /\ m[z] = 0 /\ \A p \in q..(z - 1) : m[p] # 0
      BY <3>1, <3>2, <1>2, <2>4
    <3> QED BY <3>2, <3>3, <2>4, EndIs
  <2> DEFINE outer == {i \in f..l : r[i] \in cs}
  <2>7. c = IF Strs!Lowest(outer) = Strs!Null
            THEN [rest |-> <<>>, words |-> Append(w, SubSeq(r, f, l))]
            ELSE [rest |-> SubSeq(r, Strs!Lowest(outer) + 1, l),
                  words |-> Append(w, SubSeq(r, f, Strs!Lowest(outer) - 1))]
    BY <1>1, <1>7, <1>10, <2>1 DEF Cut
  <2>8. PICK e : e = Strs!Lowest(B(q))
    OBVIOUS
  <2>9. x = [tok |-> q, last |-> IF m[e] = 0 THEN Strs!Null ELSE e + 1, m |-> [m EXCEPT ![e] = 0]]
    BY <1>8, <2>4, <2>5, <2>8
  <2>10. B(q) = {p \in q..(from + l) : m[p] \in cs \cup {0}}
    BY <2>6
  <2>11. PICK mm : mm = [m EXCEPT ![e] = 0]
    OBVIOUS
  <2>12. ASSUME e \in q..(from + l)
         PROVE  /\ mm \in Memories /\ mm[e] = 0
                /\ \A p \in 0..(MemorySize - 1) : p # e => mm[p] = m[p]
                /\ \A p \in 0..(MemorySize - 1) : m[p] = 0 => mm[p] = 0
                /\ \A p \in 0..(MemorySize - 1) : p < from \/ p > from + l => mm[p] = m[p]
    <3>1. e \in 0..(MemorySize - 1) /\ from <= e /\ e <= from + l
      BY <2>12, <1>2, <2>4
    <3>2. mm \in Memories /\ mm[e] = 0 /\ \A p \in 0..(MemorySize - 1) : p # e => mm[p] = m[p]
      BY <3>1, <2>11 DEF Memories
    <3>3. ASSUME NEW p \in 0..(MemorySize - 1), p < from \/ p > from + l PROVE p # e
      BY <3>1, <3>3, <1>2
    <3>4. ASSUME NEW p \in 0..(MemorySize - 1), m[p] = 0 PROVE mm[p] = 0
      BY <3>2, <3>4
    <3> QED BY <3>2, <3>3, <3>4
  <2>13. \A p \in 0..(MemorySize - 1) : p # from + l /\ from <= p /\ p < from + l =>
           p - from + 1 \in 1..l /\ from + (p - from + 1) - 1 = p
    BY <1>2
  <2>14. CASE outer = {}
    <3>1. e = from + l
      <4>1. PICK z : z = from + l
        OBVIOUS
      <4>2. z \in Nat /\ z \in B(q) /\ B(q) \in SUBSET Nat
        BY <4>1, <2>10, <1>2, <2>4
      <4>3. ASSUME NEW p \in B(q) PROVE z <= p
        <5>1. p \in q..(from + l) /\ m[p] \in cs \cup {0}
          BY <2>10
        <5>2. CASE p # from + l
          <6>1. PICK i : i = p - from + 1
            OBVIOUS
          <6>2. i \in 1..l /\ i \in f..l /\ from + i - 1 = p
            BY <6>1, <5>1, <5>2, <1>2, <2>3, <2>4
          <6>3. m[from + i - 1] = r[i] /\ r[i] # 0 /\ r[i] \notin cs
            BY <6>2, <1>6, <2>14
          <6> QED BY <6>2, <6>3, <5>1
        <5>3. CASE p = from + l
          BY <5>3, <4>1, <4>2
        <5> QED BY <5>2, <5>3
      <4> HIDE DEF B
      <4> QED BY <4>1, <4>2, <4>3, <2>8, LowestIs
    <3>2. e \in q..(from + l) /\ m[e] = 0
      BY <3>1, <1>2, <2>4
    <3>3. PICK t : t = SubSeq(r, f, l)
      OBVIOUS
    <3>4. AtText(mm, q, t) /\ q + Len(t) = from + l
      <4>1. mm[e] = 0
        BY <2>12, <3>2
      <4>2. ASSUME NEW p \in q..(e - 1) PROVE mm[p] = m[p]
        <5>1. p \in 0..(MemorySize - 1) /\ p # e
          BY <3>1, <1>2, <2>4
        <5> QED BY <5>1, <2>12, <3>2
      <4>3. f \in Nat /\ 1 <= f /\ f <= l + 1 /\ l <= Len(r)
        BY <1>1, <1>2, <2>4
      <4>4. AtText(mm, q, SubSeq(r, f, l)) /\ q + Len(SubSeq(r, f, l)) = e
        <5>1. IsPart(m, mm, from, r, f, l, q, e)
          BY <4>1, <4>2, <4>3, <3>1, <1>2, <2>3 DEF IsPart
        <5> QED BY <5>1, PartOfText
      <4> QED BY <4>4, <3>1, <3>3
    <3>5. c = [rest |-> <<>>, words |-> Append(w, t)]
      BY <2>7, <2>14, <3>3, LowestNone
    <3>6. x = [tok |-> q, last |-> Strs!Null, m |-> mm]
      BY <2>9, <2>11, <3>2
    <3>7. t \in Seq(Characters)
      BY <3>4 DEF AtText
    <3>8. q + Len(t) <= from + l
      BY <3>4, <1>2
    <3> QED BY <3>2, <3>4, <3>5, <3>6, <3>7, <3>8, <2>4, <2>12, <1>1 DEF IsCut
  <2>15. CASE outer # {}
    <3>1. PICK b : b = Strs!Lowest(outer)
      OBVIOUS
    <3>2. b \in f..l /\ r[b] \in cs /\ \A i \in f..l : i < b => r[i] \notin cs
      <4>1. outer \in SUBSET Nat
        BY <2>4
      <4>2. b \in outer /\ \A i \in outer : b <= i
        <5> HIDE DEF outer
        <5> QED BY <4>1, <3>1, <2>15, LowestFact
      <4>3. ASSUME NEW i \in f..l, i < b PROVE r[i] \notin cs
        <5>1. i \in Nat /\ b \in Nat /\ ~(b <= i)
          BY <4>1, <4>2, <4>3, <2>4
        <5> QED BY <5>1, <4>2
      <4> QED BY <4>2, <4>3
    <3>3. b \in Nat /\ b # f /\ f < b /\ b <= l /\ b \in 1..l
      <4>1. b # f
        BY <3>2, <2>2
      <4> QED BY <4>1, <3>2, <2>4, <1>2
    <3>4. e = from + b - 1
      <4>1. PICK z : z = from + b - 1
        OBVIOUS
      <4>2. z \in Nat /\ z \in q..(from + l) /\ m[z] = r[b]
        BY <4>1, <3>3, <1>2, <1>6, <2>3, <2>4
      <4>3. z \in B(q) /\ B(q) \in SUBSET Nat
        BY <4>2, <3>2, <2>4, <2>10
      <4>4. ASSUME NEW p \in B(q) PROVE z <= p
        <5>1. p \in q..(from + l) /\ m[p] \in cs \cup {0}
          BY <2>10
        <5>2. CASE p < z
          <6>1. PICK i : i = p - from + 1
            OBVIOUS
          <6>2. i \in 1..l /\ i \in f..l /\ i < b /\ from + i - 1 = p
            BY <6>1, <5>1, <5>2, <4>1, <1>2, <2>3, <2>4, <3>3
          <6>3. m[from + i - 1] = r[i] /\ r[i] # 0 /\ r[i] \notin cs
            BY <6>2, <1>6, <3>2
          <6> QED BY <6>2, <6>3, <5>1
        <5>3. CASE ~(p < z)
          BY <5>3, <5>1, <4>2, <2>4
        <5> QED BY <5>2, <5>3
      <4> HIDE DEF B
      <4> QED BY <4>1, <4>2, <4>3, <4>4, <2>8, LowestIs
    <3>5. e \in Nat /\ e \in q..(from + l) /\ e < from + l /\ m[e] = r[b] /\ m[e] # 0
      BY <3>3, <3>4, <1>2, <1>6, <2>3, <2>4
    <3>6. PICK j : j = b - 1
      OBVIOUS
    <3>7. j \in Nat /\ from + j = e /\ f <= j + 1 /\ j <= l /\ f <= j
      <4>1. j \in Nat /\ f <= j + 1 /\ j <= l /\ f <= j
        BY <3>3, <3>6, <2>4, <1>2
      <4>2. from + j = e
        BY <3>3, <3>4, <3>6
      <4> QED BY <4>1, <4>2
    <3>8. PICK t, u : t = SubSeq(r, f, j) /\ u = SubSeq(r, b + 1, l)
      OBVIOUS
    <3>9. AtText(mm, q, t) /\ q + Len(t) = e
      <4>1. mm[e] = 0
        BY <2>12, <3>5
      <4>2. ASSUME NEW p \in q..(e - 1) PROVE mm[p] = m[p]
        <5>1. p \in 0..(MemorySize - 1) /\ p # e
          BY <3>5, <1>2, <2>4
        <5> QED BY <5>1, <2>12, <3>5
      <4>3. f \in Nat /\ 1 <= f /\ f <= j + 1 /\ j <= Len(r) /\ j \in Nat /\ e = from + j
        BY <1>1, <2>4, <3>7
      <4>4. AtText(mm, q, SubSeq(r, f, j)) /\ q + Len(SubSeq(r, f, j)) = e
        <5>1. IsPart(m, mm, from, r, f, j, q, e)
          BY <4>1, <4>2, <4>3, <2>3 DEF IsPart
        <5> QED BY <5>1, PartOfText
      <4> QED BY <4>4, <3>8
    <3>10. AtText(mm, e + 1, u) /\ (e + 1) + Len(u) = from + l
      <4>1. PICK i : i = b + 1
        OBVIOUS
      <4>2. i \in Nat /\ 1 <= i /\ i <= l + 1 /\ l <= Len(r) /\ from + i - 1 = e + 1
        BY <4>1, <3>3, <3>4, <1>1, <1>2
      <4>6. PICK g, z : g = e + 1 /\ z = from + l
        OBVIOUS
      <4>3. mm[z] = 0
        <5>1. z \in 0..(MemorySize - 1) /\ z # e /\ m[z] = 0
          BY <1>2, <3>5, <4>6
        <5> QED BY <5>1, <2>12, <3>5
      <4>4. ASSUME NEW p \in g..(z - 1) PROVE mm[p] = m[p]
        <5>1. p \in 0..(MemorySize - 1) /\ p # e
          BY <4>6, <3>5, <1>2
        <5> QED BY <5>1, <2>12, <3>5
      <4>7. g = from + i - 1
        BY <4>2, <4>6
      <4>5. AtText(mm, g, SubSeq(r, i, l)) /\ g + Len(SubSeq(r, i, l)) = z
        <5>1. IsPart(m, mm, from, r, i, l, g, z)
          BY <4>2, <4>3, <4>4, <4>6, <4>7, <1>2 DEF IsPart
        <5> QED BY <5>1, PartOfText
      <4> QED BY <4>1, <4>6, <4>5, <3>8
    <3>11. c = [rest |-> u, words |-> Append(w, t)]
      <4>1. b # Strs!Null
        BY <3>3, LowestNone
      <4> QED BY <4>1, <2>7, <3>1, <3>6, <3>8
    <3>12. x = [tok |-> q, last |-> e + 1, m |-> mm]
      BY <2>9, <2>11, <3>5
    <3>13. t \in Seq(Characters)
      BY <3>9 DEF AtText
    <3>14. q + Len(t) <= from + l /\ q + Len(t) < e + 1
      BY <3>9, <3>5, <1>2
    <3>15. IsCut(x, c, m, from, r, w)
      <4>1. x.m = mm /\ x.tok = q /\ x.last = e + 1 /\ c.rest = u /\ c.words = Append(w, t)
        BY <3>11, <3>12
      <4>2. \A p \in 0..(MemorySize - 1) : p < from \/ p > from + Len(r) => mm[p] = m[p]
        BY <2>12, <3>5, <1>1
      <4>3. from <= q /\ q + Len(t) <= from + Len(r) /\ q + Len(t) < e + 1 /\ (e + 1) + Len(u) = from + Len(r)
        BY <3>10, <3>14, <2>4, <1>1
      <4> QED BY <4>1, <4>2, <4>3, <3>5, <3>9, <3>10, <3>13, <2>12 DEF IsCut
    <3> QED BY <3>15, <1>1
  <2> QED BY <2>14, <2>15
<1> QED BY <1>9, <1>10

(* strtok_r with delimiters in memory, and a place to begin at or none.     *)
LEMMA StrtokTakes ==
  ASSUME NEW m \in Memories, NEW delim, AtText(m, Other, delim), NEW s, NEW before, NEW from,
         from = IF s = Strs!Null THEN before ELSE s
  PROVE  Strs!strtok_r(m, s, Other, before) =
           IF from = Strs!Null THEN [tok |-> Strs!Null, last |-> before, m |-> m]
           ELSE Taken(m, from, Range(delim))
<1>1. Strs!CharsOf(m, Other) = Range(delim)
  BY TextFound
<1> QED BY <1>1 DEF Strs!strtok_r, Taken

(* What copying has made of m after k bytes: the destination has as many of *)
(* them, and nothing else has changed; it ends just behind the source's NUL. *)
Copying(m, dst, src, l, k) ==
  {p \in [m : Memories, ended : BOOLEAN] :
     /\ \A i \in 0..(MemorySize - 1) : i < dst \/ i > dst + l => p.m[i] = m[i]
     /\ \A j \in 0..l : j < k => p.m[dst + j] = m[src + j]
     /\ p.ended <=> k > l}

(* A byte more copied.                                                      *)
LEMMA ByteKeeps ==
  ASSUME NEW m \in Memories, NEW d \in Seq(Characters), NEW src, AtText(m, src, d),
         NEW dst \in Nat, dst + Len(d) < src, NEW k \in Nat, k >= 1,
         NEW p \in Copying(m, dst, src, Len(d), k - 1)
  PROVE  Strs!ByteCopied(p, dst + k - 1, src + k - 1) \in Copying(m, dst, src, Len(d), k)
<1>1. PICK l, u, to, at : l = Len(d) /\ u = p.m /\ to = dst + k - 1 /\ at = src + k - 1
  OBVIOUS
<1>2. /\ l \in Nat /\ src \in Nat /\ src + l \in 0..(MemorySize - 1) /\ MemorySize \in Nat /\ m[src + l] = 0
      /\ dst + l < src
      /\ d \in [1..l -> 1..255] /\ \A i \in src..((src + l) - 1) : m[i] = d[i - src + 1]
  <2>1. l \in Nat /\ d \in [1..l -> 1..255]
    BY <1>1, LenProperties DEF Characters
  <2>2. /\ src \in Nat /\ src + l \in 0..(MemorySize - 1) /\ m[src + l] = 0
        /\ \A i \in src..((src + l) - 1) : m[i] = d[i - src + 1]
    BY <1>1 DEF AtText
  <2> QED BY <2>1, <2>2, <1>1, SizeAssumption
<1>3. /\ u \in Memories /\ p \in [m : Memories, ended : BOOLEAN]
      /\ \A i \in 0..(MemorySize - 1) : i < dst \/ i > dst + l => u[i] = m[i]
      /\ \A j \in 0..l : j < k - 1 => u[dst + j] = m[src + j]
      /\ (p.ended <=> k - 1 > l)
  BY <1>1 DEF Copying
<1>4. CASE p.ended
  <2>1. Strs!ByteCopied(p, to, at) = p
    BY <1>4 DEF Strs!ByteCopied
  <2>3. k > l /\ \A j \in 0..l : j < k - 1
    BY <1>2, <1>3, <1>4
  <2>2. p \in Copying(m, dst, src, l, k)
    BY <2>3, <1>1, <1>3, <1>4 DEF Copying
  <2> QED BY <2>1, <2>2, <1>1
<1>5. CASE ~p.ended
  <2>1. k - 1 <= l
    BY <1>2, <1>3, <1>5
  <2>2. at \in 0..(MemorySize - 1) /\ at > dst + l /\ to \in 0..(MemorySize - 1) /\ dst <= to /\ to <= dst + l
    BY <2>1, <1>1, <1>2
  <2>3. u[at] = m[at]
    BY <2>2, <1>3
  <2>4. PICK v, c : v = [u EXCEPT ![to] = u[at]] /\ c = (u[at] = 0)
    OBVIOUS
  <2>5. Strs!ByteCopied(p, to, at) = [m |-> v, ended |-> c]
    BY <2>4, <1>1, <1>5 DEF Strs!ByteCopied
  <2>6. v \in Memories /\ \A i \in 0..(MemorySize - 1) : i # to => v[i] = u[i]
    <3>1. u[at] \in 0..255
      BY <2>2, <1>3 DEF Memories
    <3> QED BY <3>1, <2>2, <2>4, <1>3 DEF Memories
  <2>7. ASSUME NEW i \in 0..(MemorySize - 1), i < dst \/ i > dst + l PROVE v[i] = m[i]
    <3>1. i # to
      BY <2>2, <2>7, <1>2
    <3> QED BY <3>1, <2>6, <2>7, <1>3
  <2>8. c <=> k > l
    <3>1. CASE k - 1 = l
      <4>1. at = src + l /\ k > l
        BY <3>1, <1>1, <1>2
      <4> QED BY <4>1, <2>3, <2>4, <1>2
    <3>2. CASE k - 1 # l
      <4>1. at \in src..((src + l) - 1) /\ at - src + 1 \in 1..l /\ ~(k > l)
        BY <3>2, <2>1, <1>1, <1>2
      <4>2. PICK e \in 1..255 : e = m[at]
        BY <4>1, <1>2
      <4>6. e # 0
        OBVIOUS
      <4>3. m[at] # 0
        BY <4>2, <4>6
      <4>4. c = FALSE
        BY <4>3, <2>3, <2>4
      <4>5. ~(k > l)
        BY <4>1
      <4> QED BY <4>4, <4>5
    <3> QED BY <3>1, <3>2
  <2>13. ASSUME NEW j \in 0..l, j < k PROVE v[dst + j] = m[src + j]
    <3>1. CASE j = k - 1
      <4>1. dst + j = to /\ src + j = at
        BY <3>1, <1>1, <1>2
      <4>2. v[to] = u[at]
        BY <2>2, <2>4, <1>3 DEF Memories
      <4> QED BY <4>1, <4>2, <2>3
    <3>2. CASE j # k - 1
      <4>1. j < k - 1 /\ dst + j \in 0..(MemorySize - 1) /\ dst + j # to
        BY <3>2, <2>13, <1>1, <1>2
      <4> QED BY <4>1, <2>6, <1>3
    <3> QED BY <3>1, <3>2
  <2>9. c \in BOOLEAN
    BY <2>4
  <2>10. PICK y : y = [m |-> v, ended |-> c]
    OBVIOUS
  <2>11. y.m = v /\ y.ended = c /\ y \in [m : Memories, ended : BOOLEAN]
    BY <2>6, <2>9, <2>10
  <2>12. y \in Copying(m, dst, src, l, k)
    BY <2>7, <2>8, <2>11, <2>13 DEF Copying
  <2> QED BY <2>5, <2>10, <2>12, <1>1
<1> QED BY <1>4, <1>5

(* A string copied below where it lies is at its destination, and nothing   *)
(* beside that has changed.                                                 *)
LEMMA CopiedKeeps ==
  ASSUME NEW m \in Memories, NEW d \in Seq(Characters), NEW src, AtText(m, src, d),
         NEW dst \in Nat, dst + Len(d) < src, NEW n \in Nat
  PROVE  /\ Strs!Copied(m, dst, src, n) \in Memories
         /\ \A i \in 0..(MemorySize - 1) :
              i < dst \/ i > dst + Len(d) => Strs!Copied(m, dst, src, n)[i] = m[i]
         /\ n > Len(d) => \A j \in 0..Len(d) : Strs!Copied(m, dst, src, n)[dst + j] = m[src + j]
<1>1. PICK l, base : l = Len(d) /\ base = [m |-> m, ended |-> FALSE]
  OBVIOUS
<1> DEFINE G == [k \in 0..n |-> Copying(m, dst, src, l, k)]
           step == [k \in 1..n |-> [p \in G[k - 1] |-> Strs!ByteCopied(p, dst + k - 1, src + k - 1)]]
           Law(f) == f = [k \in 0..n |-> IF k = 0 THEN base
                                         ELSE Strs!ByteCopied(f[k - 1], dst + k - 1, src + k - 1)]
<1>4. base \in G[0]
  <2>1. l \in Nat
    BY <1>1, LenProperties
  <2>2. base.m = m /\ base.ended = FALSE /\ base \in [m : Memories, ended : BOOLEAN]
    BY <1>1
  <2>4. ~(0 > l) /\ \A j \in 0..l : ~(j < 0)
    BY <2>1
  <2>3. base \in Copying(m, dst, src, l, 0)
    BY <2>2, <2>4 DEF Copying
  <2> QED BY <2>3
<1>5. \A k \in 1..n : \A p \in G[k - 1] : Strs!ByteCopied(p, dst + k - 1, src + k - 1) \in G[k]
  <2> TAKE k \in 1..n
  <2> TAKE p \in G[k - 1]
  <2>1. k \in 0..n /\ k - 1 \in 0..n /\ k \in Nat /\ k >= 1
    OBVIOUS
  <2>2. p \in Copying(m, dst, src, Len(d), k - 1)
    BY <2>1, <1>1
  <2> HIDE DEF G
  <2>3. Strs!ByteCopied(p, dst + k - 1, src + k - 1) \in Copying(m, dst, src, Len(d), k)
    BY <2>1, <2>2, ByteKeeps
  <2> QED BY <2>1, <2>3, <1>1 DEF G
<1>6. \E f : Law(f)
  <2>1. \A k \in 1..n : \A p \in G[k - 1] : step[k][p] = Strs!ByteCopied(p, dst + k - 1, src + k - 1)
    OBVIOUS
  <2> HIDE DEF G, step
  <2>2. IsLoop(n, G, base, step)
    BY <1>4, <1>5, <2>1 DEF IsLoop
  <2>3. PICK c : IsRun(c, n, G, base, step)
    BY <2>2, LoopExists
  <2>4. \A k \in 0..n : c[k] = IF k = 0 THEN base
                               ELSE Strs!ByteCopied(c[k - 1], dst + k - 1, src + k - 1)
    <3>1. \A k \in 0..n : k # 0 => k \in 1..n /\ k - 1 \in 0..n
      OBVIOUS
    <3> QED BY <3>1, <2>1, <2>3 DEF IsRun
  <2>5. Law(c)
    BY <2>3, <2>4 DEF IsRun
  <2> QED BY <2>5
<1>7. PICK f : f = (CHOOSE h : Law(h)) /\ Law(f)
  <2> HIDE DEF Law
  <2> QED BY <1>6
<1>8. Strs!Copied(m, dst, src, n) = f[n].m
  BY <1>1, <1>7 DEF Strs!Copied
<1>9. f[n] \in G[n]
  <2> HIDE DEF G
  <2>1. f[0] = base /\ \A k \in 1..n : f[k] = Strs!ByteCopied(f[k - 1], dst + k - 1, src + k - 1)
    <3>1. \A k \in 0..n : f[k] = IF k = 0 THEN base
                                 ELSE Strs!ByteCopied(f[k - 1], dst + k - 1, src + k - 1)
      BY <1>7
    <3>2. 0 \in 0..n /\ \A k \in 1..n : k \in 0..n /\ k # 0
      OBVIOUS
    <3> QED BY <3>1, <3>2
  <2> HIDE DEF Law
  <2>2. \A k \in 1..n : f[k - 1] \in G[k - 1] => f[k] \in G[k]
    BY <2>1, <1>5
  <2> QED BY <2>1, <2>2, <1>4, LoopLeads
<1>10. f[n] \in Copying(m, dst, src, l, n)
  BY <1>9
<1>11. n > l => \A j \in 0..l : j < n
  BY <1>1, LenProperties
<1> QED BY <1>1, <1>8, <1>10, <1>11 DEF Copying

(* What there is when some words were cut off.                              *)
Cuttings == [rest : Seq(Characters), words : Seq(Seq(Characters))]

(* One cut more.                                                            *)
LEMMA CutType ==
  ASSUME NEW t \in Cuttings, NEW cs
  PROVE  Cut(t, cs) \in Cuttings
<1>1. PICK r, w, l : r = t.rest /\ w = t.words /\ l = Len(t.rest)
  OBVIOUS
<1>2. r \in Seq(Characters) /\ w \in Seq(Seq(Characters)) /\ l = Len(r) /\ l \in Nat /\ DOMAIN r = 1..l
  BY <1>1, LenProperties DEF Cuttings
<1> DEFINE inner == {i \in DOMAIN r : r[i] \notin cs}
           first == Strs!Lowest(inner)
           outer == {i \in first..l : r[i] \in cs}
           behind == Strs!Lowest(outer)
<1>3. Cut(t, cs) = IF inner = {} THEN [rest |-> <<>>, words |-> w]
                   ELSE IF behind = Strs!Null
                   THEN [rest |-> <<>>, words |-> Append(w, SubSeq(r, first, l))]
                   ELSE [rest |-> SubSeq(r, behind + 1, l),
                         words |-> Append(w, SubSeq(r, first, behind - 1))]
  BY <1>1 DEF Cut
<1>4. <<>> \in Seq(Characters)
  BY EmptySeq
<1>5. ASSUME NEW i \in Nat, NEW j \in Nat, 1 <= i, j <= l PROVE SubSeq(r, i, j) \in Seq(Characters)
  <2>1. \A k \in i..j : k \in 1..l
    BY <1>2, <1>5
  <2>2. \A k \in 1..l : r[k] \in Characters
    BY <1>2, ElementOfSeq
  <2> QED BY <2>1, <2>2, SubSeqProperties
<1>6. CASE inner = {}
  BY <1>2, <1>3, <1>4, <1>6 DEF Cuttings
<1>7. CASE inner # {}
  <2>1. PICK f : f = first
    OBVIOUS
  <2>2. f \in 1..l
    <3>1. inner \in SUBSET Nat
      BY <1>2
    <3>2. f \in inner
      <4> HIDE DEF inner
      <4> QED BY <3>1, <2>1, <1>7, LowestFact
    <3> QED BY <3>2, <1>2
  <2>3. CASE behind = Strs!Null
    <3>1. SubSeq(r, f, l) \in Seq(Characters)
      BY <2>2, <1>2, <1>5
    <3>2. Append(w, SubSeq(r, f, l)) \in Seq(Seq(Characters))
      BY <3>1, <1>2, AppendProperties
    <3>3. Cut(t, cs) = [rest |-> <<>>, words |-> Append(w, SubSeq(r, f, l))]
      BY <2>1, <2>3, <1>3, <1>7
    <3> QED BY <3>2, <3>3, <1>4 DEF Cuttings
  <2>4. CASE behind # Strs!Null
    <3>1. outer # {}
      BY <2>4, LowestNone
    <3>2. PICK b : b = behind
      OBVIOUS
    <3>3. b \in f..l
      <4>1. outer \in SUBSET Nat /\ outer \subseteq f..l
        BY <2>1, <2>2
      <4>2. b \in outer
        <5> HIDE DEF outer
        <5> QED BY <4>1, <3>1, <3>2, LowestFact
      <4> HIDE DEF outer
      <4> QED BY <4>1, <4>2
    <3>4. b - 1 \in Nat /\ b + 1 \in Nat /\ b - 1 <= l /\ 1 <= b + 1 /\ f \in Nat /\ 1 <= f
      BY <3>3, <2>2, <1>2
    <3>5. SubSeq(r, f, b - 1) \in Seq(Characters) /\ SubSeq(r, b + 1, l) \in Seq(Characters)
      BY <3>4, <1>2, <1>5
    <3>6. Append(w, SubSeq(r, f, b - 1)) \in Seq(Seq(Characters))
      BY <3>5, <1>2, AppendProperties
    <3>7. Cut(t, cs) = [rest |-> SubSeq(r, b + 1, l), words |-> Append(w, SubSeq(r, f, b - 1))]
      BY <2>1, <2>4, <1>3, <1>7, <3>2
    <3> QED BY <3>5, <3>6, <3>7 DEF Cuttings
  <2> QED BY <2>3, <2>4
<1> QED BY <1>6, <1>7

(* The cuts one after the other.                                            *)
IsCutting(f, text, cuts, n) ==
  /\ f = [k \in 0..n |-> IF k = 0 THEN [rest |-> text, words |-> <<>>] ELSE Cut(f[k - 1], cuts[k])]
  /\ \A k \in 0..n : f[k] \in Cuttings
  /\ f[0] = [rest |-> text, words |-> <<>>]
  /\ \A k \in 1..n : f[k] = Cut(f[k - 1], cuts[k])

(* AllCut is the last of the cuts.                                          *)
LEMMA CuttingExists ==
  ASSUME NEW text \in Seq(Characters), NEW cuts, NEW n \in Nat, n = Len(cuts)
  PROVE  \E f : IsCutting(f, text, cuts, n) /\ AllCut(text, cuts) = f[n]
<1>1. PICK base : base = [rest |-> text, words |-> <<>>]
  OBVIOUS
<1> DEFINE G == [k \in 0..n |-> Cuttings]
           step == [k \in 1..n |-> [t \in G[k - 1] |-> Cut(t, cuts[k])]]
           Law(f) == f = [k \in 0..n |-> IF k = 0 THEN base ELSE Cut(f[k - 1], cuts[k])]
<1>2. base \in Cuttings
  <2>1. <<>> \in Seq(Seq(Characters))
    BY EmptySeq
  <2> QED BY <2>1, <1>1 DEF Cuttings
<1>3. base \in G[0] /\ \A k \in 1..n : \A t \in G[k - 1] : Cut(t, cuts[k]) \in G[k]
  <2>1. base \in G[0]
    BY <1>2
  <2>2. ASSUME NEW k \in 1..n, NEW t \in G[k - 1] PROVE Cut(t, cuts[k]) \in G[k]
    <3>1. k \in 0..n /\ k - 1 \in 0..n
      OBVIOUS
    <3>2. t \in Cuttings
      BY <3>1
    <3> QED BY <3>1, <3>2, CutType
  <2> QED BY <2>1, <2>2
<1>4. \E f : Law(f)
  <2>1. \A k \in 1..n : \A t \in G[k - 1] : step[k][t] = Cut(t, cuts[k])
    OBVIOUS
  <2> HIDE DEF G, step
  <2>2. IsLoop(n, G, base, step)
    BY <1>3, <2>1 DEF IsLoop
  <2>3. PICK c : IsRun(c, n, G, base, step)
    BY <2>2, LoopExists
  <2>4. \A k \in 0..n : c[k] = IF k = 0 THEN base ELSE Cut(c[k - 1], cuts[k])
    <3>1. \A k \in 0..n : k # 0 => k \in 1..n /\ k - 1 \in 0..n
      OBVIOUS
    <3> QED BY <3>1, <2>1, <2>3 DEF IsRun
  <2>5. Law(c)
    BY <2>3, <2>4 DEF IsRun
  <2> QED BY <2>5
<1>5. PICK f : f = (CHOOSE h : Law(h)) /\ Law(f)
  <2> HIDE DEF Law
  <2> QED BY <1>4
<1>6. AllCut(text, cuts) = f[n]
  BY <1>1, <1>5 DEF AllCut
<1>7. f[0] = base /\ \A k \in 1..n : f[k] = Cut(f[k - 1], cuts[k])
  <2>1. \A k \in 0..n : f[k] = IF k = 0 THEN base ELSE Cut(f[k - 1], cuts[k])
    BY <1>5
  <2>2. 0 \in 0..n /\ \A k \in 1..n : k \in 0..n /\ k # 0
    OBVIOUS
  <2> QED BY <2>1, <2>2
<1>8. \A k \in 0..n : f[k] \in Cuttings
  <2> DEFINE H == {k \in 0..n : f[k] \in Cuttings}
  <2>1. 0 \in H
    BY <1>2, <1>7
  <2>2. ASSUME NEW k \in 0..n, k \in H, k < n PROVE k + 1 \in H
    <3>1. k + 1 \in 1..n /\ k + 1 \in 0..n /\ (k + 1) - 1 = k
      BY <2>2
    <3>2. f[k + 1] = Cut(f[k], cuts[k + 1])
      <4>1. f[k + 1] = Cut(f[(k + 1) - 1], cuts[k + 1])
        BY <3>1, <1>7
      <4> QED BY <4>1, <3>1
    <3>3. Cut(f[k], cuts[k + 1]) \in Cuttings
      BY <2>2, CutType
    <3> QED BY <3>1, <3>2, <3>3
  <2>3. \A k \in 0..n : k \in H
    <3> HIDE DEF H
    <3> QED BY <2>1, <2>2, UpTo0
  <2> QED BY <2>3
<1>9. IsCutting(f, text, cuts, n)
  <2>1. f = [k \in 0..n |-> IF k = 0 THEN [rest |-> text, words |-> <<>>] ELSE Cut(f[k - 1], cuts[k])]
    BY <1>1, <1>5
  <2> QED BY <2>1, <1>1, <1>7, <1>8 DEF IsCutting
<1> QED BY <1>6, <1>9

(* What all cuts leave.                                                     *)
LEMMA AllCutType ==
  ASSUME NEW text \in Seq(Characters), NEW S, NEW cuts \in Seq(S)
  PROVE  AllCut(text, cuts) \in Cuttings
<1>1. Len(cuts) \in Nat
  BY LenProperties
<1>2. PICK f : IsCutting(f, text, cuts, Len(cuts)) /\ AllCut(text, cuts) = f[Len(cuts)]
  BY <1>1, CuttingExists
<1> QED BY <1>1, <1>2 DEF IsCutting

(* Without a cut all is left.                                               *)
LEMMA AllCutNone ==
  ASSUME NEW text \in Seq(Characters)
  PROVE  AllCut(text, <<>>) = [rest |-> text, words |-> <<>>]
<1>1. Len(<<>>) = 0
  OBVIOUS
<1>2. PICK f : IsCutting(f, text, <<>>, 0) /\ AllCut(text, <<>>) = f[0]
  BY <1>1, CuttingExists
<1> QED BY <1>2 DEF IsCutting

(* One cut more is made of what the others left.                            *)
LEMMA AllCutMore ==
  ASSUME NEW text \in Seq(Characters), NEW S, NEW cuts \in Seq(S), NEW cs \in S
  PROVE  AllCut(text, Append(cuts, cs)) = Cut(AllCut(text, cuts), cs)
<1>1. PICK n, more : n = Len(cuts) /\ more = Append(cuts, cs)
  OBVIOUS
<1>2. /\ n \in Nat /\ n + 1 \in Nat /\ Len(more) = n + 1 /\ more[n + 1] = cs
      /\ \A k \in 1..n : more[k] = cuts[k]
  BY <1>1, LenProperties, AppendProperties
<1>3. PICK f : IsCutting(f, text, cuts, n) /\ AllCut(text, cuts) = f[n]
  BY <1>1, <1>2, CuttingExists
<1>4. PICK g : IsCutting(g, text, more, n + 1) /\ AllCut(text, more) = g[n + 1]
  <2>1. PICK k : k = n + 1
    OBVIOUS
  <2>2. k \in Nat /\ k = Len(more)
    BY <2>1, <1>2
  <2>3. \E g : IsCutting(g, text, more, k) /\ AllCut(text, more) = g[k]
    BY <2>2, CuttingExists
  <2> QED BY <2>1, <2>3
<1>5. \A k \in 0..n : g[k] = f[k]
  <2> DEFINE H == {k \in 0..n : g[k] = f[k]}
  <2>1. 0 \in H
    BY <1>2, <1>3, <1>4 DEF IsCutting
  <2>2. ASSUME NEW k \in 0..n, k \in H, k < n PROVE k + 1 \in H
    <3>1. k + 1 \in 1..n /\ k + 1 \in 1..(n + 1) /\ k + 1 \in 0..n /\ (k + 1) - 1 = k
      BY <2>2, <1>2
    <3>2. f[k + 1] = Cut(f[(k + 1) - 1], cuts[k + 1]) /\ g[k + 1] = Cut(g[(k + 1) - 1], more[k + 1])
      BY <3>1, <1>3, <1>4 DEF IsCutting
    <3>3. g[k] = f[k] /\ more[k + 1] = cuts[k + 1]
      BY <2>2, <3>1, <1>2
    <3> QED BY <3>1, <3>2, <3>3
  <2>3. \A k \in 0..n : k \in H
    <3> HIDE DEF H
    <3> QED BY <2>1, <2>2, <1>2, UpTo0
  <2> QED BY <2>3
<1>6. n + 1 \in 1..(n + 1) /\ (n + 1) - 1 = n /\ n \in 0..n
  BY <1>2
<1>7. g[n + 1] = Cut(g[n], more[n + 1])
  <2>1. g[n + 1] = Cut(g[(n + 1) - 1], more[n + 1])
    BY <1>4, <1>6 DEF IsCutting
  <2> QED BY <2>1, <1>6
<1> QED BY <1>1, <1>2, <1>3, <1>4, <1>5, <1>6, <1>7

(* The words w lie whole at the places ws, all below limit.                 *)
InPlace(m, ws, limit, w) ==
  /\ ws \in Seq(Nat) /\ Len(ws) = Len(w)
  /\ \A k \in 1..Len(ws) : AtText(m, ws[k], w[k]) /\ ws[k] + Len(w[k]) < limit

(* What was cut is in place, and what is left is behind it.                 *)
Kept(m, ws, at, c) ==
  \/ at = Strs!Null /\ c.rest = <<>> /\ InPlace(m, ws, Other, c.words)
  \/ /\ at \in Nat /\ AtText(m, at, c.rest) /\ at + Len(c.rest) < Other
     /\ InPlace(m, ws, at, c.words)

(* Writing from a place on, and above, leaves what is in place below it.    *)
LEMMA InPlaceKept ==
  ASSUME NEW m, NEW mm, NEW ws, NEW limit \in Nat, NEW w, InPlace(m, ws, limit, w),
         \A p \in 0..(MemorySize - 1) : p < limit => mm[p] = m[p]
  PROVE  InPlace(mm, ws, limit, w)
<1>1. ASSUME NEW k \in 1..Len(ws) PROVE AtText(mm, ws[k], w[k])
  <2>1. AtText(m, ws[k], w[k]) /\ ws[k] + Len(w[k]) < limit
    BY DEF InPlace
  <2>2. PICK s, l : s = ws[k] /\ l = Len(w[k])
    OBVIOUS
  <2>3. s \in Nat /\ l \in Nat /\ s + l \in 0..(MemorySize - 1) /\ s + l < limit /\ MemorySize \in Nat
    BY <2>1, <2>2, LenProperties, RoomAssumption, SizeAssumption DEF AtText
  <2>4. ASSUME NEW p \in s..(s + l) PROVE mm[p] = m[p]
    <3>1. p \in 0..(MemorySize - 1) /\ p < limit
      BY <2>3
    <3> QED BY <3>1
  <2> QED BY <2>1, <2>2, <2>4, TextKept
<1> QED BY <1>1 DEF InPlace

(* What lies below a limit lies below a higher one.                         *)
LEMMA InPlaceWider ==
  ASSUME NEW m, NEW ws, NEW limit \in Nat, NEW wider \in Nat, limit <= wider, NEW w,
         InPlace(m, ws, limit, w)
  PROVE  InPlace(m, ws, wider, w)
<1>1. ASSUME NEW k \in 1..Len(ws) PROVE ws[k] + Len(w[k]) < wider
  <2>1. AtText(m, ws[k], w[k]) /\ ws[k] + Len(w[k]) < limit
    BY DEF InPlace
  <2>2. PICK s, l : s = ws[k] /\ l = Len(w[k])
    OBVIOUS
  <2>3. s \in Nat /\ l \in Nat /\ s + l < limit
    BY <2>1, <2>2, LenProperties DEF AtText
  <2> QED BY <2>2, <2>3
<1> QED BY <1>1 DEF InPlace

(* A word more in place.                                                    *)
LEMMA InPlaceMore ==
  ASSUME NEW m, NEW ws, NEW limit \in Nat, NEW S, NEW w \in Seq(S), InPlace(m, ws, limit, w),
         NEW at, NEW t \in S, AtText(m, at, t), at + Len(t) < limit
  PROVE  InPlace(m, Append(ws, at), limit, Append(w, t))
<1>1. PICK n : n = Len(ws)
  OBVIOUS
<1>2. ws \in Seq(Nat) /\ n = Len(w) /\ n \in Nat /\ at \in Nat
  BY <1>1, LenProperties DEF InPlace, AtText
<1>3. PICK a, b : a = Append(ws, at) /\ b = Append(w, t)
  OBVIOUS
<1>4. /\ a \in Seq(Nat) /\ Len(a) = n + 1 /\ a[n + 1] = at /\ \A k \in 1..n : a[k] = ws[k]
      /\ Len(b) = n + 1 /\ b[n + 1] = t /\ \A k \in 1..n : b[k] = w[k]
  <2>1. /\ a \in Seq(Nat) /\ Len(a) = Len(ws) + 1 /\ a[Len(ws) + 1] = at
        /\ \A k \in 1..Len(ws) : a[k] = ws[k]
    BY <1>2, <1>3, AppendProperties
  <2>2. Len(b) = Len(w) + 1 /\ b[Len(w) + 1] = t /\ \A k \in 1..Len(w) : b[k] = w[k]
    BY <1>3, AppendProperties
  <2> QED BY <2>1, <2>2, <1>1, <1>2
<1>5. ASSUME NEW k \in 1..(n + 1) PROVE AtText(m, a[k], b[k]) /\ a[k] + Len(b[k]) < limit
  <2>1. k \in 1..n \/ k = n + 1
    BY <1>2
  <2>2. CASE k \in 1..n
    BY <2>2, <1>1, <1>4 DEF InPlace
  <2>3. CASE k = n + 1
    BY <2>3, <1>4
  <2> QED BY <2>1, <2>2, <2>3
<1>6. InPlace(m, a, limit, b)
  BY <1>4, <1>5 DEF InPlace
<1> QED BY <1>3, <1>6

(* What was cut is kept when something is written from Other on.            *)
LEMMA KeptBelow ==
  ASSUME NEW m, NEW mm, NEW ws, NEW at, NEW c, Kept(m, ws, at, c),
         \A p \in 0..(MemorySize - 1) : p < Other => mm[p] = m[p]
  PROVE  Kept(mm, ws, at, c)
<1>1. Other \in Nat /\ MemorySize \in Nat
  BY RoomAssumption, SizeAssumption
<1>2. CASE at = Strs!Null /\ c.rest = <<>> /\ InPlace(m, ws, Other, c.words)
  BY <1>1, <1>2, InPlaceKept DEF Kept
<1>3. CASE /\ at \in Nat /\ AtText(m, at, c.rest) /\ at + Len(c.rest) < Other
           /\ InPlace(m, ws, at, c.words)
  <2>1. PICK l : l = Len(c.rest)
    OBVIOUS
  <2>2. l \in Nat /\ at \in Nat /\ at + l < Other /\ at + l \in 0..(MemorySize - 1)
    BY <1>3, <2>1, LenProperties DEF AtText
  <2>3. ASSUME NEW p \in at..(at + l) PROVE mm[p] = m[p]
    <3>1. p \in 0..(MemorySize - 1) /\ p < Other
      BY <2>2, <1>1
    <3> QED BY <3>1
  <2>4. AtText(mm, at, c.rest)
    BY <1>3, <2>1, <2>3, TextKept
  <2>5. \A p \in 0..(MemorySize - 1) : p < at => p < Other
    BY <2>2, <1>1
  <2>6. \A p \in 0..(MemorySize - 1) : p < at => mm[p] = m[p]
    BY <2>5
  <2>7. InPlace(mm, ws, at, c.words)
    BY <2>6, <1>3, InPlaceKept
  <2> QED BY <2>4, <2>7, <1>3 DEF Kept
<1> QED BY <1>2, <1>3 DEF Kept

(* x, what strtok_r returned of m, leaves d, with the words at ws and it.   *)
CutOff(m, ws, x, d) ==
  /\ x.m \in Memories
  /\ \A p \in 0..(MemorySize - 1) : m[p] = 0 => x.m[p] = 0
  /\ Kept(x.m, IF x.tok = Strs!Null THEN ws ELSE Append(ws, x.tok), x.last, d)

(* A word more is cut, or there was none.                                   *)
LEMMA KeptCut ==
  ASSUME NEW m \in Memories, NEW ws, NEW from \in Nat, NEW c \in Cuttings,
         AtText(m, from, c.rest), from + Len(c.rest) < Other, InPlace(m, ws, from, c.words),
         NEW cs, 0 \notin cs, NEW x, x = Taken(m, from, cs)
  PROVE  CutOff(m, ws, x, Cut(c, cs))
<1>1. PICK r, w, d, l : r = c.rest /\ w = c.words /\ d = Cut(c, cs) /\ l = Len(r)
  OBVIOUS
<1>2. r \in Seq(Characters) /\ w \in Seq(Seq(Characters)) /\ c = [rest |-> r, words |-> w]
  BY <1>1 DEF Cuttings
<1>3. IsCut(x, d, m, from, r, w)
  <2>1. AtText(m, from, r)
    BY <1>1
  <2>2. IsCut(Taken(m, from, cs), Cut([rest |-> r, words |-> w], cs), m, from, r, w)
    BY <2>1, TakenIsCut
  <2> QED BY <2>2, <1>1, <1>2
<1>4. l \in Nat /\ Other \in Nat /\ MemorySize \in Nat /\ from + l < Other
  BY <1>1, <1>2, LenProperties, RoomAssumption, SizeAssumption
<1>5. /\ x.m \in Memories
      /\ \A p \in 0..(MemorySize - 1) : m[p] = 0 => x.m[p] = 0
      /\ \A p \in 0..(MemorySize - 1) : p < from => x.m[p] = m[p]
  BY <1>3 DEF IsCut
<1>6. InPlace(x.m, ws, from, w)
  BY <1>1, <1>5, InPlaceKept
<1>7. CASE x.tok = Strs!Null /\ x.last = Strs!Null /\ d.rest = <<>> /\ d.words = w
  <2>1. InPlace(x.m, ws, Other, w)
    BY <1>4, <1>6, InPlaceWider
  <2>2. Kept(x.m, ws, x.last, d)
    BY <2>1, <1>7 DEF Kept
  <2> QED BY <2>2, <1>1, <1>5, <1>7 DEF CutOff
<1>8. CASE \E t \in Seq(Characters) :
             /\ d.words = Append(w, t) /\ AtText(x.m, x.tok, t)
             /\ from <= x.tok /\ x.tok + Len(t) <= from + Len(r)
             /\ \/ x.last = Strs!Null /\ d.rest = <<>>
                \/ /\ AtText(x.m, x.last, d.rest) /\ x.tok + Len(t) < x.last
                   /\ x.last + Len(d.rest) = from + Len(r)
  <2>1. PICK t \in Seq(Characters) :
             /\ d.words = Append(w, t) /\ AtText(x.m, x.tok, t)
             /\ from <= x.tok /\ x.tok + Len(t) <= from + Len(r)
             /\ \/ x.last = Strs!Null /\ d.rest = <<>>
                \/ /\ AtText(x.m, x.last, d.rest) /\ x.tok + Len(t) < x.last
                   /\ x.last + Len(d.rest) = from + Len(r)
    BY <1>8
  <2>2. PICK q, n : q = x.tok /\ n = Len(t)
    OBVIOUS
  <2>3. q \in Nat /\ n \in Nat /\ from <= q /\ q + n <= from + l
    BY <2>1, <2>2, <1>1, LenProperties DEF AtText
  <2>4. x.tok # Strs!Null
    BY <2>2, <2>3, LowestNone
  <2>5. CASE x.last = Strs!Null /\ d.rest = <<>>
    <3>1. InPlace(x.m, ws, Other, w)
      BY <1>4, <1>6, InPlaceWider
    <3>2. x.tok + Len(t) < Other
      BY <2>2, <2>3, <1>4
    <3>3. InPlace(x.m, Append(ws, x.tok), Other, d.words)
      BY <3>1, <3>2, <2>1, <1>2, <1>4, InPlaceMore
    <3>4. Kept(x.m, Append(ws, x.tok), x.last, d)
      BY <3>3, <2>5 DEF Kept
    <3> QED BY <3>4, <2>4, <1>1, <1>5 DEF CutOff
  <2>6. CASE /\ AtText(x.m, x.last, d.rest) /\ x.tok + Len(t) < x.last
             /\ x.last + Len(d.rest) = from + Len(r)
    <3>1. PICK at : at = x.last
      OBVIOUS
    <3>2. at \in Nat /\ q + n < at
      BY <3>1, <2>2, <2>6 DEF AtText
    <3>3. InPlace(x.m, ws, at, w)
      <4>1. from <= at
        BY <3>2, <2>3
      <4> QED BY <4>1, <3>2, <1>6, InPlaceWider
    <3>4. x.tok + Len(t) < at
      BY <3>1, <2>6
    <3>5. InPlace(x.m, Append(ws, x.tok), at, d.words)
      BY <3>2, <3>3, <3>4, <2>1, <1>2, InPlaceMore
    <3>6. x.last + Len(d.rest) < Other
      BY <2>6, <1>1, <1>4
    <3>7. Kept(x.m, Append(ws, x.tok), x.last, d)
      BY <3>1, <3>2, <3>5, <3>6, <2>6 DEF Kept
    <3> QED BY <3>7, <2>4, <1>1, <1>5 DEF CutOff
  <2> QED BY <2>1, <2>5, <2>6
<1> QED BY <1>3, <1>7, <1>8 DEF IsCut

(* Nothing is cut of a text that is empty.                                  *)
LEMMA NoneCut ==
  ASSUME NEW c \in Cuttings, c.rest = <<>>, NEW cs
  PROVE  Cut(c, cs) = c
<1>1. DOMAIN c.rest = {}
  OBVIOUS
<1>2. Cut(c, cs) = [rest |-> <<>>, words |-> c.words]
  BY <1>1 DEF Cut
<1> QED BY <1>2 DEF Cuttings

(* There is a NUL low enough for what is appended.                          *)
Roomy(m) == \E z \in Nat : /\ z < Other /\ m[z] = 0
                           /\ \A d \in Delimiters : z + Len(d) + 2 <= Other

(* The words that were returned are in place, and what is left is behind.   *)
TokensInv ==
  /\ memory \in Memories /\ Roomy(memory) /\ calls \in Nat
  /\ calls = 0 => words = <<>> /\ cutAt = <<>> /\ last = Strs!Null /\ whole = <<>>
  /\ whole \in Seq(Characters) /\ cutAt \in Seq(SUBSET Characters)
  /\ Kept(memory, words, last, AllCut(whole, cutAt))

(* There is room for each string and for what is appended to it.            *)
LEMMA TextsRoom ==
  ASSUME NEW text \in Contents \cup {<<>>}
  PROVE  /\ text \in Seq(Characters) /\ Len(text) \in Nat /\ Len(text) < Other /\ Len(text) < MemorySize
         /\ \A d \in Delimiters : Len(text) + Len(d) + 2 <= Other
<1>1. text \in Seq(Characters)
  BY RoomAssumption, SizeAssumption, EmptySeq DEF Characters
<1>2. Len(text) \in Nat
  BY <1>1, LenProperties
<1>3. Len(text) + Len(<<>>) + 2 <= Other /\ Other + Len(<<>>) < MemorySize
  BY RoomAssumption, SizeAssumption
<1>4. Other \in Nat /\ MemorySize \in Nat /\ Len(<<>>) = 0
  BY RoomAssumption, SizeAssumption
<1>5. \A d \in Delimiters : Len(text) + Len(d) + 2 <= Other
  BY RoomAssumption, SizeAssumption
<1> QED BY <1>1, <1>2, <1>3, <1>4, <1>5

(* What a call cuts at, or appends, and its room.                           *)
LEMMA Delimited ==
  ASSUME NEW d \in Delimiters
  PROVE  /\ d \in Seq(Characters) /\ Len(d) \in Nat /\ Other \in Nat /\ Other + Len(d) < MemorySize
         /\ Range(d) \in SUBSET Characters /\ 0 \notin Range(d)
<1>1. d \in Seq(Characters)
  BY RoomAssumption, SizeAssumption DEF Characters
<1>2. <<>> \in Contents \cup {<<>>} /\ d \in Delimiters \cup {<<>>}
  OBVIOUS
<1>3. Other \in Nat /\ Other + Len(d) < MemorySize
  BY <1>2, RoomAssumption, SizeAssumption
<1>4. Range(d) \in SUBSET Characters /\ 0 \notin Characters
  <2>1. \A i \in DOMAIN d : d[i] \in Characters
    BY <1>1, ElementOfSeq, LenProperties
  <2> QED BY <2>1 DEF Range, Characters
<1> QED BY <1>1, <1>3, <1>4, LenProperties

(* Before the first call nothing was cut and nothing is left.               *)
LEMMA NothingKept ==
  ASSUME NEW m
  PROVE  Kept(m, <<>>, Strs!Null, AllCut(<<>>, <<>>))
<1>1. <<>> \in Seq(Characters) /\ <<>> \in Seq(Nat) /\ Len(<<>>) = 0
  BY EmptySeq
<1>2. AllCut(<<>>, <<>>) = [rest |-> <<>>, words |-> <<>>]
  BY <1>1, AllCutNone
<1>3. 1..0 = {}
  OBVIOUS
<1>4. InPlace(m, <<>>, Other, <<>>)
  BY <1>1, <1>3 DEF InPlace
<1> QED BY <1>2, <1>4 DEF Kept

(* What a program writes leaves room.                                       *)
LEMMA RoomyText ==
  ASSUME NEW m, NEW text \in Contents \cup {<<>>}, AtText(m, Text, text)
  PROVE  Roomy(m)
<1>1. PICK l : l = Len(text)
  OBVIOUS
<1>2. l \in Nat /\ l < Other /\ \A d \in Delimiters : l + Len(d) + 2 <= Other
  BY <1>1, TextsRoom
<1>3. m[l] = 0
  <2>1. Text + l = l
    BY <1>2 DEF Text
  <2> QED BY <2>1, <1>1 DEF AtText
<1> QED BY <1>2, <1>3 DEF Roomy

(* The invariant holds at the beginning.                                    *)
LEMMA TokensBegin == TokensInit => TokensInv
<1> SUFFICES ASSUME TokensInit PROVE TokensInv
  OBVIOUS
<1>1. PICK m : m = [p \in 0..(MemorySize - 1) |-> 255]
  OBVIOUS
<1>2. m \in Memories /\ memory = WithText(m, Text, <<>>)
  BY <1>1 DEF TokensInit, Memories
<1>3. <<>> \in Contents \cup {<<>>} /\ Text \in Nat /\ Text + Len(<<>>) < MemorySize /\ <<>> \in Seq(Characters)
  <2>1. <<>> \in Contents \cup {<<>>}
    OBVIOUS
  <2>2. Len(<<>>) < MemorySize /\ <<>> \in Seq(Characters) /\ Len(<<>>) = 0
    BY <2>1, TextsRoom
  <2> QED BY <2>1, <2>2 DEF Text
<1>4. memory \in Memories /\ AtText(memory, Text, <<>>)
  BY <1>2, <1>3, TextWritten
<1>5. Roomy(memory)
  BY <1>3, <1>4, RoomyText
<1>6. Kept(memory, words, last, AllCut(whole, cutAt))
  BY NothingKept DEF TokensInit
<1>7. cutAt \in Seq(SUBSET Characters)
  BY EmptySeq DEF TokensInit
<1> QED BY <1>3, <1>4, <1>5, <1>6, <1>7 DEF TokensInit, TokensInv

(* A program writes its string before the first call.                       *)
LEMMA TokensWrites == TokensInv /\ Writes /\ calls' = calls + 1 => TokensInv'
<1> SUFFICES ASSUME TokensInv, Writes, calls' = calls + 1 PROVE TokensInv'
  OBVIOUS
<1>1. PICK text \in Contents : memory' = WithText(memory, Text, text)
  BY DEF Writes
<1>2. memory \in Memories /\ calls = 0 /\ UNCHANGED <<last, words, cutAt, whole>>
  BY DEF TokensInv, Writes
<1>3. words = <<>> /\ cutAt = <<>> /\ last = Strs!Null /\ whole = <<>>
  BY <1>2 DEF TokensInv
<1>4. text \in Contents \cup {<<>>} /\ Text \in Nat /\ Text + Len(text) < MemorySize /\ text \in Seq(Characters)
  <2>1. text \in Contents \cup {<<>>}
    OBVIOUS
  <2>2. Len(text) < MemorySize /\ text \in Seq(Characters) /\ Len(text) \in Nat
    BY <2>1, TextsRoom
  <2> QED BY <2>1, <2>2 DEF Text
<1>5. memory' \in Memories /\ AtText(memory', Text, text)
  BY <1>1, <1>2, <1>4, TextWritten
<1>6. Roomy(memory')
  BY <1>4, <1>5, RoomyText
<1>7. Kept(memory', words', last', AllCut(whole', cutAt'))
  BY <1>2, <1>3, NothingKept
<1>8. calls' \in Nat /\ calls' # 0
  BY <1>2
<1>9. whole' \in Seq(Characters) /\ cutAt' \in Seq(SUBSET Characters)
  BY <1>2 DEF TokensInv
<1> QED BY <1>5, <1>6, <1>7, <1>8, <1>9 DEF TokensInv

(* strtok, with a string or without one, keeps the invariant.               *)
LEMMA TokensCut == TokensInv /\ strtok /\ calls' = calls + 1 => TokensInv'
<1> SUFFICES ASSUME TokensInv, strtok, calls' = calls + 1 PROVE TokensInv'
  OBVIOUS
<1>1. PICK delim \in Delimiters, s \in {Text, Strs!Null} :
         LET m == WithText(memory, Other, delim)
             r == Strs!strtok_r(m, s, Other, last)
         IN  IF s = Text THEN Returned(r, <<>>, <<>>, delim) /\ whole' = Strs!TextAt(memory, Text)
             ELSE Returned(r, words, cutAt, delim) /\ UNCHANGED whole
  BY DEF strtok
<1>2. PICK m, x, cs : m = WithText(memory, Other, delim) /\ x = Strs!strtok_r(m, s, Other, last)
                      /\ cs = Range(delim)
  OBVIOUS
<1>3. IF s = Text THEN Returned(x, <<>>, <<>>, delim) /\ whole' = Strs!TextAt(memory, Text)
      ELSE Returned(x, words, cutAt, delim) /\ UNCHANGED whole
  BY <1>1, <1>2
<1>4. /\ delim \in Seq(Characters) /\ Len(delim) \in Nat /\ Other \in Nat /\ Other + Len(delim) < MemorySize
      /\ cs \in SUBSET Characters /\ 0 \notin cs
  BY <1>2, Delimited
<1>5. memory \in Memories /\ Roomy(memory) /\ calls \in Nat /\ MemorySize \in Nat
  BY RoomAssumption, SizeAssumption DEF TokensInv
<1>6. /\ m \in Memories /\ AtText(m, Other, delim)
      /\ \A p \in 0..(MemorySize - 1) : p < Other => m[p] = memory[p]
  BY <1>2, <1>4, <1>5, TextWritten
<1>7. PICK z \in Nat : /\ z < Other /\ memory[z] = 0
                       /\ \A d \in Delimiters : z + Len(d) + 2 <= Other
  BY <1>5 DEF Roomy
<1>8. z \in 0..(MemorySize - 1) /\ z < MemorySize /\ m[z] = 0
  <2>1. z \in 0..(MemorySize - 1) /\ z < MemorySize
    BY <1>4, <1>5, <1>7
  <2> QED BY <2>1, <1>6, <1>7
<1>9. Strs!Null # Text /\ Text \in Nat /\ Text = 0
  BY DEF Strs!Null, Text
<1>10. SUFFICES /\ memory' \in Memories /\ memory'[z] = 0
                /\ whole' \in Seq(Characters) /\ cutAt' \in Seq(SUBSET Characters)
                /\ Kept(memory', words', last', AllCut(whole', cutAt'))
  <2>1. calls' \in Nat /\ calls' # 0
    BY <1>5
  <2>2. Roomy(memory')
    BY <1>7, <1>10 DEF Roomy
  <2> QED BY <2>1, <2>2, <1>10 DEF TokensInv
<1>11. ASSUME NEW before \in Seq(SUBSET Characters), NEW ws, NEW from, NEW text \in Seq(Characters),
              Returned(x, ws, before, delim), whole' = text,
              from = IF s = Strs!Null THEN last ELSE s,
              Kept(m, ws, from, AllCut(text, before))
       PROVE  /\ memory' \in Memories /\ memory'[z] = 0
              /\ whole' \in Seq(Characters) /\ cutAt' \in Seq(SUBSET Characters)
              /\ Kept(memory', words', last', AllCut(whole', cutAt'))
  <2>1. PICK c : c = AllCut(text, before)
    OBVIOUS
  <2>2. c \in Cuttings
    BY <2>1, AllCutType
  <2>3. AllCut(text, Append(before, cs)) = Cut(c, cs)
    BY <2>1, <1>4, AllCutMore
  <2>4. /\ memory' = x.m /\ last' = x.last
        /\ words' = IF x.tok = Strs!Null THEN ws ELSE Append(ws, x.tok)
        /\ cutAt' = Append(before, cs)
    BY <1>2, <1>11 DEF Returned
  <2>5. cutAt' \in Seq(SUBSET Characters)
    BY <2>4, <1>4, AppendProperties
  <2>6. x = IF from = Strs!Null THEN [tok |-> Strs!Null, last |-> last, m |-> m]
            ELSE Taken(m, from, cs)
    BY <1>2, <1>6, <1>11, StrtokTakes
  <2>7. CASE from = Strs!Null /\ c.rest = <<>> /\ InPlace(m, ws, Other, c.words)
    <3>1. last = Strs!Null
      <4>1. s = Strs!Null \/ s = Text
        OBVIOUS
      <4> QED BY <4>1, <2>7, <1>9, <1>11
    <3>2. x.tok = Strs!Null /\ x.last = Strs!Null /\ x.m = m
      BY <3>1, <2>6, <2>7
    <3>3. Cut(c, cs) = c
      BY <2>2, <2>7, NoneCut
    <3>4. Kept(m, ws, Strs!Null, c)
      BY <2>7 DEF Kept
    <3> QED BY <3>2, <3>3, <3>4, <2>3, <2>4, <2>5, <1>6, <1>8, <1>11
  <2>8. CASE /\ from \in Nat /\ AtText(m, from, c.rest) /\ from + Len(c.rest) < Other
             /\ InPlace(m, ws, from, c.words)
    <3>1. from # Strs!Null
      BY <2>8, LowestNone
    <3>2. x = Taken(m, from, cs)
      BY <3>1, <2>6
    <3>3. CutOff(m, ws, x, Cut(c, cs))
      <4>1. AtText(m, from, c.rest) /\ from + Len(c.rest) < Other /\ InPlace(m, ws, from, c.words)
        BY <2>8
      <4> QED BY <4>1, <3>2, <2>2, <2>8, <1>4, <1>6, KeptCut
    <3> QED BY <3>3, <2>3, <2>4, <2>5, <1>8, <1>11 DEF CutOff
  <2> QED BY <2>1, <2>7, <2>8, <1>11 DEF Kept
<1>12. CASE s = Text
  <2>1. PICK t : t = Strs!TextAt(memory, Text)
    OBVIOUS
  <2>2. AtText(memory, Text, t) /\ Text + Len(t) <= z
    BY <2>1, <1>5, <1>7, <1>8, <1>9, TextThere
  <2>3. t \in Seq(Characters) /\ Len(t) \in Nat
    BY <2>2, LenProperties DEF AtText
  <2>4. Text + Len(t) < Other
    BY <2>2, <2>3, <1>4, <1>7, <1>9
  <2>5. AllCut(t, <<>>) = [rest |-> t, words |-> <<>>]
    BY <2>3, AllCutNone
  <2>6. InPlace(memory, <<>>, Text, <<>>)
    <3>1. <<>> \in Seq(Nat) /\ Len(<<>>) = 0 /\ 1..0 = {}
      BY EmptySeq
    <3> QED BY <3>1 DEF InPlace
  <2>7. Kept(memory, <<>>, Text, AllCut(t, <<>>))
    BY <2>2, <2>4, <2>5, <2>6, <1>9 DEF Kept
  <2>8. Kept(m, <<>>, Text, AllCut(t, <<>>))
    BY <2>7, <1>6, KeptBelow
  <2>9. Text = IF s = Strs!Null THEN last ELSE s
    BY <1>9, <1>12
  <2>10. <<>> \in Seq(SUBSET Characters)
    BY EmptySeq
  <2>11. Returned(x, <<>>, <<>>, delim) /\ whole' = t
    BY <2>1, <1>3, <1>12
  <2> QED BY <2>3, <2>8, <2>9, <2>10, <2>11, <1>11
<1>13. CASE s # Text
  <2>1. Returned(x, words, cutAt, delim) /\ whole' = whole
    BY <1>3, <1>13
  <2>2. last = IF s = Strs!Null THEN last ELSE s
    BY <1>13
  <2>3. whole \in Seq(Characters) /\ cutAt \in Seq(SUBSET Characters)
    BY DEF TokensInv
  <2>4. Kept(memory, words, last, AllCut(whole, cutAt))
    BY DEF TokensInv
  <2>5. Kept(m, words, last, AllCut(whole, cutAt))
    BY <2>4, <1>6, KeptBelow
  <2> QED BY <2>1, <2>2, <2>3, <2>5, <1>11
<1> QED BY <1>12, <1>13

(* strcat, when no words are out, keeps it.                                 *)
LEMMA TokensJoins == TokensInv /\ Joins /\ calls' = calls + 1 => TokensInv'
<1> SUFFICES ASSUME TokensInv, Joins, calls' = calls + 1 PROVE TokensInv'
  OBVIOUS
<1>1. PICK text \in Delimiters : memory' = Strs!strcat(WithText(memory, Other, text), Text, Other)
  BY DEF Joins
<1>2. last = Strs!Null /\ words = <<>> /\ UNCHANGED <<last, words, cutAt, whole>>
  BY DEF Joins
<1>3. PICK m : m = WithText(memory, Other, text)
  OBVIOUS
<1>4. text \in Seq(Characters) /\ Len(text) \in Nat /\ Other \in Nat /\ Other + Len(text) < MemorySize
  BY Delimited
<1>5. memory \in Memories /\ Roomy(memory) /\ calls \in Nat /\ MemorySize \in Nat
  BY RoomAssumption, SizeAssumption DEF TokensInv
<1>6. /\ m \in Memories /\ AtText(m, Other, text)
      /\ \A p \in 0..(MemorySize - 1) : p < Other => m[p] = memory[p]
  BY <1>3, <1>4, <1>5, TextWritten
<1>7. PICK z \in Nat : /\ z < Other /\ memory[z] = 0
                       /\ \A d \in Delimiters : z + Len(d) + 2 <= Other
  BY <1>5 DEF Roomy
<1>8. z \in 0..(MemorySize - 1) /\ z < MemorySize /\ m[z] = 0
  <2>1. z \in 0..(MemorySize - 1) /\ z < MemorySize
    BY <1>4, <1>5, <1>7
  <2> QED BY <2>1, <1>6, <1>7
<1>9. PICK t, e : t = Strs!TextAt(m, Text) /\ e = Strs!EndOf(m, Text)
  OBVIOUS
<1>10. AtText(m, Text, t) /\ Text + Len(t) <= z /\ e = Text + Len(t)
  <2>1. Text \in Nat /\ Text <= z
    BY <1>7 DEF Text
  <2>2. AtText(m, Text, t) /\ Text + Len(t) <= z
    BY <2>1, <1>6, <1>7, <1>8, <1>9, TextThere
  <2> QED BY <2>2, <1>6, <1>9, TextFound
<1>11. e \in Nat /\ e <= z /\ m[e] = 0 /\ e \in 0..(MemorySize - 1)
  BY <1>10, LenProperties DEF AtText, Text
<1>12. Strs!Whole(m) \in Nat
  <2>1. DOMAIN m = 0..(MemorySize - 1)
    BY <1>6 DEF Memories
  <2>2. Cardinality(DOMAIN m) \in Nat
    BY <2>1, <1>5, FS_Interval, FS_CardinalityType
  <2> QED BY <2>2 DEF Strs!Whole, Strs!Cardinality, Cardinality
<1>13. PICK dst, n : dst = e + 1 /\ n = Strs!Whole(m)
  OBVIOUS
<1>14. memory' = Strs!Copied(m, dst, Other, n)
  BY <1>1, <1>3, <1>9, <1>13 DEF Strs!strcat
<1>15. dst \in Nat /\ dst + Len(text) < Other /\ n \in Nat /\ e < dst
  <2>1. z + Len(text) + 2 <= Other
    BY <1>7
  <2> QED BY <2>1, <1>4, <1>7, <1>11, <1>12, <1>13
<1>16. /\ memory' \in Memories
       /\ \A i \in 0..(MemorySize - 1) : i < dst => memory'[i] = m[i]
  BY <1>4, <1>6, <1>14, <1>15, CopiedKeeps
<1>17. memory'[e] = 0
  BY <1>11, <1>15, <1>16
<1>18. Roomy(memory')
  <2>1. e < Other
    BY <1>4, <1>7, <1>11
  <2>2. ASSUME NEW d \in Delimiters PROVE e + Len(d) + 2 <= Other
    <3>1. Len(d) \in Nat /\ z + Len(d) + 2 <= Other
      BY <1>7, Delimited
    <3> QED BY <3>1, <1>4, <1>7, <1>11
  <2> QED BY <2>1, <2>2, <1>11, <1>17 DEF Roomy
<1>19. Kept(memory', words', last', AllCut(whole', cutAt'))
  <2>1. PICK c : c = AllCut(whole, cutAt)
    OBVIOUS
  <2>2. Kept(memory, <<>>, Strs!Null, c)
    BY <2>1, <1>2 DEF TokensInv
  <2>3. c.rest = <<>> /\ InPlace(memory, <<>>, Other, c.words)
    BY <2>2, LowestNone DEF Kept
  <2>4. InPlace(memory', <<>>, Other, c.words)
    <3>1. Len(<<>>) = 0 /\ 1..0 = {}
      OBVIOUS
    <3> QED BY <3>1, <2>3 DEF InPlace
  <2>5. Kept(memory', <<>>, Strs!Null, c)
    BY <2>3, <2>4 DEF Kept
  <2> QED BY <2>1, <2>5, <1>2
<1>20. calls' \in Nat /\ calls' # 0
  BY <1>5
<1>21. whole' \in Seq(Characters) /\ cutAt' \in Seq(SUBSET Characters)
  BY <1>2 DEF TokensInv
<1> QED BY <1>16, <1>18, <1>19, <1>20, <1>21 DEF TokensInv

(* Every step keeps it.                                                     *)
LEMMA TokensStep == TokensInv /\ [TokensNext]_tokensVars => TokensInv'
<1> SUFFICES ASSUME TokensInv, [TokensNext]_tokensVars PROVE TokensInv'
  OBVIOUS
<1>1. CASE TokensNext
  <2>1. calls' = calls + 1
    BY <1>1 DEF TokensNext
  <2>2. CASE Writes
    BY <2>1, <2>2, TokensWrites
  <2>3. CASE strtok
    BY <2>1, <2>3, TokensCut
  <2>4. CASE Joins
    BY <2>1, <2>4, TokensJoins
  <2> QED BY <1>1, <2>2, <2>3, <2>4 DEF TokensNext
<1>2. CASE UNCHANGED tokensVars
  BY <1>2 DEF TokensInv, tokensVars
<1> QED BY <1>1, <1>2

(* What is in place is what the cuts say.                                   *)
LEMMA TokensHold == TokensInv => TokensRight
<1> SUFFICES ASSUME TokensInv PROVE TokensRight
  OBVIOUS
<1>1. PICK c : c = AllCut(whole, cutAt)
  OBVIOUS
<1>2. memory \in Memories /\ c \in Cuttings /\ Kept(memory, words, last, c)
  BY <1>1, AllCutType DEF TokensInv
<1>3. PICK limit : InPlace(memory, words, limit, c.words)
  BY <1>2 DEF Kept
<1>4. words \in Seq(Nat) /\ Len(words) = Len(c.words)
  BY <1>3 DEF InPlace
<1>5. PICK w, n : w = c.words /\ n = Len(words)
  OBVIOUS
<1>6. w \in [1..n -> Seq(Characters)] /\ DOMAIN words = 1..n
  <2>1. w \in Seq(Seq(Characters)) /\ Len(w) = n
    BY <1>2, <1>4, <1>5 DEF Cuttings
  <2> QED BY <2>1, <1>4, <1>5, LenProperties
<1>7. ASSUME NEW k \in 1..n PROVE Strs!TextAt(memory, words[k]) = w[k]
  <2>1. AtText(memory, words[k], w[k])
    BY <1>3, <1>5 DEF InPlace
  <2> QED BY <2>1, <1>2, TextFound
<1>8. [k \in DOMAIN words |-> Strs!TextAt(memory, words[k])] = w
  BY <1>6, <1>7
<1> QED BY <1>1, <1>5, <1>8 DEF TokensRight

(* For all strings and delimiters there is room for, whatever is cut at     *)
(* from call to call: strtok (string/strtok.c) returns the words of the     *)
(* string in order, what it has returned stays whole in memory while it     *)
(* cuts the rest, and strcat (string/strcat.c) keeps clear of them.         *)
THEOREM AlwaysCut == TokensSpec => []TokensRight
<1> QED BY TokensBegin, TokensStep, TokensHold, PTL DEF TokensSpec

-----------------------------------------------------------------------------
(* Blocks and texts.  A loop of single bytes, or of eight, has moved as much *)
(* of the block as passes were made; and the bytes of two texts part where   *)
(* the texts do.                                                             *)

(* Nothing moved.                                                           *)
LEMMA MovedNothing ==
  ASSUME NEW m, NEW V, m \in [DOMAIN m -> V], NEW dst \in Int, NEW src \in Int
  PROVE  Strs!Moved(m, dst, src, 0) = m
<1>1. dst..((dst + 0) - 1) = {}
  OBVIOUS
<1>2. Strs!Moved(m, dst, src, 0) = [p \in DOMAIN m |-> m[p]]
  <2>1. dst + 0 - 1 = (dst + 0) - 1
    OBVIOUS
  <2> QED BY <1>1, <2>1 DEF Strs!Moved
<1> QED BY <1>2

(* r is m with n bytes from src at dst, place by place.                     *)
IsMoved(r, m, dst, src, n) ==
  /\ DOMAIN r = DOMAIN m /\ r = [p \in DOMAIN m |-> r[p]]
  /\ \A p \in DOMAIN m : p \in dst..((dst + n) - 1) => r[p] = m[src + p - dst]
  /\ \A p \in DOMAIN m : p \notin dst..((dst + n) - 1) => r[p] = m[p]

(* What a block moved is at each place.                                     *)
LEMMA MovedAt ==
  ASSUME NEW m, NEW dst \in Int, NEW src \in Int, NEW n \in Nat
  PROVE  IsMoved(Strs!Moved(m, dst, src, n), m, dst, src, n)
<1>1. PICK r : r = Strs!Moved(m, dst, src, n)
  OBVIOUS
<1>2. dst + n - 1 = (dst + n) - 1
  OBVIOUS
<1>3. r = [p \in DOMAIN m |-> IF p \in dst..((dst + n) - 1) THEN m[src + p - dst] ELSE m[p]]
  BY <1>1, <1>2 DEF Strs!Moved
<1>4. IsMoved(r, m, dst, src, n)
  BY <1>3 DEF IsMoved
<1> QED BY <1>1, <1>4

(* A piece moved behind what was moved, from where nothing was written.     *)
LEMMA MovedMore ==
  ASSUME NEW m, DOMAIN m \subseteq Int, NEW dst \in Int, NEW src \in Int, NEW w \in Nat, NEW v \in Nat,
         \A q \in (src + w)..((src + w + v) - 1) : q \in DOMAIN m /\ q \notin dst..((dst + w) - 1)
  PROVE  Strs!Moved(Strs!Moved(m, dst, src, w), dst + w, src + w, v) = Strs!Moved(m, dst, src, w + v)
<1>1. PICK u, r, z, to, at : u = Strs!Moved(m, dst, src, w) /\ to = dst + w /\ at = src + w
                             /\ r = Strs!Moved(u, to, at, v) /\ z = Strs!Moved(m, dst, src, w + v)
  OBVIOUS
<1>2. to \in Int /\ at \in Int /\ w + v \in Nat /\ to = dst + w /\ at = src + w
  BY <1>1
<1>3. /\ DOMAIN u = DOMAIN m
      /\ \A p \in DOMAIN m : p \in dst..((dst + w) - 1) => u[p] = m[src + p - dst]
      /\ \A p \in DOMAIN m : p \notin dst..((dst + w) - 1) => u[p] = m[p]
  <2>1. IsMoved(u, m, dst, src, w)
    BY <1>1, MovedAt
  <2> QED BY <2>1 DEF IsMoved
<1>4. /\ DOMAIN r = DOMAIN u /\ r = [p \in DOMAIN u |-> r[p]]
      /\ \A p \in DOMAIN u : p \in to..((to + v) - 1) => r[p] = u[at + p - to]
      /\ \A p \in DOMAIN u : p \notin to..((to + v) - 1) => r[p] = u[p]
  <2>1. IsMoved(r, u, to, at, v)
    BY <1>1, <1>2, MovedAt
  <2> QED BY <2>1 DEF IsMoved
<1>5. /\ DOMAIN z = DOMAIN m /\ z = [p \in DOMAIN m |-> z[p]]
      /\ \A p \in DOMAIN m : p \in dst..((dst + (w + v)) - 1) => z[p] = m[src + p - dst]
      /\ \A p \in DOMAIN m : p \notin dst..((dst + (w + v)) - 1) => z[p] = m[p]
  <2>1. IsMoved(z, m, dst, src, w + v)
    BY <1>1, <1>2, MovedAt
  <2> QED BY <2>1 DEF IsMoved
<1>6. ASSUME NEW p \in DOMAIN m PROVE r[p] = z[p]
  <2>1. p \in Int
    OBVIOUS
  <2>2. CASE p \in to..((to + v) - 1)
    <3>1. PICK q : q = at + p - to
      OBVIOUS
    <3>2. q \in (src + w)..((src + w + v) - 1) /\ q = src + p - dst /\ p \in dst..((dst + (w + v)) - 1)
      BY <3>1, <2>1, <2>2, <1>2
    <3>3. r[p] = u[q] /\ u[q] = m[q]
      BY <3>1, <3>2, <2>2, <1>3, <1>4
    <3>4. z[p] = m[src + p - dst]
      BY <3>2, <1>5
    <3> QED BY <3>2, <3>3, <3>4
  <2>3. CASE p \notin to..((to + v) - 1)
    <3>1. r[p] = u[p]
      BY <2>3, <1>3, <1>4
    <3>2. p \in dst..((dst + w) - 1) <=> p \in dst..((dst + (w + v)) - 1)
      BY <2>1, <2>3, <1>2
    <3> QED BY <3>1, <3>2, <1>3, <1>5
  <2> QED BY <2>2, <2>3
<1>7. r = z
  BY <1>3, <1>4, <1>5, <1>6
<1> QED BY <1>1, <1>7

(* A byte moved below what was moved, from where nothing was written.       *)
LEMMA MovedLess ==
  ASSUME NEW m, DOMAIN m \subseteq Int, NEW dst \in Int, NEW src \in DOMAIN m, NEW w \in Nat,
         src \notin (dst + 1)..(dst + w)
  PROVE  Strs!Moved(Strs!Moved(m, dst + 1, src + 1, w), dst, src, 1) = Strs!Moved(m, dst, src, w + 1)
<1>1. PICK u, r, z, to, at : to = dst + 1 /\ at = src + 1 /\ u = Strs!Moved(m, to, at, w)
                             /\ r = Strs!Moved(u, dst, src, 1) /\ z = Strs!Moved(m, dst, src, w + 1)
  OBVIOUS
<1>2. to \in Int /\ at \in Int /\ w + 1 \in Nat /\ to = dst + 1 /\ at = src + 1 /\ src \in Int
  BY <1>1
<1>3. /\ DOMAIN u = DOMAIN m
      /\ \A p \in DOMAIN m : p \in to..((to + w) - 1) => u[p] = m[at + p - to]
      /\ \A p \in DOMAIN m : p \notin to..((to + w) - 1) => u[p] = m[p]
  <2>1. IsMoved(u, m, to, at, w)
    BY <1>1, <1>2, MovedAt
  <2> QED BY <2>1 DEF IsMoved
<1>4. /\ DOMAIN r = DOMAIN u /\ r = [p \in DOMAIN u |-> r[p]]
      /\ \A p \in DOMAIN u : p \in dst..((dst + 1) - 1) => r[p] = u[src + p - dst]
      /\ \A p \in DOMAIN u : p \notin dst..((dst + 1) - 1) => r[p] = u[p]
  <2>1. IsMoved(r, u, dst, src, 1)
    BY <1>1, <1>2, MovedAt
  <2> QED BY <2>1 DEF IsMoved
<1>5. /\ DOMAIN z = DOMAIN m /\ z = [p \in DOMAIN m |-> z[p]]
      /\ \A p \in DOMAIN m : p \in dst..((dst + (w + 1)) - 1) => z[p] = m[src + p - dst]
      /\ \A p \in DOMAIN m : p \notin dst..((dst + (w + 1)) - 1) => z[p] = m[p]
  <2>1. IsMoved(z, m, dst, src, w + 1)
    BY <1>1, <1>2, MovedAt
  <2> QED BY <2>1 DEF IsMoved
<1>6. ASSUME NEW p \in DOMAIN m PROVE r[p] = z[p]
  <2>1. p \in Int
    OBVIOUS
  <2>2. CASE p = dst
    <3>1. PICK q : q = src + p - dst
      OBVIOUS
    <3>2. q = src /\ p \in dst..((dst + 1) - 1) /\ p \in dst..((dst + (w + 1)) - 1)
      BY <3>1, <2>1, <2>2, <1>2
    <3>3. q \notin to..((to + w) - 1)
      BY <3>2, <1>2
    <3>4. r[p] = u[q] /\ u[q] = m[q]
      BY <3>1, <3>2, <3>3, <1>3, <1>4
    <3>5. z[p] = m[q]
      BY <3>1, <3>2, <1>5
    <3> QED BY <3>4, <3>5
  <2>3. CASE p # dst
    <3>1. r[p] = u[p]
      <4>1. p \notin dst..((dst + 1) - 1)
        BY <2>1, <2>3
      <4> QED BY <4>1, <1>3, <1>4
    <3>2. p \in to..((to + w) - 1) <=> p \in dst..((dst + (w + 1)) - 1)
      BY <2>1, <2>3, <1>2
    <3>3. at + p - to = src + p - dst
      BY <2>1, <1>2
    <3> QED BY <3>1, <3>2, <3>3, <1>3, <1>5
  <2> QED BY <2>2, <2>3
<1>7. r = z
  BY <1>3, <1>4, <1>5, <1>6
<1> QED BY <1>1, <1>7

(* The program's duty: both blocks are in memory.                           *)
InMemory(m, V, dst, src, size) ==
  /\ DOMAIN m \subseteq Nat /\ m \in [DOMAIN m -> V]
  /\ dst \in Nat /\ src \in Nat /\ size \in Nat
  /\ \A q \in src..((src + size) - 1) : q \in DOMAIN m

(* A pass of memmove, and what it has moved after k passes.                 *)
OnePass(u, dst, src, size, upwards, k) ==
  IF upwards THEN Strs!Moved(u, dst + k - 1, src + k - 1, 1)
  ELSE Strs!Moved(u, dst + size - k, src + size - k, 1)
AfterPasses(m, dst, src, size, upwards, k) ==
  IF upwards THEN Strs!Moved(m, dst, src, k)
  ELSE Strs!Moved(m, dst + size - k, src + size - k, k)

(* A pass moves one byte more, and reads none that was written.             *)
LEMMA PassMoves ==
  ASSUME NEW m, NEW V, NEW dst, NEW src, NEW size, InMemory(m, V, dst, src, size),
         NEW upwards \in BOOLEAN, upwards <=> src > dst, NEW k \in 1..size
  PROVE  OnePass(AfterPasses(m, dst, src, size, upwards, k - 1), dst, src, size, upwards, k)
           = AfterPasses(m, dst, src, size, upwards, k)
<1>1. /\ DOMAIN m \subseteq Nat /\ dst \in Nat /\ src \in Nat /\ size \in Nat /\ k \in Nat /\ k >= 1 /\ k <= size
      /\ \A q \in src..((src + size) - 1) : q \in DOMAIN m
  BY DEF InMemory
<1>2. DOMAIN m \subseteq Int
  BY <1>1
<1>3. CASE upwards
  <2>1. PICK w : w = k - 1
    OBVIOUS
  <2>2. w \in Nat /\ w + 1 = k /\ dst + k - 1 = dst + w /\ src + k - 1 = src + w /\ 1 \in Nat /\ src > dst
    BY <2>1, <1>1, <1>3
  <2>3. ASSUME NEW q \in (src + w)..((src + w + 1) - 1) PROVE q \in DOMAIN m /\ q \notin dst..((dst + w) - 1)
    <3>1. q = src + w
      BY <1>1, <2>2
    <3>2. q \in src..((src + size) - 1) /\ q \notin dst..((dst + w) - 1)
      BY <3>1, <2>2, <1>1
    <3> QED BY <3>2, <1>1
  <2>4. dst \in Int /\ src \in Int
    BY <1>1
  <2>5. Strs!Moved(Strs!Moved(m, dst, src, w), dst + w, src + w, 1) = Strs!Moved(m, dst, src, w + 1)
    BY <1>2, <2>2, <2>3, <2>4, MovedMore
  <2>6. AfterPasses(m, dst, src, size, upwards, w) = Strs!Moved(m, dst, src, w)
    BY <1>3 DEF AfterPasses
  <2>7. AfterPasses(m, dst, src, size, upwards, k) = Strs!Moved(m, dst, src, k)
    BY <1>3 DEF AfterPasses
  <2> QED BY <2>1, <2>2, <2>5, <2>6, <2>7, <1>3 DEF OnePass
<1>4. CASE ~upwards
  <2>1. PICK w, to, at : w = k - 1 /\ to = dst + size - k /\ at = src + size - k
    OBVIOUS
  <2>2. /\ w \in Nat /\ w + 1 = k /\ to \in Int /\ at \in Nat /\ at <= to
        /\ dst + size - w = to + 1 /\ src + size - w = at + 1 /\ src <= dst
    BY <2>1, <1>1, <1>4
  <2>3. at \in DOMAIN m /\ at \notin (to + 1)..(to + w)
    <3>1. at \in src..((src + size) - 1)
      BY <2>1, <1>1
    <3>2. at \notin (to + 1)..(to + w)
      BY <2>2
    <3> QED BY <3>1, <3>2, <1>1
  <2>4. Strs!Moved(Strs!Moved(m, to + 1, at + 1, w), to, at, 1) = Strs!Moved(m, to, at, w + 1)
    BY <1>2, <2>2, <2>3, MovedLess
  <2>5. AfterPasses(m, dst, src, size, upwards, w) = Strs!Moved(m, to + 1, at + 1, w)
    BY <1>4, <2>2 DEF AfterPasses
  <2>6. AfterPasses(m, dst, src, size, upwards, k) = Strs!Moved(m, to, at, k)
    BY <1>4, <2>1 DEF AfterPasses
  <2> QED BY <2>1, <2>2, <2>4, <2>5, <2>6, <1>4 DEF OnePass
<1> QED BY <1>3, <1>4

(* memmove moves the block, however the two overlap.                        *)
LEMMA MemmoveMoves ==
  ASSUME NEW m, NEW V, NEW dst, NEW src, NEW size, InMemory(m, V, dst, src, size)
  PROVE  Strs!memmove(m, dst, src, size) = Strs!Moved(m, dst, src, size)
<1>1. dst \in Nat /\ src \in Nat /\ size \in Nat /\ m \in [DOMAIN m -> V]
  BY DEF InMemory
<1>2. PICK n, up : n = size /\ up \in BOOLEAN /\ (up <=> src > dst)
  <2>1. \E up \in BOOLEAN : up <=> src > dst
    OBVIOUS
  <2> QED BY <2>1
<1>3. n \in Nat /\ up \in BOOLEAN /\ (up <=> src > dst)
  BY <1>1, <1>2
<1> DEFINE R(k) == AfterPasses(m, dst, src, size, up, k)
           G == [k \in 0..n |-> {R(k)}]
           step == [k \in 1..n |-> [u \in G[k - 1] |-> OnePass(u, dst, src, size, up, k)]]
           Law(f) == f = [k \in 0..n |-> IF k = 0 THEN m ELSE OnePass(f[k - 1], dst, src, size, up, k)]
           Spelled(f) == f = [k \in 0..size |->
                                IF k = 0 THEN m
                                ELSE IF src > dst THEN Strs!Moved(f[k - 1], dst + k - 1, src + k - 1, 1)
                                     ELSE Strs!Moved(f[k - 1], dst + size - k, src + size - k, 1)]
<1>4. R(0) = m
  <2>1. dst \in Int /\ src \in Int /\ dst + size - 0 \in Int /\ src + size - 0 \in Int
    BY <1>1
  <2>2. Strs!Moved(m, dst, src, 0) = m /\ Strs!Moved(m, dst + size - 0, src + size - 0, 0) = m
    BY <2>1, <1>1, MovedNothing
  <2> QED BY <2>2 DEF AfterPasses
<1>5. \A k \in 1..n : OnePass(R(k - 1), dst, src, size, up, k) = R(k)
  <2> TAKE k \in 1..n
  <2>1. k \in 1..size
    BY <1>2
  <2> QED BY <2>1, <1>3, PassMoves
<1> HIDE DEF R
<1>6. \A k \in 1..n : \A u \in G[k - 1] : OnePass(u, dst, src, size, up, k) \in G[k]
  <2> TAKE k \in 1..n
  <2>1. k \in 0..n /\ k - 1 \in 0..n
    BY <1>3
  <2> QED BY <2>1, <1>5
<1>7. m \in G[0]
  BY <1>3, <1>4
<1>8. \E f : Law(f)
  <2>1. \A k \in 1..n : \A u \in G[k - 1] : step[k][u] = OnePass(u, dst, src, size, up, k)
    OBVIOUS
  <2> HIDE DEF G, step
  <2>2. IsLoop(n, G, m, step)
    BY <1>6, <1>7, <2>1 DEF IsLoop
  <2>3. PICK c : IsRun(c, n, G, m, step)
    BY <2>2, <1>3, LoopExists
  <2>4. \A k \in 0..n : c[k] = IF k = 0 THEN m ELSE OnePass(c[k - 1], dst, src, size, up, k)
    <3>1. \A k \in 0..n : k # 0 => k \in 1..n /\ k - 1 \in 0..n
      BY <1>3
    <3> QED BY <3>1, <2>1, <2>3 DEF IsRun
  <2>5. Law(c)
    BY <2>3, <2>4 DEF IsRun
  <2> QED BY <2>5
<1>9. \A f : Law(f) <=> Spelled(f)
  <2> TAKE f
  <2>1. ASSUME NEW k \in 0..n
        PROVE  OnePass(f[k - 1], dst, src, size, up, k)
                 = IF src > dst THEN Strs!Moved(f[k - 1], dst + k - 1, src + k - 1, 1)
                   ELSE Strs!Moved(f[k - 1], dst + size - k, src + size - k, 1)
    BY <1>2 DEF OnePass
  <2> QED BY <2>1, <1>2
<1>10. PICK f : f = (CHOOSE h : Spelled(h)) /\ Law(f)
  <2> HIDE DEF Law, Spelled
  <2> QED BY <1>8, <1>9
<1>11. Strs!memmove(m, dst, src, size) = f[size]
  BY <1>10 DEF Strs!memmove, Strs!MovedBytes
<1>12. f[n] \in G[n]
  <2>1. f[0] = m /\ \A k \in 1..n : f[k] = OnePass(f[k - 1], dst, src, size, up, k)
    <3>1. \A k \in 0..n : f[k] = IF k = 0 THEN m ELSE OnePass(f[k - 1], dst, src, size, up, k)
      BY <1>10
    <3>2. 0 \in 0..n /\ \A k \in 1..n : k \in 0..n /\ k # 0
      BY <1>3
    <3> QED BY <3>1, <3>2
  <2> HIDE DEF G, Law
  <2>2. \A k \in 1..n : f[k - 1] \in G[k - 1] => f[k] \in G[k]
    BY <2>1, <1>6
  <2> QED BY <2>1, <2>2, <1>3, <1>7, LoopLeads
<1>13. f[n] = R(n)
  BY <1>12, <1>3
<1>14. R(n) = Strs!Moved(m, dst, src, size)
  <2>1. dst + size - size = dst /\ src + size - size = src
    BY <1>1
  <2> QED BY <2>1, <1>2 DEF AfterPasses, R
<1> QED BY <1>2, <1>11, <1>13, <1>14

(* How many bytes k pieces are, of which the first wide are of eight.       *)
Taken8(wide, k) == IF k <= wide THEN 8 * k ELSE 8 * wide + (k - wide)

(* The pieces follow one another, and are the whole block.                  *)
ArePieces(pieces, n, wide, size) ==
  /\ n = Len(pieces) /\ n \in Nat /\ wide \in 0..n /\ Taken8(wide, n) = size
  /\ \A k \in 1..n : /\ pieces[k].at = Taken8(wide, k - 1)
                     /\ pieces[k].width = IF k <= wide THEN 8 ELSE 1

(* The pieces of memcpy, with words or without them.                        *)
LEMMA PiecesAre ==
  ASSUME NEW dst \in Nat, NEW src \in Nat, NEW size \in Nat
  PROVE  \E n, wide : ArePieces(Strs!Pieces(dst, src, size), n, wide, size)
<1>1. PICK w : w = IF size > 8 /\ dst % 4 = 0 /\ src % 4 = 0 THEN size \div 8 ELSE 0
  OBVIOUS
<1>2. w \in Nat /\ 8 * w <= size
  <2>1. size \div 8 \in Nat /\ size % 8 \in 0..7 /\ size = (8 * (size \div 8)) + (size % 8)
    <3>1. 8 \in Nat \ {0} /\ 8 - 1 = 7
      OBVIOUS
    <3> QED BY <3>1, Divided
  <2>2. 8 * (size \div 8) <= size
    BY <2>1
  <2> QED BY <2>1, <2>2, <1>1
<1>3. PICK v, n : v = size - 8 * w /\ n = w + v
  OBVIOUS
<1>4. v \in Nat /\ n \in Nat /\ w \in 0..n
  BY <1>2, <1>3
<1>5. PICK a, b : /\ a = [i \in 1..w |-> [at |-> 8 * (i - 1), width |-> 8]]
                  /\ b = [i \in 1..v |-> [at |-> 8 * w + i - 1, width |-> 1]]
  OBVIOUS
<1>6. PICK pieces : pieces = a \o b
  OBVIOUS
<1>7. Strs!Pieces(dst, src, size) = pieces
  BY <1>1, <1>3, <1>5, <1>6 DEF Strs!Pieces
<1> DEFINE T == [at : Int, width : Int]
<1>8. a \in Seq(T) /\ Len(a) = w /\ b \in Seq(T) /\ Len(b) = v
  <2>1. a \in [1..w -> T] /\ b \in [1..v -> T]
    BY <1>2, <1>4, <1>5
  <2> HIDE DEF T
  <2> QED BY <2>1, <1>2, <1>4, IsASeq, LenProperties
<1>9. /\ Len(pieces) = n
      /\ \A k \in 1..n : pieces[k] = IF k <= w THEN a[k] ELSE b[k - w]
  <2> HIDE DEF T
  <2>1. Len(a \o b) = Len(a) + Len(b)
        /\ \A k \in 1..(Len(a) + Len(b)) : (a \o b)[k] = IF k <= Len(a) THEN a[k] ELSE b[k - Len(a)]
    BY <1>8, ConcatProperties
  <2> QED BY <2>1, <1>3, <1>6, <1>8
<1>10. Taken8(w, n) = size
  BY <1>2, <1>3, <1>4 DEF Taken8
<1>11. ASSUME NEW k \in 1..n PROVE pieces[k].at = Taken8(w, k - 1) /\ pieces[k].width = IF k <= w THEN 8 ELSE 1
  <2>1. CASE k <= w
    <3>1. k \in 1..w /\ Taken8(w, k - 1) = 8 * (k - 1)
      BY <2>1, <1>2, <1>4 DEF Taken8
    <3>2. pieces[k] = [at |-> 8 * (k - 1), width |-> 8]
      BY <3>1, <2>1, <1>5, <1>9
    <3> QED BY <3>1, <3>2, <2>1
  <2>2. CASE ~(k <= w)
    <3>1. PICK i : i = k - w
      OBVIOUS
    <3>2. i \in 1..v
      BY <3>1, <2>2, <1>2, <1>3, <1>4
    <3>3. Taken8(w, k - 1) = 8 * w + i - 1
      <4>1. CASE k - 1 <= w
        BY <4>1, <3>1, <2>2, <1>2, <1>4 DEF Taken8
      <4>2. CASE ~(k - 1 <= w)
        BY <4>2, <3>1, <2>2, <1>2, <1>4 DEF Taken8
      <4> QED BY <4>1, <4>2
    <3>4. pieces[k] = [at |-> 8 * w + i - 1, width |-> 1]
      BY <3>1, <3>2, <2>2, <1>5, <1>9
    <3> QED BY <3>3, <3>4, <2>2
  <2> QED BY <2>1, <2>2
<1>12. ArePieces(pieces, n, w, size)
  BY <1>4, <1>9, <1>10, <1>11 DEF ArePieces
<1> QED BY <1>7, <1>12

(* A piece more.                                                            *)
LEMMA Taken8Fact ==
  ASSUME NEW n \in Nat, NEW wide \in 0..n, NEW size, Taken8(wide, n) = size, NEW k \in 1..n
  PROVE  /\ Taken8(wide, k - 1) \in Nat /\ Taken8(wide, k) \in Nat /\ Taken8(wide, k) <= size
         /\ Taken8(wide, k) = Taken8(wide, k - 1) + IF k <= wide THEN 8 ELSE 1
<1>1. CASE k <= wide
  BY <1>1 DEF Taken8
<1>2. CASE ~(k <= wide)
  <2>1. CASE k - 1 <= wide
    BY <2>1, <1>2 DEF Taken8
  <2>2. CASE ~(k - 1 <= wide)
    BY <2>2, <1>2 DEF Taken8
  <2> QED BY <2>1, <2>2
<1> QED BY <1>1, <1>2

(* memcpy moves the block when the two do not overlap.                      *)
LEMMA MemcpyMoves ==
  ASSUME NEW m, NEW V, NEW dst, NEW src, NEW size, InMemory(m, V, dst, src, size),
         dst + size <= src \/ src + size <= dst
  PROVE  Strs!memcpy(m, dst, src, size) = Strs!Moved(m, dst, src, size)
<1>1. /\ dst \in Nat /\ src \in Nat /\ size \in Nat /\ m \in [DOMAIN m -> V] /\ DOMAIN m \subseteq Int
      /\ \A q \in src..((src + size) - 1) : q \in DOMAIN m
  BY DEF InMemory
<1>2. PICK pieces : pieces = Strs!Pieces(dst, src, size)
  OBVIOUS
<1>3. PICK n, wide : ArePieces(pieces, n, wide, size)
  BY <1>1, <1>2, PiecesAre
<1>4. /\ n = Len(pieces) /\ n \in Nat /\ wide \in 0..n /\ Taken8(wide, n) = size
      /\ \A k \in 1..n : /\ pieces[k].at = Taken8(wide, k - 1)
                         /\ pieces[k].width = IF k <= wide THEN 8 ELSE 1
  BY <1>3 DEF ArePieces
<1> DEFINE R(k) == Strs!Moved(m, dst, src, Taken8(wide, k))
           Pass(u, k) == Strs!Moved(u, dst + pieces[k].at, src + pieces[k].at, pieces[k].width)
           G == [k \in 0..n |-> {R(k)}]
           step == [k \in 1..n |-> [u \in G[k - 1] |-> Pass(u, k)]]
           Law(f) == f = [k \in 0..n |-> IF k = 0 THEN m ELSE Pass(f[k - 1], k)]
<1>5. R(0) = m
  <2>1. dst \in Int /\ src \in Int /\ Taken8(wide, 0) = 0
    BY <1>1, <1>4 DEF Taken8
  <2> QED BY <2>1, <1>1, MovedNothing
<1>6. \A k \in 1..n : Pass(R(k - 1), k) = R(k)
  <2> TAKE k \in 1..n
  <2>1. PICK w, v : w = Taken8(wide, k - 1) /\ v = IF k <= wide THEN 8 ELSE 1
    OBVIOUS
  <2>2. w \in Nat /\ v \in Nat /\ Taken8(wide, k) = w + v /\ w + v <= size
    <3>1. v \in Nat
      BY <2>1
    <3>2. w \in Nat /\ Taken8(wide, k) <= size /\ Taken8(wide, k) = w + v
      BY <2>1, <1>4, Taken8Fact
    <3> QED BY <3>1, <3>2
  <2>3. pieces[k].at = w /\ pieces[k].width = v
    BY <2>1, <1>4
  <2>4. ASSUME NEW q \in (src + w)..((src + w + v) - 1) PROVE q \in DOMAIN m /\ q \notin dst..((dst + w) - 1)
    <3>1. q \in src..((src + size) - 1) /\ q \notin dst..((dst + w) - 1)
      BY <2>2, <1>1
    <3> QED BY <3>1, <1>1
  <2>5. Strs!Moved(Strs!Moved(m, dst, src, w), dst + w, src + w, v) = Strs!Moved(m, dst, src, w + v)
    <3>1. dst \in Int /\ src \in Int
      BY <1>1
    <3> QED BY <3>1, <2>2, <2>4, <1>1, MovedMore
  <2> QED BY <2>1, <2>2, <2>3, <2>5
<1> HIDE DEF R, Pass
<1>7. \A k \in 1..n : \A u \in G[k - 1] : Pass(u, k) \in G[k]
  <2> TAKE k \in 1..n
  <2>1. k \in 0..n /\ k - 1 \in 0..n
    BY <1>4
  <2> QED BY <2>1, <1>6
<1>8. m \in G[0]
  BY <1>4, <1>5
<1>9. \E f : Law(f)
  <2>1. \A k \in 1..n : \A u \in G[k - 1] : step[k][u] = Pass(u, k)
    OBVIOUS
  <2> HIDE DEF G, step
  <2>2. IsLoop(n, G, m, step)
    BY <1>7, <1>8, <2>1 DEF IsLoop
  <2>3. PICK c : IsRun(c, n, G, m, step)
    BY <2>2, <1>4, LoopExists
  <2>4. \A k \in 0..n : c[k] = IF k = 0 THEN m ELSE Pass(c[k - 1], k)
    <3>1. \A k \in 0..n : k # 0 => k \in 1..n /\ k - 1 \in 0..n
      BY <1>4
    <3> QED BY <3>1, <2>1, <2>3 DEF IsRun
  <2>5. Law(c)
    BY <2>3, <2>4 DEF IsRun
  <2> QED BY <2>5
<1>10. PICK f : f = (CHOOSE h : Law(h)) /\ Law(f)
  <2> HIDE DEF Law
  <2> QED BY <1>9
<1>11. Strs!memcpy(m, dst, src, size) = f[n]
  BY <1>2, <1>4, <1>10 DEF Strs!memcpy, Pass
<1>12. f[n] \in G[n]
  <2>1. f[0] = m /\ \A k \in 1..n : f[k] = Pass(f[k - 1], k)
    <3>1. \A k \in 0..n : f[k] = IF k = 0 THEN m ELSE Pass(f[k - 1], k)
      BY <1>10
    <3>2. 0 \in 0..n /\ \A k \in 1..n : k \in 0..n /\ k # 0
      BY <1>4
    <3> QED BY <3>1, <3>2
  <2> HIDE DEF G, Law
  <2>2. \A k \in 1..n : f[k - 1] \in G[k - 1] => f[k] \in G[k]
    BY <2>1, <1>7
  <2> QED BY <2>1, <2>2, <1>4, <1>8, LoopLeads
<1>13. f[n] = R(n)
  BY <1>12, <1>4
<1> QED BY <1>4, <1>11, <1>13 DEF R

(* The characters of a text and the NUL behind it, from 0 on.               *)
At(t, i) == IF i < Len(t) THEN t[i + 1] ELSE 0

(* What is before the limit.                                                *)
LEMMA FirstFact ==
  ASSUME NEW a \in Seq(Nat), NEW n \in Nat
  PROVE  /\ FirstOf(a, n) \in Seq(Nat)
         /\ Len(FirstOf(a, n)) = IF n < Len(a) THEN n ELSE Len(a)
         /\ \A i \in 1..Len(FirstOf(a, n)) : FirstOf(a, n)[i] = a[i]
<1>1. Len(a) \in Nat
  BY LenProperties
<1>2. CASE n < Len(a)
  <2>1. PICK t : t = SubSeq(a, 1, n)
    OBVIOUS
  <2>2. \A k \in 1..n : k \in 1..Len(a)
    BY <1>1, <1>2
  <2>3. \A k \in 1..n : a[k] \in Nat
    BY <2>2, ElementOfSeq
  <2>4. 1 \in Int /\ n \in Int
    OBVIOUS
  <2>5. /\ t \in Seq(Nat) /\ Len(t) = IF 1 <= n THEN n - 1 + 1 ELSE 0
        /\ \A i \in 1..(n - 1 + 1) : t[i] = a[1 + i - 1]
    BY <2>1, <2>3, <2>4, SubSeqProperties
  <2>6. Len(t) = n
    BY <2>5
  <2>7. \A i \in 1..n : t[i] = a[i]
    <3>1. \A i \in 1..n : i \in 1..(n - 1 + 1) /\ 1 + i - 1 = i
      OBVIOUS
    <3> QED BY <3>1, <2>5
  <2>8. FirstOf(a, n) = t
    BY <2>1, <1>2 DEF FirstOf
  <2> QED BY <2>5, <2>6, <2>7, <2>8, <1>2
<1>3. CASE ~(n < Len(a))
  <2>1. FirstOf(a, n) = a
    BY <1>3 DEF FirstOf
  <2> QED BY <2>1, <1>3
<1> QED BY <1>2, <1>3

(* The texts have the same k characters, and then the first is behind.      *)
IsSooner(a, b, n, k) ==
  /\ k \in Nat /\ k < n /\ k <= Len(a) /\ k <= Len(b) /\ \A j \in 1..k : a[j] = b[j]
  /\ At(a, k) < At(b, k)

(* Then it is the first in the order, up to any limit that is not before.   *)
LEMMA SoonerFact ==
  ASSUME NEW a \in Seq(Nat), NEW b \in Seq(Nat), NEW n \in Nat, NEW k, IsSooner(a, b, n, k)
  PROVE  Sooner(FirstOf(a, n), FirstOf(b, n)) /\ ~Sooner(FirstOf(b, n), FirstOf(a, n))
<1>1. PICK c, d, l, h, p, q : /\ c = FirstOf(a, n) /\ d = FirstOf(b, n) /\ l = Len(a) /\ h = Len(b)
                              /\ p = Len(c) /\ q = Len(d)
  OBVIOUS
<1>2. l \in Nat /\ h \in Nat /\ (\A i \in 1..l : a[i] \in Nat) /\ \A i \in 1..h : b[i] \in Nat
  BY <1>1, LenProperties, ElementOfSeq
<1>3. p = (IF n < l THEN n ELSE l) /\ \A i \in 1..p : c[i] = a[i]
  BY <1>1, FirstFact
<1>4. q = (IF n < h THEN n ELSE h) /\ \A i \in 1..q : d[i] = b[i]
  BY <1>1, FirstFact
<1>5. /\ k \in Nat /\ k < n /\ k <= l /\ k <= h /\ \A j \in 1..k : a[j] = b[j]
      /\ At(a, k) < At(b, k)
  BY <1>1 DEF IsSooner
<1>6. At(a, k) = (IF k < l THEN a[k + 1] ELSE 0) /\ At(b, k) = IF k < h THEN b[k + 1] ELSE 0
  BY <1>1 DEF At
<1>7. k < l => a[k + 1] \in Nat
  BY <1>2, <1>5
<1>8. k < h
  <2>1. CASE k < h
    BY <2>1
  <2>2. CASE ~(k < h)
    BY <2>2, <1>5, <1>6, <1>7
  <2> QED BY <2>1, <2>2
<1>9. p \in Nat /\ q \in Nat /\ k <= p /\ k + 1 <= q /\ p <= l /\ q <= h /\ (k < l <=> k < p) /\ b[k + 1] \in Nat
  BY <1>2, <1>3, <1>4, <1>5, <1>8
<1>10. k < l => a[k + 1] < b[k + 1]
  BY <1>5, <1>6, <1>8
<1>11. Sooner(c, d)
  <2>1. PICK i : i = k + 1
    OBVIOUS
  <2>2. i \in 1..q /\ i <= p + 1
    BY <2>1, <1>5, <1>9
  <2>3. ASSUME NEW j \in 1..(i - 1) PROVE c[j] = d[j]
    <3>1. j \in 1..k /\ j \in 1..p /\ j \in 1..q
      BY <2>1, <1>5, <1>9
    <3> QED BY <3>1, <1>3, <1>4, <1>5
  <2>4. i > p \/ c[i] < d[i]
    <3>1. CASE k < p
      <4>1. i \in 1..p /\ i \in 1..q
        BY <3>1, <2>1, <1>5, <1>9
      <4>2. c[i] = a[k + 1] /\ d[i] = b[k + 1]
        BY <4>1, <2>1, <1>3, <1>4
      <4> QED BY <3>1, <4>2, <1>9, <1>10
    <3>2. CASE ~(k < p)
      BY <3>2, <2>1, <1>5, <1>9
    <3> QED BY <3>1, <3>2
  <2> QED BY <2>2, <2>3, <2>4, <1>1 DEF Sooner
<1>12. ~Sooner(d, c)
  <2> SUFFICES ASSUME Sooner(d, c) PROVE FALSE
    OBVIOUS
  <2>1. PICK i \in 1..p : /\ i <= q + 1 /\ \A j \in 1..(i - 1) : d[j] = c[j]
                          /\ i > q \/ d[i] < c[i]
    BY <1>1 DEF Sooner
  <2>2. i \in Nat /\ 1 <= i /\ i <= p
    BY <1>9
  <2>3. CASE i <= k
    <3>5. i <= q /\ i <= h /\ i <= l
      BY <2>2, <2>3, <1>2, <1>5, <1>9
    <3>1. i \in 1..k /\ i \in 1..p /\ i \in 1..q /\ i \in 1..h /\ i \in 1..l
      BY <2>2, <2>3, <3>5, <1>2, <1>5, <1>9
    <3>2. d[i] = b[i] /\ c[i] = a[i] /\ a[i] = b[i] /\ a[i] \in Nat
      BY <3>1, <1>2, <1>3, <1>4, <1>5
    <3>3. ~(i > q)
      BY <3>5, <2>2, <1>9
    <3> QED BY <3>2, <3>3, <2>1
  <2>4. CASE i = k + 1
    <3>1. i \in 1..p /\ i \in 1..q /\ k < l /\ ~(i > q)
      BY <2>2, <2>4, <1>5, <1>9
    <3>2. d[i] = b[k + 1] /\ c[i] = a[k + 1]
      BY <3>1, <2>4, <1>3, <1>4
    <3> QED BY <3>1, <3>2, <2>1, <1>7, <1>9, <1>10
  <2>5. CASE i > k + 1
    <3>1. PICK j : j = k + 1
      OBVIOUS
    <3>2. j \in 1..(i - 1) /\ j \in 1..p /\ j \in 1..q /\ k < l
      BY <3>1, <2>2, <2>5, <1>5, <1>9
    <3>3. d[j] = b[k + 1] /\ c[j] = a[k + 1] /\ d[j] = c[j]
      BY <3>1, <3>2, <2>1, <1>3, <1>4
    <3> QED BY <3>2, <3>3, <1>7, <1>9, <1>10
  <2> QED BY <2>2, <2>3, <2>4, <2>5, <1>5
<1> QED BY <1>1, <1>11, <1>12

(* A text is not before itself.                                             *)
LEMMA NotSooner ==
  ASSUME NEW a \in Seq(Nat)
  PROVE  ~Sooner(a, a)
<1> SUFFICES ASSUME Sooner(a, a) PROVE FALSE
  OBVIOUS
<1>1. PICK i \in 1..Len(a) : i > Len(a) \/ a[i] < a[i]
  BY DEF Sooner
<1>2. Len(a) \in Nat /\ a[i] \in Nat /\ i \in Nat /\ i <= Len(a)
  BY LenProperties, ElementOfSeq
<1> QED BY <1>1, <1>2

(* Of a whole text and its NUL, what is before it is in the order alike.    *)
LEMMA WholeOrder ==
  ASSUME NEW a \in Seq(Nat), NEW b \in Seq(Nat), NEW n, n = Len(a) + 1
  PROVE  /\ Sooner(FirstOf(a, n), FirstOf(b, n)) <=> Sooner(a, b)
         /\ Sooner(FirstOf(b, n), FirstOf(a, n)) <=> Sooner(b, a)
<1>1. PICK d, l, h, q : /\ d = FirstOf(b, n) /\ l = Len(a) /\ h = Len(b) /\ q = Len(d)
  OBVIOUS
<1>2. l \in Nat /\ h \in Nat /\ n \in Nat /\ n = l + 1
  BY <1>1, LenProperties
<1>3. FirstOf(a, n) = a
  <2>1. ~(n < Len(a))
    BY <1>1, <1>2
  <2> QED BY <2>1 DEF FirstOf
<1>4. q = (IF n < h THEN n ELSE h) /\ \A i \in 1..q : d[i] = b[i]
  BY <1>1, <1>2, FirstFact
<1>5. q \in Nat /\ q <= h
  BY <1>2, <1>4
<1>6. Sooner(a, d) => Sooner(a, b)
  <2> SUFFICES ASSUME Sooner(a, d) PROVE Sooner(a, b)
    OBVIOUS
  <2>1. PICK i \in 1..q : /\ i <= l + 1 /\ \A j \in 1..(i - 1) : a[j] = d[j]
                          /\ i > l \/ a[i] < d[i]
    BY <1>1 DEF Sooner
  <2>2. i \in 1..h /\ \A j \in 1..(i - 1) : j \in 1..q
    BY <1>2, <1>5
  <2>3. d[i] = b[i] /\ \A j \in 1..(i - 1) : d[j] = b[j]
    BY <2>2, <1>4
  <2> QED BY <2>1, <2>2, <2>3, <1>1 DEF Sooner
<1>7. Sooner(a, b) => Sooner(a, d)
  <2> SUFFICES ASSUME Sooner(a, b) PROVE Sooner(a, d)
    OBVIOUS
  <2>1. PICK i \in 1..h : /\ i <= l + 1 /\ \A j \in 1..(i - 1) : a[j] = b[j]
                          /\ i > l \/ a[i] < b[i]
    BY <1>1 DEF Sooner
  <2>2. i \in 1..q /\ \A j \in 1..(i - 1) : j \in 1..q
    BY <2>1, <1>2, <1>4, <1>5
  <2>3. d[i] = b[i] /\ \A j \in 1..(i - 1) : d[j] = b[j]
    BY <2>2, <1>4
  <2> QED BY <2>1, <2>2, <2>3, <1>1 DEF Sooner
<1>8. Sooner(d, a) => Sooner(b, a)
  <2> SUFFICES ASSUME Sooner(d, a) PROVE Sooner(b, a)
    OBVIOUS
  <2>1. PICK i \in 1..l : /\ i <= q + 1 /\ \A j \in 1..(i - 1) : d[j] = a[j]
                          /\ i > q \/ d[i] < a[i]
    BY <1>1 DEF Sooner
  <2>2. i <= h + 1 /\ (i > q => i > h) /\ \A j \in 1..(i - 1) : j \in 1..q
    BY <2>1, <1>2, <1>4, <1>5
  <2>3. (i > h \/ d[i] = b[i]) /\ \A j \in 1..(i - 1) : d[j] = b[j]
    BY <2>1, <2>2, <1>4, <1>5
  <2> QED BY <2>1, <2>2, <2>3, <1>1 DEF Sooner
<1>9. Sooner(b, a) => Sooner(d, a)
  <2> SUFFICES ASSUME Sooner(b, a) PROVE Sooner(d, a)
    OBVIOUS
  <2>1. PICK i \in 1..l : /\ i <= h + 1 /\ \A j \in 1..(i - 1) : b[j] = a[j]
                          /\ i > h \/ b[i] < a[i]
    BY <1>1 DEF Sooner
  <2>2. i <= q + 1 /\ (i > h => i > q) /\ \A j \in 1..(i - 1) : j \in 1..q
    BY <2>1, <1>2, <1>4, <1>5
  <2>3. (i > q \/ d[i] = b[i]) /\ \A j \in 1..(i - 1) : d[j] = b[j]
    BY <2>1, <2>2, <1>4, <1>5
  <2> QED BY <2>1, <2>2, <2>3, <1>1 DEF Sooner
<1> QED BY <1>1, <1>3, <1>6, <1>7, <1>8, <1>9

(* A table of characters, which maps NUL and no other to 0.                 *)
IsTable(f) == f \in [0..255 -> 0..255] /\ \A c \in 0..255 : f[c] = 0 <=> c = 0

(* A text as a table shows it.                                              *)
Shown(t, f) == [i \in DOMAIN t |-> f[t[i]]]

(* The bytes of a text in memory, through a table.                          *)
ReadAs(m, s, f, x, l) ==
  /\ x \in Seq(Nat) /\ l \in Nat /\ Len(x) = l
  /\ \A i \in 0..l : /\ f[m[s + i]] = At(x, i) /\ At(x, i) \in Nat
                      /\ (f[m[s + i]] = 0 <=> i = l) /\ (m[s + i] = 0 <=> i = l)

(* A table reads the text that it shows.                                    *)
LEMMA ShownFact ==
  ASSUME NEW m, NEW s, NEW t, AtText(m, s, t), NEW f, IsTable(f)
  PROVE  ReadAs(m, s, f, Shown(t, f), Len(t))
<1>1. PICK l, g : l = Len(t) /\ g = Shown(t, f)
  OBVIOUS
<1>2. /\ s \in Nat /\ l \in Nat /\ t \in [1..l -> 1..255] /\ m[s + l] = 0
      /\ \A p \in s..((s + l) - 1) : m[p] = t[p - s + 1]
  <2>1. s \in Nat /\ t \in Seq(Characters)
    BY DEF AtText
  <2>2. l \in Nat /\ t \in [1..l -> 1..255]
    BY <2>1, <1>1, LenProperties DEF Characters
  <2>3. m[s + l] = 0 /\ \A p \in s..((s + l) - 1) : m[p] = t[p - s + 1]
    BY <1>1 DEF AtText
  <2> QED BY <2>1, <2>2, <2>3
<1>3. g = [i \in 1..l |-> f[t[i]]]
  BY <1>1, <1>2 DEF Shown
<1>4. \A i \in 1..l : f[t[i]] \in 1..255
  <2> TAKE i \in 1..l
  <2>1. PICK c \in 1..255 : c = t[i]
    BY <1>2
  <2>2. c \in 0..255 /\ c # 0
    OBVIOUS
  <2>3. f[c] \in 0..255 /\ f[c] # 0
    BY <2>2 DEF IsTable
  <2> QED BY <2>1, <2>3
<1>5. g \in Seq(Nat) /\ Len(g) = l
  <2>2. \A i \in 1..l : f[t[i]] \in Nat
    BY <1>4
  <2>1. g \in [1..l -> Nat]
    BY <1>3, <2>2
  <2> QED BY <2>1, <1>2, IsASeq, LenProperties
<1>6. ASSUME NEW i \in 0..l
      PROVE  /\ f[m[s + i]] = At(g, i) /\ (f[m[s + i]] = 0 <=> i = l) /\ (m[s + i] = 0 <=> i = l)
             /\ At(g, i) \in Nat
  <2>1. CASE i = l
    <3>1. m[s + i] = 0 /\ 0 \in 0..255
      BY <2>1, <1>2
    <3>2. f[0] = 0
      BY <3>1 DEF IsTable
    <3>3. At(g, i) = 0
      BY <2>1, <1>2, <1>5 DEF At
    <3> QED BY <2>1, <3>1, <3>2, <3>3
  <2>2. CASE i # l
    <3>1. PICK p, j : p = s + i /\ j = i + 1
      OBVIOUS
    <3>2. p \in s..((s + l) - 1) /\ p - s + 1 = j /\ j \in 1..l /\ i < l
      BY <3>1, <2>2, <1>2
    <3>3. m[p] = t[j]
      BY <3>2, <1>2
    <3>4. t[j] \in 1..255 /\ f[t[j]] \in 1..255 /\ g[j] = f[t[j]]
      BY <3>2, <1>2, <1>3, <1>4
    <3>5. At(g, i) = g[j]
      BY <3>1, <3>2, <1>5 DEF At
    <3> QED BY <2>2, <3>1, <3>3, <3>4, <3>5
  <2> QED BY <2>1, <2>2
<1> QED BY <1>1, <1>2, <1>5, <1>6 DEF ReadAs

(* Two texts with the same characters.                                      *)
LEMMA SameTexts ==
  ASSUME NEW a \in Seq(Nat), NEW b \in Seq(Nat), NEW n \in Nat, Len(a) = n, Len(b) = n,
         \A i \in 1..n : a[i] = b[i]
  PROVE  a = b
<1>1. a \in [1..n -> Nat] /\ b \in [1..n -> Nat]
  BY LenProperties
<1> QED BY <1>1

(* The places below n up to which the bytes at a and b are the same, with no *)
(* NUL, and where they part.                                                *)
Together(m, a, b, f, i) == \A j \in 0..(i - 1) : f[m[a + j]] = f[m[b + j]] /\ m[a + j] # 0
Partings(m, a, b, n, f) ==
  {i \in 0..(n - 1) : Together(m, a, b, f, i) /\ (f[m[a + i]] # f[m[b + i]] \/ m[a + i] = 0)}

(* As far as they are together, neither text is at its end.                 *)
LEMMA TogetherFact ==
  ASSUME NEW m, NEW a, NEW b, NEW s, NEW t, AtText(m, a, s), AtText(m, b, t),
         NEW f, IsTable(f), NEW i \in Nat, Together(m, a, b, f, i)
  PROVE  /\ i <= Len(s) /\ i <= Len(t)
         /\ \A j \in 1..i : Shown(s, f)[j] = Shown(t, f)[j]
<1>1. PICK l, h, x, y : l = Len(s) /\ h = Len(t) /\ x = Shown(s, f) /\ y = Shown(t, f)
  OBVIOUS
<1>2. /\ l \in Nat /\ Len(x) = l
      /\ \A j \in 0..l : f[m[a + j]] = At(x, j) /\ (f[m[a + j]] = 0 <=> j = l) /\ (m[a + j] = 0 <=> j = l)
  <2>1. ReadAs(m, a, f, x, l)
    BY <1>1, ShownFact
  <2> QED BY <2>1 DEF ReadAs
<1>3. /\ h \in Nat /\ Len(y) = h
      /\ \A j \in 0..h : f[m[b + j]] = At(y, j) /\ (f[m[b + j]] = 0 <=> j = h)
  <2>1. ReadAs(m, b, f, y, h)
    BY <1>1, ShownFact
  <2> QED BY <2>1 DEF ReadAs
<1>4. \A j \in 0..(i - 1) : f[m[a + j]] = f[m[b + j]] /\ m[a + j] # 0
  BY DEF Together
<1>5. i <= l
  <2> SUFFICES ASSUME i > l PROVE FALSE
    BY <1>2
  <2>1. l \in 0..(i - 1) /\ l \in 0..l
    BY <1>2
  <2> QED BY <2>1, <1>2, <1>4
<1>6. i <= h
  <2> SUFFICES ASSUME i > h PROVE FALSE
    BY <1>3
  <2>1. h \in 0..(i - 1) /\ h \in 0..h /\ h \in 0..l /\ h # l
    BY <1>2, <1>3, <1>5
  <2> QED BY <2>1, <1>2, <1>3, <1>4
<1>7. ASSUME NEW j \in 1..i PROVE x[j] = y[j]
  <2>1. PICK k : k = j - 1
    OBVIOUS
  <2>2. k \in 0..(i - 1) /\ k \in 0..l /\ k \in 0..h /\ k < l /\ k < h /\ k + 1 = j
    BY <2>1, <1>2, <1>3, <1>5, <1>6
  <2>3. At(x, k) = x[j] /\ At(y, k) = y[j]
    BY <2>2, <1>2, <1>3 DEF At
  <2> QED BY <2>2, <2>3, <1>2, <1>3, <1>4
<1> QED BY <1>1, <1>5, <1>6, <1>7

(* A comparison of the texts s and t, as the table f shows them, up to n.   *)
Compared(d, s, t, f, n) ==
  /\ d \in Int
  /\ AsOrdered(d, FirstOf(Shown(s, f), n), FirstOf(Shown(t, f), n))
  /\ d = 0 <=> FirstOf(Shown(s, f), n) = FirstOf(Shown(t, f), n)

(* Where two texts part is their order, and they are alike when they do     *)
(* not.                                                                     *)
LEMMA PartingFact ==
  ASSUME NEW m, NEW a, NEW b, NEW s, NEW t, AtText(m, a, s), AtText(m, b, t),
         NEW f, IsTable(f), NEW n \in Nat
  PROVE  Compared(Strs!Parting(m, a, b, n, f), s, t, f, n)
<1>1. PICK l, h, x, y, c, e : /\ l = Len(s) /\ h = Len(t) /\ x = Shown(s, f) /\ y = Shown(t, f)
                              /\ c = FirstOf(x, n) /\ e = FirstOf(y, n)
  OBVIOUS
<1>2. /\ x \in Seq(Nat) /\ l \in Nat /\ Len(x) = l /\ \A j \in 0..l : At(x, j) \in Nat
      /\ \A j \in 0..l : f[m[a + j]] = At(x, j) /\ (f[m[a + j]] = 0 <=> j = l) /\ (m[a + j] = 0 <=> j = l)
  <2>1. ReadAs(m, a, f, x, l)
    BY <1>1, ShownFact
  <2> QED BY <2>1 DEF ReadAs
<1>3. /\ y \in Seq(Nat) /\ h \in Nat /\ Len(y) = h /\ \A j \in 0..h : At(y, j) \in Nat
      /\ \A j \in 0..h : f[m[b + j]] = At(y, j) /\ (f[m[b + j]] = 0 <=> j = h)
  <2>1. ReadAs(m, b, f, y, h)
    BY <1>1, ShownFact
  <2> QED BY <2>1 DEF ReadAs
<1>4. /\ c \in Seq(Nat) /\ Len(c) = (IF n < l THEN n ELSE l) /\ \A j \in 1..Len(c) : c[j] = x[j]
  BY <1>1, <1>2, FirstFact
<1>5. /\ e \in Seq(Nat) /\ Len(e) = (IF n < h THEN n ELSE h) /\ \A j \in 1..Len(e) : e[j] = y[j]
  BY <1>1, <1>3, FirstFact
<1>6. ~Sooner(c, c) /\ ~Sooner(e, e)
  BY <1>4, <1>5, NotSooner
<1>7. PICK S : S = Partings(m, a, b, n, f)
  OBVIOUS
<1>8. S \in SUBSET Nat
  BY <1>7 DEF Partings
<1>9. PICK k, d : k = Strs!Lowest(S) /\ d = Strs!Parting(m, a, b, n, f)
  OBVIOUS
<1>10. d = IF k = Strs!Null THEN 0 ELSE f[m[a + k]] - f[m[b + k]]
  <2>1. S = {i \in 0..n - 1 :
               /\ \A j \in 0..i - 1 : f[m[a + j]] = f[m[b + j]] /\ m[a + j] # 0
               /\ f[m[a + i]] # f[m[b + i]] \/ m[a + i] = 0}
    BY <1>7 DEF Partings, Together
  <2> QED BY <2>1, <1>9 DEF Strs!Parting
<1>11. CASE S = {}
  <2>1. d = 0
    BY <1>9, <1>10, <1>11, LowestNone
  <2>2. Together(m, a, b, f, n)
    <3> DEFINE H == {i \in 0..n : Together(m, a, b, f, i)}
    <3>1. 0 \in H
      BY DEF Together
    <3>2. ASSUME NEW i \in 0..n, i \in H, i < n PROVE i + 1 \in H
      <4>1. Together(m, a, b, f, i) /\ i \in 0..(n - 1) /\ i + 1 \in 0..n
        BY <3>2
      <4>2. f[m[a + i]] = f[m[b + i]] /\ m[a + i] # 0
        BY <4>1, <1>7, <1>11 DEF Partings
      <4>3. \A j \in 0..((i + 1) - 1) : j \in 0..(i - 1) \/ j = i
        BY <4>1
      <4>4. Together(m, a, b, f, i + 1)
        BY <4>1, <4>2, <4>3 DEF Together
      <4> QED BY <4>1, <4>4
    <3>3. \A i \in 0..n : i \in H
      <4> HIDE DEF H
      <4> QED BY <3>1, <3>2, UpTo0
    <3> QED BY <3>3
  <2>3. n <= l /\ n <= h /\ \A j \in 1..n : x[j] = y[j]
    BY <2>2, <1>1, TogetherFact
  <2>4. Len(c) = n /\ Len(e) = n
    BY <2>3, <1>2, <1>3, <1>4, <1>5
  <2>5. \A j \in 1..n : c[j] = e[j]
    BY <2>3, <2>4, <1>4, <1>5
  <2>6. c = e
    BY <2>4, <2>5, <1>4, <1>5, SameTexts
  <2>8. d \in Int /\ ~(d < 0) /\ ~(d > 0)
    BY <2>1
  <2>7. Compared(d, s, t, f, n)
    BY <2>1, <2>6, <2>8, <1>1, <1>6 DEF Compared, AsOrdered
  <2> QED BY <2>7, <1>9
<1>12. CASE S # {}
  <2>1. k \in S /\ k \in Nat /\ k # Strs!Null
    BY <1>8, <1>9, <1>12, LowestFact, LowestNone
  <2>2. k < n /\ Together(m, a, b, f, k) /\ (f[m[a + k]] # f[m[b + k]] \/ m[a + k] = 0)
    BY <2>1, <1>7 DEF Partings
  <2>3. k <= l /\ k <= h /\ \A j \in 1..k : x[j] = y[j]
    BY <2>1, <2>2, <1>1, TogetherFact
  <2>4. k \in 0..l /\ k \in 0..h
    BY <2>1, <2>3, <1>2, <1>3
  <2>5. PICK v \in Nat, w \in Nat : v = At(x, k) /\ w = At(y, k)
    BY <2>4, <1>2, <1>3
  <2>6. d = v - w
    BY <2>1, <2>4, <2>5, <1>2, <1>3, <1>10
  <2>7. CASE v < w
    <3>1. IsSooner(x, y, n, k)
      BY <2>1, <2>2, <2>3, <2>5, <2>7, <1>2, <1>3 DEF IsSooner
    <3>2. Sooner(c, e) /\ ~Sooner(e, c)
      BY <3>1, <1>1, <1>2, <1>3, SoonerFact
    <3>3. c # e
      BY <3>2
    <3>4. d \in Int /\ d < 0 /\ ~(d > 0) /\ d # 0
      BY <2>6, <2>7
    <3>5. Compared(d, s, t, f, n)
      BY <3>2, <3>3, <3>4, <1>1 DEF Compared, AsOrdered
    <3> QED BY <3>5, <1>9
  <2>8. CASE w < v
    <3>1. IsSooner(y, x, n, k)
      BY <2>1, <2>2, <2>3, <2>5, <2>8, <1>2, <1>3 DEF IsSooner
    <3>2. Sooner(e, c) /\ ~Sooner(c, e)
      BY <3>1, <1>1, <1>2, <1>3, SoonerFact
    <3>3. c # e
      BY <3>2
    <3>4. d \in Int /\ d > 0 /\ ~(d < 0) /\ d # 0
      BY <2>6, <2>8
    <3>5. Compared(d, s, t, f, n)
      BY <3>2, <3>3, <3>4, <1>1 DEF Compared, AsOrdered
    <3> QED BY <3>5, <1>9
  <2>9. CASE v = w
    <3>1. m[a + k] = 0
      BY <2>2, <2>4, <2>5, <2>9, <1>2, <1>3
    <3>2. k = l /\ v = 0
      BY <3>1, <2>4, <2>5, <1>2
    <3>3. k = h
      BY <3>2, <2>4, <2>5, <2>9, <1>3
    <3>9. k < n
      BY <2>2
    <3>4. Len(c) = k /\ Len(e) = k
      <4>1. ~(n < k) /\ k \in Nat
        BY <3>9, <2>1
      <4> QED BY <4>1, <3>2, <3>3, <1>4, <1>5
    <3>5. \A j \in 1..k : c[j] = e[j]
      BY <3>4, <2>3, <1>4, <1>5
    <3>6. c = e
      BY <3>4, <3>5, <2>1, <1>4, <1>5, SameTexts
    <3>7. d = 0
      BY <2>6, <2>9
    <3>10. d \in Int /\ ~(d < 0) /\ ~(d > 0)
      BY <3>7
    <3>8. Compared(d, s, t, f, n)
      BY <3>6, <3>7, <3>10, <1>1, <1>6 DEF Compared, AsOrdered
    <3> QED BY <3>8, <1>9
  <2> QED BY <2>7, <2>8, <2>9
<1> QED BY <1>11, <1>12

(* Characters are numbers.                                                  *)
LEMMA AreNumbers ==
  ASSUME NEW t \in Seq(Characters)
  PROVE  t \in Seq(Nat)
<1>1. t \in [1..Len(t) -> 1..255] /\ Len(t) \in Nat
  BY LenProperties DEF Characters
<1>2. \A i \in 1..Len(t) : t[i] \in Nat
  <2> TAKE i \in 1..Len(t)
  <2>1. PICK c \in 1..255 : c = t[i]
    BY <1>1
  <2>2. c \in Nat
    OBVIOUS
  <2> QED BY <2>1, <2>2
<1>3. t \in [1..Len(t) -> Nat]
  BY <1>1, <1>2
<1> QED BY <1>1, <1>3, IsASeq

(* The table of stricmp.                                                    *)
AsciiLower == [c \in Strs!Byte |-> IF c \in 65..90 THEN c + 32 ELSE c]

(* The tables of the comparisons, and how they show a text.                 *)
LEMMA CaseTables == IsTable(Strs!Same) /\ IsTable(Strs!Lower) /\ IsTable(AsciiLower)
<1>1. IsTable(Strs!Same)
  <2>1. Strs!Same = [c \in 0..255 |-> c]
    BY DEF Strs!Same, Strs!Byte
  <2> QED BY <2>1 DEF IsTable
<1>2. IsTable(Strs!Lower)
  <2>1. Strs!Lower = [c \in 0..255 |-> Strs!tolower(c)]
    BY DEF Strs!Lower, Strs!Byte
  <2>2. \A c \in 0..255 : Strs!Lower[c] = Strs!tolower(c)
    BY <2>1
  <2>3. \A c \in 0..255 : Strs!Lower[c] \in 0..255 /\ (Strs!Lower[c] = 0 <=> c = 0)
    <3> TAKE c \in 0..255
    <3>1. PICK v : v = Strs!tolower(c)
      OBVIOUS
    <3>2. v \in 0..255 /\ (v = 0 <=> c = 0)
      BY <3>1 DEF Strs!tolower
    <3> QED BY <3>1, <3>2, <2>2
  <2> QED BY <2>1, <2>3 DEF IsTable
<1>3. IsTable(AsciiLower)
  <2>1. AsciiLower = [c \in 0..255 |-> IF c \in 65..90 THEN c + 32 ELSE c]
    BY DEF AsciiLower, Strs!Byte
  <2>2. \A c \in 0..255 : AsciiLower[c] = IF c \in 65..90 THEN c + 32 ELSE c
    BY <2>1
  <2>3. \A c \in 0..255 : AsciiLower[c] \in 0..255 /\ (AsciiLower[c] = 0 <=> c = 0)
    <3> TAKE c \in 0..255
    <3>1. PICK v : v = IF c \in 65..90 THEN c + 32 ELSE c
      OBVIOUS
    <3>2. v \in 0..255 /\ (v = 0 <=> c = 0)
      BY <3>1
    <3>3. AsciiLower[c] = v
      BY <3>1, <2>2
    <3> QED BY <3>2, <3>3
  <2>4. AsciiLower \in [0..255 -> 0..255]
    <3>1. \A c \in 0..255 : (IF c \in 65..90 THEN c + 32 ELSE c) \in 0..255
      OBVIOUS
    <3> QED BY <2>1, <3>1
  <2> QED BY <2>3, <2>4 DEF IsTable
<1> QED BY <1>1, <1>2, <1>3

(* What it does to a character, in the words of the property.               *)
LEMMA AsciiTable ==
  \A c \in 0..255 : AsciiLower[c] = IF Strs!isupper(c) THEN Strs!tolower(c) ELSE c
<1>1. \A c \in 0..255 : AsciiLower[c] = IF c \in 65..90 THEN c + 32 ELSE c
  BY DEF AsciiLower, Strs!Byte
<1> TAKE c \in 0..255
<1>2. PICK v : v = IF c \in 65..90 THEN c + 32 ELSE c
  OBVIOUS
<1>3. AsciiLower[c] = v
  BY <1>1, <1>2
<1>4. v = IF Strs!isupper(c) THEN Strs!tolower(c) ELSE c
  BY <1>2 DEF Strs!isupper, Strs!tolower
<1> QED BY <1>3, <1>4

(* The tables show a text as it is, and in the two kinds of lower case.     *)
LEMMA ShownAs ==
  ASSUME NEW t \in Seq(Characters)
  PROVE  /\ Shown(t, Strs!Same) = t /\ Shown(t, Strs!Lower) = Lowered(t)
         /\ Shown(t, AsciiLower) = AsciiLowered(t)
<1>1. PICK l : l = Len(t)
  OBVIOUS
<1>2. l \in Nat /\ t \in [1..l -> 1..255]
  BY <1>1, LenProperties DEF Characters
<1>3. \A i \in 1..l : t[i] \in 0..255
  BY <1>2
<1>4. \A i \in 1..l : Strs!Same[t[i]] = t[i] /\ Strs!Lower[t[i]] = Strs!tolower(t[i])
  BY <1>3 DEF Strs!Same, Strs!Lower, Strs!Byte
<1>5. \A c \in 0..255 : AsciiLower[c] = IF Strs!isupper(c) THEN Strs!tolower(c) ELSE c
  BY AsciiTable
<1>6. Shown(t, Strs!Same) = t
  BY <1>2, <1>4 DEF Shown
<1>7. Shown(t, Strs!Lower) = Lowered(t)
  BY <1>2, <1>4 DEF Shown, Lowered
<1>8. Shown(t, AsciiLower) = AsciiLowered(t)
  BY <1>2, <1>3, <1>5 DEF Shown, AsciiLowered
<1> QED BY <1>6, <1>7, <1>8

(* Compared up to beyond the end of the first, they are compared whole.     *)
LEMMA ComparedWhole ==
  ASSUME NEW m, NEW a, NEW b, NEW s, NEW t, AtText(m, a, s), AtText(m, b, t),
         NEW f, IsTable(f), NEW n, n = Len(s) + 1
  PROVE  /\ Strs!Parting(m, a, b, n, f) \in Int
         /\ AsOrdered(Strs!Parting(m, a, b, n, f), Shown(s, f), Shown(t, f))
<1>1. PICK d, x, y : d = Strs!Parting(m, a, b, n, f) /\ x = Shown(s, f) /\ y = Shown(t, f)
  OBVIOUS
<1>2. n \in Nat
  BY LenProperties DEF AtText
<1>3. ReadAs(m, a, f, x, Len(s)) /\ ReadAs(m, b, f, y, Len(t))
  BY <1>1, ShownFact
<1>4. x \in Seq(Nat) /\ y \in Seq(Nat) /\ n = Len(x) + 1
  BY <1>3 DEF ReadAs
<1>5. d \in Int /\ AsOrdered(d, FirstOf(x, n), FirstOf(y, n))
  BY <1>1, <1>2, PartingFact DEF Compared
<1>6. AsOrdered(d, x, y)
  <2>1. /\ Sooner(FirstOf(x, n), FirstOf(y, n)) <=> Sooner(x, y)
        /\ Sooner(FirstOf(y, n), FirstOf(x, n)) <=> Sooner(y, x)
    BY <1>4, WholeOrder
  <2> QED BY <2>1, <1>5 DEF AsOrdered
<1> QED BY <1>1, <1>5, <1>6

(* The comparisons of two texts.                                            *)
ComparedRight(m, p, q, a, b, n) ==
  /\ AsOrdered(Strs!strcmp(m, p, q), a, b)
  /\ AsOrdered(Strs!strncmp(m, p, q, n), FirstOf(a, n), FirstOf(b, n))
  /\ AsOrdered(Strs!strcasecmp(m, p, q), Lowered(a), Lowered(b))
  /\ AsOrdered(Strs!strncasecmp(m, p, q, n), FirstOf(Lowered(a), n), FirstOf(Lowered(b), n))
  /\ AsOrdered(Strs!stricmp(m, p, q), AsciiLowered(a), AsciiLowered(b))

(* They have the sign of the order.                                         *)
LEMMA Comparisons ==
  ASSUME NEW m \in Memories, NEW p, NEW q, NEW a, NEW b, AtText(m, p, a), AtText(m, q, b), NEW n \in Nat
  PROVE  ComparedRight(m, p, q, a, b, n)
<1>1. /\ Shown(a, Strs!Same) = a /\ Shown(a, Strs!Lower) = Lowered(a)
      /\ Shown(a, AsciiLower) = AsciiLowered(a)
  BY ShownAs DEF AtText
<1>2. /\ Shown(b, Strs!Same) = b /\ Shown(b, Strs!Lower) = Lowered(b)
      /\ Shown(b, AsciiLower) = AsciiLowered(b)
  BY ShownAs DEF AtText
<1>3. Strs!Longest(m, p, q) = Len(a) + 1
  <2>1. Strs!EndOf(m, p) = p + Len(a)
    BY TextFound
  <2>2. p \in Nat /\ Len(a) \in Nat
    BY LenProperties DEF AtText
  <2>3. Strs!strlen(m, p) = Len(a)
    BY <2>1, <2>2 DEF Strs!strlen
  <2> QED BY <2>3 DEF Strs!Longest
<1>4. AsOrdered(Strs!strcmp(m, p, q), a, b)
  <2>1. AsOrdered(Strs!Parting(m, p, q, Strs!Longest(m, p, q), Strs!Same), a, b)
    BY <1>1, <1>2, <1>3, CaseTables, ComparedWhole
  <2> QED BY <2>1 DEF Strs!strcmp
<1>5. AsOrdered(Strs!strncmp(m, p, q, n), FirstOf(a, n), FirstOf(b, n))
  <2>1. Compared(Strs!Parting(m, p, q, n, Strs!Same), a, b, Strs!Same, n)
    BY CaseTables, PartingFact
  <2> QED BY <2>1, <1>1, <1>2 DEF Strs!strncmp, Compared
<1>6. AsOrdered(Strs!strcasecmp(m, p, q), Lowered(a), Lowered(b))
  <2>1. AsOrdered(Strs!Parting(m, p, q, Strs!Longest(m, p, q), Strs!Lower), Lowered(a), Lowered(b))
    BY <1>1, <1>2, <1>3, CaseTables, ComparedWhole
  <2> QED BY <2>1 DEF Strs!strcasecmp
<1>7. AsOrdered(Strs!strncasecmp(m, p, q, n), FirstOf(Lowered(a), n), FirstOf(Lowered(b), n))
  <2>1. Compared(Strs!Parting(m, p, q, n, Strs!Lower), a, b, Strs!Lower, n)
    BY CaseTables, PartingFact
  <2> QED BY <2>1, <1>1, <1>2 DEF Strs!strncasecmp, Compared
<1>8. AsOrdered(Strs!stricmp(m, p, q), AsciiLowered(a), AsciiLowered(b))
  <2>1. PICK d : d = Strs!Parting(m, p, q, Strs!Longest(m, p, q), AsciiLower)
    OBVIOUS
  <2>2. d \in Int /\ AsOrdered(d, AsciiLowered(a), AsciiLowered(b))
    BY <2>1, <1>1, <1>2, <1>3, CaseTables, ComparedWhole
  <2>3. Strs!stricmp(m, p, q) = IF d < 0 THEN -1 ELSE IF d > 0 THEN 1 ELSE 0
    BY <2>1 DEF Strs!stricmp, AsciiLower
  <2>4. PICK r : r = IF d < 0 THEN -1 ELSE IF d > 0 THEN 1 ELSE 0
    OBVIOUS
  <2>5. (r < 0 <=> d < 0) /\ (r > 0 <=> d > 0)
    BY <2>2, <2>4
  <2>6. AsOrdered(r, AsciiLowered(a), AsciiLowered(b))
    BY <2>2, <2>5 DEF AsOrdered
  <2> QED BY <2>3, <2>4, <2>6
<1> QED BY <1>4, <1>5, <1>6, <1>7, <1>8 DEF ComparedRight

(* Bytes of memory that are those of a text and zeros behind it.            *)
IsBytes(m, p, a, n) == \A i \in 0..(n - 1) : m[p + i] = BytesOf(a, n)[i + 1]

(* As many bytes as there are asked for.                                    *)
LEMMA BytesFact ==
  ASSUME NEW a \in Seq(Characters), NEW n \in Nat
  PROVE  BytesOf(a, n) \in Seq(Nat) /\ Len(BytesOf(a, n)) = n
<1>1. Len(a) \in Nat /\ a \in [1..Len(a) -> 1..255]
  BY LenProperties DEF Characters
<1>2. \A i \in 1..n : (IF i <= Len(a) THEN a[i] ELSE 0) \in Nat
  <2> TAKE i \in 1..n
  <2>1. CASE i <= Len(a)
    <3>1. i \in 1..Len(a)
      BY <2>1, <1>1
    <3>2. PICK c \in 1..255 : c = a[i]
      BY <3>1, <1>1
    <3>3. (IF i <= Len(a) THEN a[i] ELSE 0) = a[i]
      BY <2>1
    <3>5. c \in Nat
      OBVIOUS
    <3>4. a[i] \in Nat
      BY <3>2, <3>5
    <3> QED BY <3>3, <3>4
  <2>2. CASE ~(i <= Len(a))
    BY <2>2
  <2> QED BY <2>1, <2>2
<1>3. BytesOf(a, n) \in [1..n -> Nat]
  BY <1>2 DEF BytesOf
<1> QED BY <1>3, IsASeq, LenProperties

(* memcmp has the sign of the order of the bytes.                           *)
LEMMA MemcmpCompares ==
  ASSUME NEW m, NEW p \in Nat, NEW q \in Nat, NEW a \in Seq(Characters), NEW b \in Seq(Characters),
         NEW n \in Nat, IsBytes(m, p, a, n), IsBytes(m, q, b, n)
  PROVE  AsOrdered(Strs!memcmp(m, p, q, n), BytesOf(a, n), BytesOf(b, n))
<1>1. PICK x, y : x = BytesOf(a, n) /\ y = BytesOf(b, n)
  OBVIOUS
<1>2. x \in Seq(Nat) /\ y \in Seq(Nat) /\ Len(x) = n /\ Len(y) = n
  BY <1>1, BytesFact
<1>3. FirstOf(x, n) = x /\ FirstOf(y, n) = y
  <2>1. ~(n < Len(x)) /\ ~(n < Len(y))
    BY <1>2
  <2> QED BY <2>1 DEF FirstOf
<1>4. \A i \in 0..(n - 1) : m[p + i] = x[i + 1] /\ m[q + i] = y[i + 1]
  BY <1>1 DEF IsBytes
<1>5. \A i \in 1..n : x[i] \in Nat /\ y[i] \in Nat
  BY <1>2, ElementOfSeq
<1>6. PICK S : S = {i \in 0..(n - 1) : m[p + i] # m[q + i]}
  OBVIOUS
<1>7. S \in SUBSET Nat
  BY <1>6
<1>8. PICK k, d : k = Strs!Lowest(S) /\ d = Strs!memcmp(m, p, q, n)
  OBVIOUS
<1>9. d = IF k = Strs!Null THEN 0 ELSE m[p + k] - m[q + k]
  BY <1>6, <1>8 DEF Strs!memcmp
<1>10. CASE S = {}
  <2>1. d = 0
    BY <1>8, <1>9, <1>10, LowestNone
  <2>2. ASSUME NEW i \in 1..n PROVE x[i] = y[i]
    <3>1. PICK j : j = i - 1
      OBVIOUS
    <3>2. j \in 0..(n - 1) /\ j + 1 = i
      BY <3>1
    <3> QED BY <3>2, <1>4, <1>6, <1>10
  <2>3. x = y
    BY <2>2, <1>2, SameTexts
  <2>4. ~Sooner(x, y) /\ ~Sooner(y, x)
    BY <2>3, <1>2, NotSooner
  <2>5. ~(d < 0) /\ ~(d > 0)
    BY <2>1
  <2> QED BY <2>4, <2>5, <1>1, <1>8 DEF AsOrdered
<1>11. CASE S # {}
  <2>1. k \in S /\ k \in Nat /\ k # Strs!Null /\ \A j \in S : k <= j
    BY <1>7, <1>8, <1>11, LowestFact, LowestNone
  <2>2. k \in 0..(n - 1) /\ m[p + k] # m[q + k] /\ k < n /\ k + 1 \in 1..n
    BY <2>1, <1>6
  <2>3. PICK v \in Nat, w \in Nat : v = x[k + 1] /\ w = y[k + 1]
    BY <2>2, <1>5
  <2>4. At(x, k) = v /\ At(y, k) = w
    BY <2>2, <2>3, <1>2 DEF At
  <2>5. v # w /\ d = v - w
    BY <2>1, <2>2, <2>3, <1>4, <1>9
  <2>6. ASSUME NEW i \in 1..k PROVE x[i] = y[i]
    <3>1. PICK j : j = i - 1
      OBVIOUS
    <3>2. j \in 0..(n - 1) /\ j + 1 = i /\ ~(k <= j)
      BY <3>1, <2>1, <2>2
    <3> QED BY <3>2, <2>1, <1>4, <1>6
  <2>7. k <= n
    BY <2>1, <2>2
  <2>8. CASE v < w
    <3>1. IsSooner(x, y, n, k)
      BY <2>1, <2>2, <2>4, <2>6, <2>7, <2>8, <1>2 DEF IsSooner
    <3>2. Sooner(x, y) /\ ~Sooner(y, x)
      BY <3>1, <1>2, <1>3, SoonerFact
    <3>3. d < 0 /\ ~(d > 0)
      BY <2>5, <2>8
    <3> QED BY <3>2, <3>3, <1>1, <1>8 DEF AsOrdered
  <2>9. CASE w < v
    <3>1. IsSooner(y, x, n, k)
      BY <2>1, <2>2, <2>4, <2>6, <2>7, <2>9, <1>2 DEF IsSooner
    <3>2. Sooner(y, x) /\ ~Sooner(x, y)
      BY <3>1, <1>2, <1>3, SoonerFact
    <3>3. d > 0 /\ ~(d < 0)
      BY <2>5, <2>9
    <3> QED BY <3>2, <3>3, <1>1, <1>8 DEF AsOrdered
  <2> QED BY <2>5, <2>8, <2>9
<1> QED BY <1>10, <1>11

(* strstr at a place of the text a: the text b is there.                    *)
LEMMA FoundAt ==
  ASSUME NEW m \in Memories, NEW a, NEW b, NEW q, AtText(m, 0, a), AtText(m, q, b), b # <<>>,
         NEW i \in 0..(Len(a) - Len(b))
  PROVE  (m[i] = m[q] /\ Strs!strncmp(m, i, q, Strs!strlen(m, q)) = 0)
           <=> \A j \in 1..Len(b) : a[i + j] = b[j]
<1>1. PICK l, h : l = Len(a) /\ h = Len(b)
  OBVIOUS
<1>2. /\ l \in Nat /\ h \in Nat /\ q \in Nat /\ a \in Seq(Characters) /\ b \in Seq(Characters)
      /\ a \in [1..l -> 1..255] /\ b \in [1..h -> 1..255]
      /\ \A p \in 0..((0 + l) - 1) : m[p] = a[p - 0 + 1]
      /\ \A p \in q..((q + h) - 1) : m[p] = b[p - q + 1]
      /\ m[0 + l] = 0
  <2>1. a \in Seq(Characters) /\ b \in Seq(Characters) /\ q \in Nat
    BY DEF AtText
  <2>2. l \in Nat /\ h \in Nat /\ a \in [1..l -> 1..255] /\ b \in [1..h -> 1..255]
    BY <2>1, <1>1, LenProperties DEF Characters
  <2>3. /\ \A p \in 0..((0 + l) - 1) : m[p] = a[p - 0 + 1]
        /\ \A p \in q..((q + h) - 1) : m[p] = b[p - q + 1]
        /\ m[0 + l] = 0
    BY <1>1 DEF AtText
  <2> QED BY <2>1, <2>2, <2>3
<1>3. h >= 1 /\ i \in Nat /\ i + h <= l
  <2>1. h # 0
    BY <1>1, <1>2, EmptySeq
  <2> QED BY <2>1, <1>1, <1>2
<1>4. Strs!strlen(m, q) = h
  <2>1. Strs!EndOf(m, q) = q + h
    BY <1>1, TextFound
  <2> QED BY <2>1, <1>2 DEF Strs!strlen
<1>5. PICK t : t = SubSeq(a, i + 1, l)
  OBVIOUS
<1>6. AtText(m, i, t) /\ t \in Seq(Characters) /\ Len(t) = l - i /\ \A k \in 1..(l - i) : t[k] = a[i + k]
  <2>1. IsPart(m, m, 0, a, i + 1, l, i, l)
    <3>1. 0 + (i + 1) - 1 = i /\ 0 + l = l /\ i + 1 \in Nat /\ 1 <= i + 1 /\ i + 1 <= l + 1 /\ l <= l
      BY <1>2, <1>3
    <3> QED BY <3>1, <1>1, <1>2 DEF IsPart
  <2>2. AtText(m, i, t)
    BY <2>1, <1>5, PartOfText
  <2>3. i + 1 \in 1..(Len(a) + 1) /\ l \in ((i + 1) - 1)..Len(a) /\ l - (i + 1) + 1 = l - i
    BY <1>1, <1>2, <1>3
  <2>4. Len(t) = l - (i + 1) + 1 /\ \A k \in 1..(l - (i + 1) + 1) : t[k] = a[(i + 1) + k - 1]
    BY <2>3, <1>2, <1>5, SubSeqProperties
  <2>5. \A k \in 1..(l - i) : (i + 1) + k - 1 = i + k
    BY <1>3
  <2> QED BY <2>2, <2>3, <2>4, <2>5 DEF AtText
<1>7. PICK c, d : c = FirstOf(t, h) /\ d = Strs!strncmp(m, i, q, h)
  OBVIOUS
<1>8. FirstOf(b, h) = b
  <2>1. ~(h < Len(b))
    BY <1>1, <1>2
  <2> QED BY <2>1 DEF FirstOf
<1>9. d = 0 <=> c = b
  <2>1. Compared(Strs!Parting(m, i, q, h, Strs!Same), t, b, Strs!Same, h)
    BY <1>2, <1>6, CaseTables, PartingFact
  <2>2. Shown(t, Strs!Same) = t /\ Shown(b, Strs!Same) = b
    BY <1>2, <1>6, ShownAs
  <2> QED BY <2>1, <2>2, <1>7, <1>8 DEF Compared, Strs!strncmp
<1>10. t \in Seq(Nat) /\ b \in Seq(Nat)
  BY <1>2, <1>6, AreNumbers
<1>11. c \in Seq(Nat) /\ Len(c) = h /\ \A k \in 1..h : c[k] = a[i + k]
  <2>1. /\ c \in Seq(Nat) /\ Len(c) = (IF h < Len(t) THEN h ELSE Len(t))
        /\ \A k \in 1..Len(c) : c[k] = t[k]
    BY <1>2, <1>7, <1>10, FirstFact
  <2>2. Len(c) = h /\ \A k \in 1..h : k \in 1..(l - i)
    BY <2>1, <1>2, <1>3, <1>6
  <2> QED BY <2>1, <2>2, <1>6
<1>12. c = b <=> \A k \in 1..h : c[k] = b[k]
  BY <1>1, <1>2, <1>10, <1>11, SameTexts
<1>13. (\A k \in 1..h : a[i + k] = b[k]) => m[i] = m[q]
  <2>1. i \in 0..((0 + l) - 1) /\ q \in q..((q + h) - 1) /\ i - 0 + 1 = i + 1 /\ q - q + 1 = 1 /\ 1 \in 1..h
    BY <1>2, <1>3
  <2>2. m[i] = a[i + 1] /\ m[q] = b[1]
    BY <2>1, <1>2
  <2> QED BY <2>1, <2>2
<1> QED BY <1>1, <1>4, <1>7, <1>9, <1>11, <1>12, <1>13

(* A search of the text a below, for what is in the text b.                 *)
SearchRight(m, q, a, b) ==
  LET found == PlacesOf(a, Range(b))
      wanted == Append(b, 0)[1]
      ends == Append(a, 0)
  IN  /\ b = <<>> \/ Strs!strstr(m, 0, q) = Strs!Lowest(PlacesIn(a, b))
      /\ Strs!strcspn(m, 0, q) = IF found = {} THEN Len(a) ELSE Strs!Lowest(found)
      /\ Len(b) > 2 \/ Strs!strpbrk(m, 0, q) = Strs!Lowest(found)
      /\ Strs!strchr(m, 0, m[q]) = Strs!Lowest(PlacesOf(ends, {wanted}))
      /\ Strs!strrchr(m, 0, m[q]) = Strs!Highest(PlacesOf(ends, {wanted}))

(* They find the places there are.                                          *)
LEMMA Searches ==
  ASSUME NEW m \in Memories, NEW a, NEW b, NEW q, AtText(m, 0, a), AtText(m, q, b)
  PROVE  SearchRight(m, q, a, b)
<1>1. PICK l, h, found, wanted, ends :
        /\ l = Len(a) /\ h = Len(b) /\ found = PlacesOf(a, Range(b))
        /\ wanted = Append(b, 0)[1] /\ ends = Append(a, 0)
  OBVIOUS
<1>2. /\ l \in Nat /\ h \in Nat /\ q \in Nat /\ a \in [1..l -> 1..255] /\ b \in [1..h -> 1..255]
      /\ a \in Seq(Characters) /\ b \in Seq(Characters)
      /\ \A p \in 0..((0 + l) - 1) : m[p] = a[p - 0 + 1]
      /\ \A p \in q..((q + h) - 1) : m[p] = b[p - q + 1]
      /\ m[0 + l] = 0 /\ m[q + h] = 0
  <2>1. a \in Seq(Characters) /\ b \in Seq(Characters) /\ q \in Nat
    BY DEF AtText
  <2>2. l \in Nat /\ h \in Nat /\ a \in [1..l -> 1..255] /\ b \in [1..h -> 1..255]
    BY <2>1, <1>1, LenProperties DEF Characters
  <2>3. /\ \A p \in 0..((0 + l) - 1) : m[p] = a[p - 0 + 1]
        /\ \A p \in q..((q + h) - 1) : m[p] = b[p - q + 1]
        /\ m[0 + l] = 0 /\ m[q + h] = 0
    BY <1>1 DEF AtText
  <2> QED BY <2>1, <2>2, <2>3
<1>3. Strs!EndOf(m, 0) = l /\ Strs!strlen(m, 0) = l /\ Strs!strlen(m, q) = h /\ Strs!CharsOf(m, q) = Range(b)
  <2>1. Strs!EndOf(m, 0) = 0 + l /\ Strs!EndOf(m, q) = q + h /\ Strs!CharsOf(m, q) = Range(b)
    BY <1>1, TextFound
  <2> QED BY <2>1, <1>2 DEF Strs!strlen
<1>4. \A p \in 0..(l - 1) : m[p] = a[p + 1]
  <2>1. \A p \in 0..(l - 1) : p \in 0..((0 + l) - 1) /\ p - 0 + 1 = p + 1
    BY <1>2
  <2> QED BY <2>1, <1>2
<1>5. found = {p \in 0..(l - 1) : m[p] \in Range(b)}
  BY <1>1, <1>4 DEF PlacesOf
<1>6. b = <<>> \/ Strs!strstr(m, 0, q) = Strs!Lowest(PlacesIn(a, b))
  <2> SUFFICES ASSUME b # <<>> PROVE Strs!strstr(m, 0, q) = Strs!Lowest(PlacesIn(a, b))
    OBVIOUS
  <2>1. PICK S : S = {p \in 0..(l - h) : m[p] = m[q] /\ Strs!strncmp(m, p, q, Strs!strlen(m, q)) = 0}
    OBVIOUS
  <2>2. Strs!strstr(m, 0, q) = Strs!Lowest(S)
    BY <2>1, <1>3 DEF Strs!strstr
  <2>3. \A p \in 0..(l - h) : p \in S <=> \A j \in 1..h : a[p + j] = b[j]
    <3> TAKE p \in 0..(l - h)
    <3>1. (m[p] = m[q] /\ Strs!strncmp(m, p, q, Strs!strlen(m, q)) = 0)
            <=> \A j \in 1..Len(b) : a[p + j] = b[j]
      <4>1. p \in 0..(Len(a) - Len(b))
        BY <1>1
      <4> QED BY <4>1, FoundAt
    <3> QED BY <3>1, <2>1, <1>1
  <2>4. PlacesIn(a, b) = {p \in 0..(l - h) : \A j \in 1..h : a[p + j] = b[j]}
    BY <1>1 DEF PlacesIn
  <2>5. S = PlacesIn(a, b)
    BY <2>1, <2>3, <2>4
  <2> QED BY <2>2, <2>5
<1>7. Strs!strcspn(m, 0, q) = IF found = {} THEN l ELSE Strs!Lowest(found)
  <2>1. Strs!strcspn(m, 0, q) = IF Strs!Lowest(found) = Strs!Null THEN l ELSE Strs!Lowest(found) - 0
    BY <1>3, <1>5 DEF Strs!strcspn
  <2>2. CASE found = {}
    BY <2>1, <2>2, LowestNone
  <2>3. CASE found # {}
    <3>1. found \in SUBSET Nat
      BY <1>5
    <3>2. Strs!Lowest(found) \in Nat /\ Strs!Lowest(found) # Strs!Null
      BY <3>1, <2>3, LowestFact, LowestNone
    <3> QED BY <3>2, <2>1, <2>3
  <2> QED BY <2>2, <2>3
<1>8. h > 2 \/ Strs!strpbrk(m, 0, q) = Strs!Lowest(found)
  <2>1. CASE h = 0
    <3>1. Range(b) = {}
      BY <2>1, <1>2 DEF Range
    <3>2. found = {}
      BY <3>1, <1>5
    <3>3. Strs!strpbrk(m, 0, q) = Strs!Null
      BY <2>1, <1>3 DEF Strs!strpbrk
    <3> QED BY <3>2, <3>3, LowestNone
  <2>2. CASE h \in {1, 2}
    <3>1. h # 0
      BY <2>2
    <3>2. Strs!strpbrk(m, 0, q) = Strs!Lowest({p \in 0..(l - 1) : m[p] \in Range(b)})
      BY <2>2, <3>1, <1>3 DEF Strs!strpbrk
    <3> QED BY <3>2, <1>5
  <2>3. h = 0 \/ h \in {1, 2} \/ h > 2
    BY <1>2
  <2> QED BY <2>1, <2>2, <2>3
<1>9. m[q] = wanted /\ m[q] % 256 = m[q]
  <2>1. 0 \in Nat /\ b \in Seq(Nat)
    BY <1>2, AreNumbers
  <2>2. wanted = IF 1 <= h THEN b[1] ELSE 0
    <3>1. /\ Len(Append(b, 0)) = Len(b) + 1 /\ \A i \in 1..Len(b) : Append(b, 0)[i] = b[i]
          /\ Append(b, 0)[Len(b) + 1] = 0
      BY <2>1, AppendProperties
    <3>2. CASE 1 <= h
      <4>1. 1 \in 1..Len(b)
        BY <3>2, <1>1, <1>2
      <4> QED BY <4>1, <3>1, <3>2, <1>1
    <3>3. CASE ~(1 <= h)
      <4>1. Len(b) + 1 = 1
        BY <3>3, <1>1, <1>2
      <4> QED BY <4>1, <3>1, <3>3, <1>1
    <3> QED BY <3>2, <3>3
  <2>3. m[q] = wanted
    <3>1. CASE 1 <= h
      <4>1. q \in q..((q + h) - 1) /\ q - q + 1 = 1
        BY <3>1, <1>2
      <4> QED BY <4>1, <3>1, <2>2, <1>2
    <3>2. CASE ~(1 <= h)
      <4>1. q + h = q
        BY <3>2, <1>2
      <4> QED BY <4>1, <3>2, <2>2, <1>2
    <3> QED BY <3>1, <3>2
  <2>4. m[q] \in 0..255
    <3>1. q \in 0..(MemorySize - 1)
      <4>1. q + h \in 0..(MemorySize - 1) /\ MemorySize \in Nat
        BY <1>1, SizeAssumption DEF AtText
      <4> QED BY <4>1, <1>2
    <3> QED BY <3>1 DEF Memories
  <2> QED BY <2>3, <2>4
<1>10. {p \in 0..l : m[p] = m[q] % 256} = PlacesOf(ends, {wanted})
  <2>1. 0 \in Nat /\ a \in Seq(Nat)
    BY <1>2, AreNumbers
  <2>2. /\ Len(ends) = l + 1 /\ (\A i \in 1..l : ends[i] = a[i]) /\ ends[l + 1] = 0
    BY <2>1, <1>1, AppendProperties
  <2>3. \A p \in 0..l : m[p] = ends[p + 1]
    <3> TAKE p \in 0..l
    <3>1. CASE p = l
      <4>1. 0 + l = l
        BY <1>2
      <4> QED BY <4>1, <3>1, <2>2, <1>2
    <3>2. CASE p # l
      <4>1. p \in 0..(l - 1) /\ p + 1 \in 1..l
        BY <3>2, <1>2
      <4> QED BY <4>1, <2>2, <1>4
    <3> QED BY <3>1, <3>2
  <2>4. PlacesOf(ends, {wanted}) = {p \in 0..l : ends[p + 1] \in {wanted}}
    <3>1. Len(ends) - 1 = l
      BY <2>2, <1>2
    <3> QED BY <3>1 DEF PlacesOf
  <2> QED BY <2>3, <2>4, <1>9
<1>11. Strs!strchr(m, 0, m[q]) = Strs!Lowest(PlacesOf(ends, {wanted}))
  BY <1>3, <1>10 DEF Strs!strchr
<1>12. Strs!strrchr(m, 0, m[q]) = Strs!Highest(PlacesOf(ends, {wanted}))
  BY <1>3, <1>10 DEF Strs!strrchr
<1> QED BY <1>1, <1>6, <1>7, <1>8, <1>11, <1>12 DEF SearchRight

(* strcpy of a text that is above its destination.                          *)
LEMMA StrcpyCopies ==
  ASSUME NEW m \in Memories, NEW b, NEW src, AtText(m, src, b), Len(b) < src
  PROVE  /\ Strs!TextAt(Strs!strcpy(m, 0, src), 0) = b
         /\ Strs!TextAt(Strs!strcpy(m, 0, src), src) = b
<1>1. PICK l, n, r : l = Len(b) /\ n = Strs!Whole(m) /\ r = Strs!Copied(m, 0, src, n)
  OBVIOUS
<1>2. /\ src \in Nat /\ l \in Nat /\ b \in Seq(Characters) /\ src + l \in 0..(MemorySize - 1)
      /\ MemorySize \in Nat /\ 0 + l < src /\ m[src + l] = 0
      /\ \A p \in src..((src + l) - 1) : m[p] = b[p - src + 1]
  BY <1>1, LenProperties, SizeAssumption DEF AtText
<1>3. n \in Nat /\ n > l
  <2>1. DOMAIN m = 0..(MemorySize - 1)
    BY DEF Memories
  <2>2. n = Cardinality(0..(MemorySize - 1))
    BY <2>1, <1>1 DEF Strs!Whole, Strs!Cardinality, Cardinality
  <2>3. n = MemorySize
    <3>1. Cardinality(0..(MemorySize - 1)) = IF 0 > MemorySize - 1 THEN 0 ELSE (MemorySize - 1) - 0 + 1
      BY <1>2, FS_Interval
    <3> QED BY <3>1, <2>2, <1>2
  <2> QED BY <2>3, <1>2
<1>4. /\ r \in Memories
      /\ \A i \in 0..(MemorySize - 1) : i < 0 \/ i > 0 + l => r[i] = m[i]
      /\ \A j \in 0..l : r[0 + j] = m[src + j]
  BY <1>1, <1>2, <1>3, CopiedKeeps
<1>5. AtText(r, 0, b)
  <2>1. 0 + l \in 0..(MemorySize - 1) /\ l \in 0..l
    BY <1>2
  <2>2. r[0 + l] = 0
    BY <2>1, <1>2, <1>4
  <2>3. ASSUME NEW p \in 0..((0 + l) - 1) PROVE r[p] = b[p - 0 + 1]
    <3>1. PICK q : q = src + p
      OBVIOUS
    <3>2. p \in 0..l /\ 0 + p = p /\ q \in src..((src + l) - 1) /\ q - src + 1 = p - 0 + 1
      BY <3>1, <1>2
    <3>3. m[q] = b[q - src + 1]
      BY <3>2, <1>2
    <3>4. r[0 + p] = m[q]
      BY <3>1, <3>2, <1>4
    <3> QED BY <3>2, <3>3, <3>4
  <2> QED BY <2>1, <2>2, <2>3, <1>1, <1>2 DEF AtText
<1>6. AtText(r, src, b)
  <2>1. ASSUME NEW p \in src..(src + l) PROVE r[p] = m[p]
    <3>1. p \in 0..(MemorySize - 1) /\ p > 0 + l
      BY <1>2
    <3> QED BY <3>1, <1>4
  <2>2. \A p \in src..(src + Len(b)) : r[p] = m[p]
    BY <2>1, <1>1
  <2> QED BY <2>2, TextKept
<1>7. Strs!TextAt(r, 0) = b /\ Strs!TextAt(r, src) = b
  BY <1>4, <1>5, <1>6, TextFound
<1> QED BY <1>1, <1>7 DEF Strs!strcpy

(* The two texts of a call, in their memory.                                *)
LEMMA LaidFact ==
  ASSUME NEW a \in Texts, NEW b \in Texts, NEW n \in Counts, NEW m, m = Laid(a, b)
  PROVE  /\ m \in Memories /\ AtText(m, 0, a) /\ AtText(m, Second, b) /\ n \in Nat
         /\ Len(b) < Second
         /\ IsBytes(m, 0, a, n) /\ IsBytes(m, Second, b, n)
<1>1. PICK l, h, z, u : /\ l = Len(a) /\ h = Len(b) /\ z = [p \in 0..(MemorySize - 1) |-> 0]
                        /\ u = WithText(z, 0, a)
  OBVIOUS
<1>2. /\ a \in Seq(Characters) /\ b \in Seq(Characters) /\ Second \in Nat /\ MemorySize \in Nat
      /\ l < Second /\ h < Second /\ Second + l < MemorySize /\ Second + h < MemorySize
      /\ n \in Nat /\ n <= Second /\ Second + n <= MemorySize
  BY <1>1, TextsAssumption, SizeAssumption DEF Characters
<1>3. l \in Nat /\ h \in Nat
  BY <1>1, <1>2, LenProperties
<1>4. z \in Memories
  BY <1>1 DEF Memories
<1>5. /\ u \in Memories /\ AtText(u, 0, a)
      /\ \A p \in 0..(MemorySize - 1) : p < 0 \/ p > 0 + l => u[p] = z[p]
  <2>1. 0 \in Nat /\ 0 + Len(a) < MemorySize
    BY <1>1, <1>2, <1>3
  <2>2. /\ WithText(z, 0, a) \in Memories /\ AtText(WithText(z, 0, a), 0, a)
        /\ \A p \in 0..(MemorySize - 1) :
             p < 0 \/ p > 0 + Len(a) => WithText(z, 0, a)[p] = z[p]
    BY <2>1, <1>2, <1>4, TextWritten
  <2> QED BY <2>2, <1>1
<1>6. m = WithText(u, Second, b)
  BY <1>1 DEF Laid
<1>7. /\ m \in Memories /\ AtText(m, Second, b)
      /\ \A p \in 0..(MemorySize - 1) : p < Second \/ p > Second + h => m[p] = u[p]
  <2>1. Second + Len(b) < MemorySize /\ Second \in Nat /\ b \in Seq(Characters) /\ u \in Memories
    BY <1>1, <1>2, <1>5
  <2>2. /\ WithText(u, Second, b) \in Memories /\ AtText(WithText(u, Second, b), Second, b)
        /\ \A p \in 0..(MemorySize - 1) :
             p < Second \/ p > Second + Len(b) => WithText(u, Second, b)[p] = u[p]
    BY <2>1, TextWritten
  <2> QED BY <2>2, <1>1, <1>6
<1>8. AtText(m, 0, a)
  <2>1. \A p \in 0..(0 + l) : p \in 0..(MemorySize - 1) /\ p < Second
    BY <1>2, <1>3
  <2>2. \A p \in 0..(0 + Len(a)) : m[p] = u[p]
    BY <2>1, <1>1, <1>7
  <2> QED BY <2>2, <1>5, TextKept
<1>9. \A p \in 0..(MemorySize - 1) : z[p] = 0
  BY <1>1
<1>10. IsBytes(m, 0, a, n)
  <2> SUFFICES ASSUME NEW i \in 0..(n - 1) PROVE m[0 + i] = BytesOf(a, n)[i + 1]
    BY DEF IsBytes
  <2>1. BytesOf(a, n)[i + 1] = IF i + 1 <= l THEN a[i + 1] ELSE 0
    <3>1. i + 1 \in 1..n
      BY <1>2
    <3> QED BY <3>1, <1>1 DEF BytesOf
  <2>2. CASE i + 1 <= l
    <3>1. i \in 0..((0 + l) - 1) /\ 0 + i = i /\ i - 0 + 1 = i + 1
      BY <2>2, <1>3
    <3>2. m[i] = a[i - 0 + 1]
      BY <3>1, <1>1, <1>8 DEF AtText
    <3> QED BY <3>1, <3>2, <2>1, <2>2
  <2>3. CASE i = l
    <3>1. m[0 + i] = 0 /\ ~(i + 1 <= l)
      BY <2>3, <1>1, <1>3, <1>8 DEF AtText
    <3> QED BY <3>1, <2>1
  <2>4. CASE i > l
    <3>1. i \in 0..(MemorySize - 1) /\ i < Second /\ i > 0 + l /\ 0 + i = i /\ ~(i + 1 <= l)
      BY <2>4, <1>2, <1>3
    <3>2. m[i] = u[i] /\ u[i] = z[i] /\ z[i] = 0
      BY <3>1, <1>5, <1>7, <1>9
    <3> QED BY <3>1, <3>2, <2>1
  <2> QED BY <2>2, <2>3, <2>4, <1>3
<1>11. IsBytes(m, Second, b, n)
  <2> SUFFICES ASSUME NEW i \in 0..(n - 1) PROVE m[Second + i] = BytesOf(b, n)[i + 1]
    BY DEF IsBytes
  <2>1. BytesOf(b, n)[i + 1] = IF i + 1 <= h THEN b[i + 1] ELSE 0
    <3>1. i + 1 \in 1..n
      BY <1>2
    <3> QED BY <3>1, <1>1 DEF BytesOf
  <2>2. CASE i + 1 <= h
    <3>1. Second + i \in Second..((Second + h) - 1) /\ (Second + i) - Second + 1 = i + 1
      BY <2>2, <1>2, <1>3
    <3>2. m[Second + i] = b[(Second + i) - Second + 1]
      BY <3>1, <1>1, <1>7 DEF AtText
    <3> QED BY <3>1, <3>2, <2>1, <2>2
  <2>3. CASE i = h
    <3>1. m[Second + i] = 0 /\ ~(i + 1 <= h)
      BY <2>3, <1>1, <1>3, <1>7 DEF AtText
    <3> QED BY <3>1, <2>1
  <2>4. CASE i > h
    <3>1. PICK p : p = Second + i
      OBVIOUS
    <3>2. p \in 0..(MemorySize - 1) /\ p > Second + h /\ p > 0 + l /\ ~(i + 1 <= h)
      BY <3>1, <2>4, <1>2, <1>3
    <3>3. m[p] = u[p] /\ u[p] = z[p] /\ z[p] = 0
      BY <3>2, <1>5, <1>7, <1>9
    <3> QED BY <3>1, <3>2, <3>3, <2>1
  <2> QED BY <2>2, <2>3, <2>4, <1>3
<1> QED BY <1>1, <1>2, <1>7, <1>8, <1>10, <1>11

(* Between calls there is no answer, and during one it is what the functions *)
(* give.                                                                    *)
MoveAnswered(c, a) == \E m \in Images, dst, source \in Blocks, n \in Lengths :
  /\ dst..dst + n - 1 \subseteq DOMAIN m /\ source..source + n - 1 \subseteq DOMAIN m
  /\ c = [to |-> "memmove", m |-> m, dst |-> dst, src |-> source, n |-> n]
  /\ a = [moved |-> Strs!memmove(m, dst, source, n), copied |-> Strs!memcpy(m, dst, source, n)]

AnswerOf(m, n) ==
  [cmp |-> Strs!strcmp(m, 0, Second), ncmp |-> Strs!strncmp(m, 0, Second, n),
   casecmp |-> Strs!strcasecmp(m, 0, Second),
   ncasecmp |-> Strs!strncasecmp(m, 0, Second, n),
   icmp |-> Strs!stricmp(m, 0, Second), memcmp |-> Strs!memcmp(m, 0, Second, n),
   str |-> Strs!strstr(m, 0, Second), cspn |-> Strs!strcspn(m, 0, Second),
   pbrk |-> Strs!strpbrk(m, 0, Second), chr |-> Strs!strchr(m, 0, m[Second]),
   rchr |-> Strs!strrchr(m, 0, m[Second]), cpy |-> Strs!strcpy(m, 0, Second)]
AskAnswered(c, r) == \E a, b \in Texts, n \in Counts :
  /\ c = [to |-> "strings", a |-> a, b |-> b, n |-> n]
  /\ r = AnswerOf(Laid(a, b), n)

MemoryAnswered == call = Idle \/ MoveAnswered(call, answer) \/ AskAnswered(call, answer)

(* An answer of memmove and memcpy is right.                                *)
LEMMA MoveRight == MoveAnswered(call, answer) => BlocksMoved /\ StringsRight
<1> SUFFICES ASSUME MoveAnswered(call, answer) PROVE BlocksMoved /\ StringsRight
  OBVIOUS
<1>1. PICK m \in Images, dst \in Blocks, source \in Blocks, n \in Lengths :
        /\ dst..dst + n - 1 \subseteq DOMAIN m /\ source..source + n - 1 \subseteq DOMAIN m
        /\ call = [to |-> "memmove", m |-> m, dst |-> dst, src |-> source, n |-> n]
        /\ answer = [moved |-> Strs!memmove(m, dst, source, n), copied |-> Strs!memcpy(m, dst, source, n)]
  BY DEF MoveAnswered
<1>2. dst \in Nat /\ source \in Nat /\ n \in Nat
  BY ImagesAssumption
<1>3. InMemory(m, 0..255, dst, source, n)
  <2>1. DOMAIN m \subseteq Nat /\ m \in [DOMAIN m -> 0..255]
    BY ImagesAssumption
  <2>2. \A q \in source..((source + n) - 1) : q \in source..source + n - 1
    BY <1>2
  <2> QED BY <2>1, <2>2, <1>1, <1>2 DEF InMemory
<1>4. /\ call.to = "memmove" /\ call.m = m /\ call.dst = dst /\ call.src = source /\ call.n = n
      /\ answer.moved = Strs!memmove(m, dst, source, n)
      /\ answer.copied = Strs!memcpy(m, dst, source, n)
  BY <1>1
<1>5. Strs!memmove(m, dst, source, n) = Strs!Moved(m, dst, source, n)
  BY <1>3, MemmoveMoves
<1>6. (dst + n <= source \/ source + n <= dst) =>
        Strs!memcpy(m, dst, source, n) = Strs!Moved(m, dst, source, n)
  BY <1>3, MemcpyMoves
<1>7. BlocksMoved
  BY <1>4, <1>5, <1>6 DEF BlocksMoved
<1>8. StringsRight
  <2>1. call.to # "strings"
    BY <1>4
  <2> QED BY <2>1 DEF StringsRight
<1> QED BY <1>7, <1>8

(* An answer about two texts is right.                                      *)
LEMMA AskRight == AskAnswered(call, answer) => BlocksMoved /\ StringsRight
<1> SUFFICES ASSUME AskAnswered(call, answer) PROVE BlocksMoved /\ StringsRight
  OBVIOUS
<1>1. PICK a \in Texts, b \in Texts, n \in Counts :
        /\ call = [to |-> "strings", a |-> a, b |-> b, n |-> n]
        /\ answer = AnswerOf(Laid(a, b), n)
  BY DEF AskAnswered
<1>2. PICK m : m = Laid(a, b)
  OBVIOUS
<1>3. /\ m \in Memories /\ AtText(m, 0, a) /\ AtText(m, Second, b) /\ n \in Nat
      /\ Len(b) < Second
      /\ IsBytes(m, 0, a, n) /\ IsBytes(m, Second, b, n)
  BY <1>2, LaidFact
<1>4. call.to = "strings" /\ call.a = a /\ call.b = b /\ call.n = n
  BY <1>1
<1>5. /\ answer.cmp = Strs!strcmp(m, 0, Second) /\ answer.ncmp = Strs!strncmp(m, 0, Second, n)
      /\ answer.casecmp = Strs!strcasecmp(m, 0, Second)
      /\ answer.ncasecmp = Strs!strncasecmp(m, 0, Second, n)
      /\ answer.icmp = Strs!stricmp(m, 0, Second) /\ answer.memcmp = Strs!memcmp(m, 0, Second, n)
  BY <1>1, <1>2 DEF AnswerOf
<1>6. /\ answer.str = Strs!strstr(m, 0, Second) /\ answer.cspn = Strs!strcspn(m, 0, Second)
      /\ answer.pbrk = Strs!strpbrk(m, 0, Second) /\ answer.chr = Strs!strchr(m, 0, m[Second])
      /\ answer.rchr = Strs!strrchr(m, 0, m[Second]) /\ answer.cpy = Strs!strcpy(m, 0, Second)
  BY <1>1, <1>2 DEF AnswerOf
<1>7. ComparedRight(m, 0, Second, a, b, n)
  BY <1>3, Comparisons
<1>8. AsOrdered(Strs!memcmp(m, 0, Second, n), BytesOf(a, n), BytesOf(b, n))
  BY <1>3, MemcmpCompares DEF AtText
<1>9. SearchRight(m, Second, a, b)
  BY <1>3, Searches
<1>10. Strs!TextAt(answer.cpy, 0) = b /\ Strs!TextAt(answer.cpy, Second) = b
  BY <1>3, <1>6, StrcpyCopies
<1>11. /\ AsOrdered(answer.cmp, a, b) /\ AsOrdered(answer.ncmp, FirstOf(a, n), FirstOf(b, n))
       /\ AsOrdered(answer.casecmp, Lowered(a), Lowered(b))
       /\ AsOrdered(answer.ncasecmp, FirstOf(Lowered(a), n), FirstOf(Lowered(b), n))
       /\ AsOrdered(answer.icmp, AsciiLowered(a), AsciiLowered(b))
       /\ AsOrdered(answer.memcmp, BytesOf(a, n), BytesOf(b, n))
  BY <1>5, <1>7, <1>8 DEF ComparedRight
<1>12. LET ends == Append(a, 0)
           wanted == Append(b, 0)[1]
           found == PlacesOf(a, Range(b))
       IN  /\ b = <<>> \/ answer.str = Strs!Lowest(PlacesIn(a, b))
           /\ answer.cspn = IF found = {} THEN Len(a) ELSE Strs!Lowest(found)
           /\ Len(b) > 2 \/ answer.pbrk = Strs!Lowest(found)
           /\ answer.chr = Strs!Lowest(PlacesOf(ends, {wanted}))
           /\ answer.rchr = Strs!Highest(PlacesOf(ends, {wanted}))
  BY <1>6, <1>9 DEF SearchRight
<1>13. StringsRight
  BY <1>4, <1>10, <1>11, <1>12 DEF StringsRight
<1>14. BlocksMoved
  <2>1. call.to # "memmove"
    BY <1>4
  <2> QED BY <2>1 DEF BlocksMoved
<1> QED BY <1>13, <1>14

(* For all memories, blocks and lengths: memmove (string/memmove.c) moves   *)
(* the block however the two overlap, memcpy (string/memcpy.c), with words  *)
(* of eight bytes and without, when they do not, and neither touches what   *)
(* is beside it. For all texts that lie apart, and all limits: the          *)
(* comparisons (strcmp.c, strncmp.c, strcase.c, stricmp.c and memcmp.c)     *)
(* have the sign of the order of the texts, the searches (strstr.c,         *)
(* strcspn.c, strpbrk.c, strchr.c and strrchr.c) find the first or the last *)
(* place there is, and strcpy copies the text.                              *)
THEOREM AlwaysAnswered == MemorySpec => []MemoryRight
<1>1. CallsInit => MemoryAnswered
  BY DEF CallsInit, MemoryAnswered
<1>2. MemoryAnswered /\ [(call = Idle /\ (Moves \/ Asks)) \/ Returns]_callVars => MemoryAnswered'
  <2> SUFFICES ASSUME MemoryAnswered, [(call = Idle /\ (Moves \/ Asks)) \/ Returns]_callVars
               PROVE  MemoryAnswered'
    OBVIOUS
  <2>1. CASE Moves
    <3>1. MoveAnswered(call', answer')
      BY <2>1 DEF Moves, Called, MoveAnswered
    <3> QED BY <3>1 DEF MemoryAnswered
  <2>2. CASE Asks
    <3>1. AskAnswered(call', answer')
      BY <2>2 DEF Asks, Called, AskAnswered, AnswerOf
    <3> QED BY <3>1 DEF MemoryAnswered
  <2>3. CASE Returns
    BY <2>3 DEF Returns, MemoryAnswered
  <2>4. CASE UNCHANGED callVars
    BY <2>4 DEF callVars, MemoryAnswered
  <2> QED BY <2>1, <2>2, <2>3, <2>4
<1>3. MemoryAnswered => MemoryRight
  <2>1. CASE call = Idle
    <3>1. call.to = "nothing"
      BY <2>1 DEF Idle
    <3> QED BY <3>1 DEF MemoryRight, BlocksMoved, StringsRight
  <2> QED BY <2>1, MoveRight, AskRight DEF MemoryAnswered, MemoryRight
<1> QED BY <1>1, <1>2, <1>3, PTL DEF MemorySpec
=============================================================================
