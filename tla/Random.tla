------------------------------- MODULE Random -------------------------------
(***************************************************************************)
(* Random numbers (random/random.c, random/rand.c).                        *)
(*                                                                         *)
(* A table is what the program gives initstate: a first word, and the      *)
(* words behind it.  A generator works on a table; for the types other     *)
(* than 0 it adds the word at the rear place to the one at the front place *)
(* and moves both on.  random() and its kin use the generator implicit,    *)
(* whose table can be changed; rand() uses one of its own.                 *)
(***************************************************************************)
EXTENDS Integers, Sequences, FiniteSetsExt

CONSTANTS
  MAX_TYPES, degrees, seps, breaks,   \* of each type 0..MAX_TYPES-1
  TYPE_3,                             \* the type of implicit at first, and of rand
  RandomBits, Modulus, Multiplier,    \* 32, 2^31-1 and 16807 in the code
  NSHUFF, Rounds10,                   \* 50, and 10 for each word of a table
  randtbl, Buffers,                   \* the table of the library, the program's
  Seeds, TableSizes, MaxBlocks        \* bounds: what a program passes, and how
                                      \* often it calls rand and srand

ASSUME TypesAssumption ==
  /\ MAX_TYPES \in Nat \ {0} /\ TYPE_3 \in 1..MAX_TYPES - 1
  /\ \A t \in 0..MAX_TYPES - 1 : degrees[t] \in Nat
  /\ \A t \in 1..MAX_TYPES - 1 : seps[t] \in 1..degrees[t] - 1
  /\ \A t, u \in 1..MAX_TYPES - 1 : degrees[t] = degrees[u] => t = u
  /\ NSHUFF \in Nat /\ Rounds10 \in Nat /\ Seeds \subseteq Nat
  /\ 2^RandomBits \in Nat \ {0}

\* 2^31 - 1 is 127773 times 16807 and 2836 more, which is less than 127773.
ASSUME SchrageAssumption ==
  /\ Modulus \in Nat /\ Multiplier \in 1..Modulus - 1
  /\ Modulus % Multiplier <= Modulus \div Multiplier

VARIABLES
  implicit,     \* the generator of random
  tables,       \* the tables by name
  rand3_state,  \* the generator of rand with its words, or NoState
  rand3_blocks, \* the blocks that were allocated for it
  drawn         \* the number last drawn, or nothing

randomVars == <<implicit, tables, rand3_state, rand3_blocks, drawn>>

Tables == {randtbl} \cup Buffers
NoState == [type |-> -1]
Nothing == -1

-----------------------------------------------------------------------------
\* A generator g with its words.

\* Schrage's way to Multiplier * x modulo Modulus.
parkmiller32(ctx) ==
  LET x == (ctx % (Modulus - 1)) + 1
      y == Multiplier * (x % (Modulus \div Multiplier))
             - (Modulus % Multiplier) * (x \div (Modulus \div Multiplier))
  IN  (IF y < 0 THEN y + Modulus ELSE y) - 1

\* One draw; the rear place does not wrap when the front one does.
_fbsd_random_r(g) ==
  LET linear == parkmiller32(g.words[0])
      sum == (g.words[g.fptr] + g.words[g.rptr]) % 2^RandomBits
      wraps == g.fptr + 1 >= degrees[g.type]
  IN  IF g.type = 0
      THEN [g EXCEPT !.words = [@ EXCEPT ![0] = linear], !.last = linear]
      ELSE [g EXCEPT
              !.words = [@ EXCEPT ![g.fptr] = sum], !.last = sum \div 2,
              !.fptr = IF wraps THEN 0 ELSE @ + 1,
              !.rptr = IF wraps \/ @ + 1 < degrees[g.type] THEN @ + 1 ELSE 0]

Advanced(g, n) ==
  LET after[k \in 0..n] == IF k = 0 THEN g ELSE _fbsd_random_r(after[k - 1]) IN after[n]

_fbsd_srandom_r(g, x) ==
  LET word[i \in 0..degrees[g.type] - 1] == IF i = 0 THEN x ELSE parkmiller32(word[i - 1])
      lim == IF g.type = 0 THEN NSHUFF ELSE Rounds10 * degrees[g.type]
      fresh == IF g.type = 0 THEN [g EXCEPT !.words = [@ EXCEPT ![0] = x]]
               ELSE [g EXCEPT !.words = [i \in DOMAIN @ |->
                                           IF i < degrees[g.type] THEN word[i] ELSE @[i]],
                              !.fptr = seps[g.type], !.rptr = 0]
  IN  Advanced(fresh, lim)

\* The largest type a table of n bytes has room for; -1 is EINVAL.
TypeFor(n) ==
  LET fits == {t \in 0..MAX_TYPES - 1 : n >= breaks[t]} IN IF fits = {} THEN -1 ELSE Max(fits)

_fbsd_initstate_r(g, seed, n) == _fbsd_srandom_r([g EXCEPT !.type = TypeFor(n)], seed)

\* Mutant: the rear place is not in the first word.
FirstWordTypeOnly(g) == g.type

\* The first word of a table in use: where the rear place is, and the type.
FirstWord(g) == IF g.type = 0 THEN 0 ELSE MAX_TYPES * g.rptr + g.type

-----------------------------------------------------------------------------
\* implicit with the words of its table, and the parts put back.
Loaded(b) == [type |-> implicit.type, fptr |-> implicit.fptr, rptr |-> implicit.rptr,
              words |-> tables[b].words, last |-> 0]
Current == Loaded(implicit.table)
Placed(b, g) == [table |-> b, type |-> g.type, fptr |-> g.fptr, rptr |-> g.rptr]
Saved == [tables EXCEPT ![implicit.table].first = FirstWord(Current)]

Blank == [i \in 0..Max({degrees[t] : t \in 0..MAX_TYPES - 1}) - 1 |-> 0]
NewTable == [first |-> 0, words |-> Blank]
FirstGenerator(t) ==
  _fbsd_srandom_r([type |-> t, fptr |-> 0, rptr |-> 0, words |-> Blank, last |-> 0], 1)

\* The words that are written in the source are those of initstate(1, randtbl, 128).
RandomInit ==
  /\ implicit = Placed(randtbl, FirstGenerator(TYPE_3))
  /\ tables = [b \in Tables |->
                 IF b = randtbl THEN [first |-> FirstWord(FirstGenerator(TYPE_3)),
                                      words |-> FirstGenerator(TYPE_3).words]
                 ELSE NewTable]
  /\ rand3_state = NoState /\ rand3_blocks = 0
  /\ drawn = Nothing

Use(g) == /\ implicit' = Placed(implicit.table, g)
          /\ tables' = [tables EXCEPT ![implicit.table].words = g.words]
          /\ UNCHANGED <<rand3_state, rand3_blocks>>

random == /\ Use(_fbsd_random_r(Current))
          /\ drawn' = _fbsd_random_r(Current).last

srandom(x) == /\ Use(_fbsd_srandom_r(Current, x))
              /\ drawn' = Nothing

\* Every word is the time; the places are those of a new seed.
srandomdev(now) ==
  LET g == Current
      timed == [g EXCEPT !.words =
                  [i \in DOMAIN @ |->
                     IF i < degrees[g.type] \/ (g.type = 0 /\ i = 0) THEN now ELSE @[i]]]
  IN  /\ Use(IF g.type = 0 THEN timed ELSE [timed EXCEPT !.fptr = seps[g.type], !.rptr = 0])
      /\ drawn' = Nothing

\* The table in use is saved even when n is too small for another.
_fbsd_initstate(seed, b, n) ==
  LET g == _fbsd_initstate_r([Current EXCEPT !.words = Saved[b].words], seed, n)
  IN  /\ drawn' = Nothing
      /\ UNCHANGED <<rand3_state, rand3_blocks>>
      /\ IF TypeFor(n) = -1 THEN tables' = Saved /\ UNCHANGED implicit
         ELSE /\ implicit' = Placed(b, g)
              /\ tables' = [Saved EXCEPT ![b] = [first |-> FirstWord(g), words |-> g.words]]

\* The first word of b is read before the table in use is saved.
_fbsd_setstate(b) ==
  LET type == tables[b].first % MAX_TYPES
      rear == tables[b].first \div MAX_TYPES
  IN  /\ drawn' = Nothing
      /\ UNCHANGED <<rand3_state, rand3_blocks>>
      /\ IF type # 0 /\ rear >= degrees[type] THEN UNCHANGED <<implicit, tables>>
         ELSE /\ tables' = Saved
              /\ implicit' =
                   IF type = 0 THEN [implicit EXCEPT !.table = b, !.type = type]
                   ELSE [table |-> b, type |-> type, rptr |-> rear,
                         fptr |-> (rear + seps[type]) % degrees[type]]

-----------------------------------------------------------------------------
\* rand: rand3_state_initialised stays false, so each call begins again in a
\* block of its own.
initialize_rand3 == FirstGenerator(TYPE_3)

rand == /\ rand3_blocks < MaxBlocks
        /\ rand3_state' = _fbsd_random_r(initialize_rand3)
        /\ rand3_blocks' = rand3_blocks + 1
        /\ drawn' = rand3_state'.last
        /\ UNCHANGED <<implicit, tables>>

srand(seed) == /\ rand3_blocks < MaxBlocks
               /\ rand3_state' = _fbsd_srandom_r(initialize_rand3, seed)
               /\ rand3_blocks' = rand3_blocks + 1
               /\ drawn' = Nothing
               /\ UNCHANGED <<implicit, tables>>

TablesNext ==
  \/ random
  \/ \E x \in Seeds : srandom(x) \/ srandomdev(x)
  \/ \E b \in Buffers, x \in Seeds, n \in TableSizes : _fbsd_initstate(x, b, n)
  \/ \E b \in Tables : _fbsd_setstate(b)

RandNext == rand \/ \E x \in Seeds : srand(x)

RandomSpec == RandomInit /\ [][TablesNext \/ RandNext]_randomVars

-----------------------------------------------------------------------------
\* The words of the generator on table b, the one written longest ago first:
\* what it will draw is decided by them alone.
Register(b) ==
  LET mine == b = implicit.table
      type == IF mine THEN implicit.type ELSE tables[b].first % MAX_TYPES
      front == IF mine THEN implicit.fptr
               ELSE ((tables[b].first \div MAX_TYPES) + seps[type]) % degrees[type]
  IN  IF type = 0 THEN <<tables[b].words[0]>>
      ELSE [k \in 1..degrees[type] |-> tables[b].words[(front + k - 1) % degrees[type]]]

\* One draw from such words: x(n) = x(n - degree) + x(n - separation).
Shifted(r) ==
  IF Len(r) = 1 THEN <<((Multiplier * ((r[1] % (Modulus - 1)) + 1)) % Modulus) - 1>>
  ELSE LET type == CHOOSE t \in 1..MAX_TYPES - 1 : degrees[t] = Len(r)
       IN  Append(Tail(r), (r[1] + r[Len(r) - seps[type] + 1]) % 2^RandomBits)

Seeding(b) == \E x \in Seeds : \/ b = implicit.table /\ (srandom(x) \/ srandomdev(x))
                               \/ \E n \in TableSizes : TypeFor(n) # -1 /\ _fbsd_initstate(x, b, n)

\* The sequence of a table is begun again, is drawn from, or stays as it is.
Undisturbed(b) ==
  \/ Seeding(b) \/ (b = implicit.table /\ _fbsd_setstate(b))
  \/ IF b = implicit.table /\ random
     THEN /\ Register(b)' = Shifted(Register(b))
          /\ drawn' = LET x == Shifted(Register(b))[Len(Register(b))]
                      IN  IF implicit.type = 0 THEN x ELSE x \div 2
     ELSE Register(b)' = Register(b)

(***************************************************************************)
(* A sequence of random numbers is not disturbed: whatever tables the      *)
(* program changes to and back with initstate and setstate, the words that *)
(* decide the numbers of a table stay what they were until the table is    *)
(* drawn from, which moves them on by one, or seeded; and what is drawn is *)
(* the sum of the trinomial.  (setstate to the table in use is not         *)
(* covered: it goes back to the place that was saved last.)                *)
(***************************************************************************)
SequenceKept ==
  [][UNCHANGED <<implicit, tables>> \/ \A b \in Tables : Undisturbed(b)]_randomVars
=============================================================================
