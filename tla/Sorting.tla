------------------------------ MODULE Sorting ------------------------------
(***************************************************************************)
(* qsort (qsort.c) and bsearch (bsearch.c).  An array is a sequence of     *)
(* elements; cmp[x][y] is the program's comparison.  What the code counts  *)
(* in bytes is counted in elements here: sizes are multiples of es.        *)
(***************************************************************************)
EXTENDS Integers, Sequences, SequencesExt

CONSTANTS Few,     \* 7: shorter arrays are sorted by insertion
          Many     \* 40: longer ones choose the pivot from nine elements

ASSUME LimitsAssumption == Few \in Nat /\ Many \in Nat

Exchanged(s, i, j) == [s EXCEPT ![i] = s[j], ![j] = s[i]]

\* Insertion of the element at j below the ones that are greater.
Sunk(p, low, cmp) ==
  IF p.pl > low /\ cmp[p.s[p.pl - 1]][p.s[p.pl]] > 0
  THEN [s |-> Exchanged(p.s, p.pl, p.pl - 1), pl |-> p.pl - 1] ELSE p

Inserted(s, j, low, cmp) ==
  LET after[k \in 0..j - low] ==
        IF k = 0 THEN [s |-> s, pl |-> j] ELSE Sunk(after[k - 1], low, cmp)
  IN  after[j - low].s

InsertionSorted(s, low, n, cmp) ==
  LET after[k \in 0..n - 1] ==
        IF k = 0 THEN s ELSE Inserted(after[k - 1], low + k, low, cmp)
  IN  after[n - 1]

\* The middle one of three places.
med3(s, a, b, c, cmp) ==
  IF cmp[s[a]][s[b]] < 0
  THEN IF cmp[s[b]][s[c]] < 0 THEN b ELSE IF cmp[s[a]][s[c]] < 0 THEN c ELSE a
  ELSE IF cmp[s[b]][s[c]] > 0 THEN b ELSE IF cmp[s[a]][s[c]] < 0 THEN a ELSE c

\* The place of the pivot among n elements from a.
Pivot(s, a, n, cmp) ==
  LET mid == a + n \div 2
      last == a + n - 1
      d == n \div 8
      wide == n > Many
      pl == IF wide THEN med3(s, a, a + d, a + 2 * d, cmp) ELSE a
      pm == IF wide THEN med3(s, mid - d, mid, mid + d, cmp) ELSE mid
      pn == IF wide THEN med3(s, last - 2 * d, last - d, last, cmp) ELSE last
  IN  IF n > Few THEN med3(s, pl, pm, pn, cmp) ELSE mid

-----------------------------------------------------------------------------
\* Partition.  p holds the array s and the four places: below pa and above pd
\* are elements equal to the pivot at a, from pa to pb the smaller ones, from
\* pc to pd the greater ones.

\* The next step of the three loops.  An element that stopped the loop upwards
\* stays greater than the pivot while the loop downwards runs; two elements that
\* stopped both are exchanged.
Scanned(p, a, cmp) ==
  LET up == cmp[p.s[p.pb]][p.s[a]]
      down == cmp[p.s[p.pc]][p.s[a]]
  IN  IF p.pb > p.pc THEN p
      ELSE CASE up < 0 -> [p EXCEPT !.pb = @ + 1]
             [] up = 0 -> [p EXCEPT !.s = Exchanged(@, p.pa, p.pb), !.pa = @ + 1, !.pb = @ + 1,
                                    !.swapped = TRUE]
             [] up > 0 /\ down > 0 -> [p EXCEPT !.pc = @ - 1]
             [] up > 0 /\ down = 0 ->
                  [p EXCEPT !.s = Exchanged(@, p.pc, p.pd), !.pc = @ - 1, !.pd = @ - 1,
                            !.swapped = TRUE]
             [] up > 0 /\ down < 0 ->
                  [p EXCEPT !.s = Exchanged(@, p.pb, p.pc), !.pb = @ + 1, !.pc = @ - 1,
                            !.swapped = TRUE]

\* Each step brings pb and pc closer.
Partitioned(s, a, n, cmp) ==
  LET after[k \in 0..n - 1] ==
        IF k = 0
        THEN [s |-> Exchanged(s, a, Pivot(s, a, n, cmp)), pa |-> a + 1, pb |-> a + 1,
              pc |-> a + n - 1, pd |-> a + n - 1, swapped |-> FALSE]
        ELSE Scanned(after[k - 1], a, cmp)
  IN  after[n - 1]

\* The n elements from i exchanged with those from j, which are others.
vecswap(s, i, j, n) ==
  [k \in DOMAIN s |-> IF k \in i..i + n - 1 THEN s[k + (j - i)]
                      ELSE IF k \in j..j + n - 1 THEN s[k - (j - i)] ELSE s[k]]

\* Mutant: more is exchanged than there is between the equal elements.
GatheredTooMuch(q, a, n) ==
  LET d1 == q.pa - a
      d2 == Min({q.pd - q.pc, a + n - 1 - q.pd})
  IN  vecswap(vecswap(q.s, a, q.pb - d1, d1), q.pb, a + n - d2, d2)

\* The elements equal to the pivot brought from both ends to the middle.
Gathered(q, a, n) ==
  LET d1 == Min({q.pa - a, q.pb - q.pa})
      d2 == Min({q.pd - q.pc, a + n - 1 - q.pd})
  IN  vecswap(vecswap(q.s, a, q.pb - d1, d1), q.pb, a + n - d2, d2)

\* n elements from a, when what sorts fewer is given.  The smaller part is
\* sorted first; where nothing was exchanged, by insertion.
local_qsort(s, a, n, cmp, fewer) ==
  LET q == Partitioned(s, a, n, cmp)
      d1 == q.pb - q.pa
      d2 == q.pd - q.pc
      left(ss) == IF d1 > 1 THEN fewer[[s |-> ss, a |-> a, n |-> d1]] ELSE ss
      right(ss) == IF d2 > 1 THEN fewer[[s |-> ss, a |-> a + n - d2, n |-> d2]] ELSE ss
  IN  IF n < 2 THEN s
      ELSE IF n < Few THEN InsertionSorted(s, a, n, cmp)
      ELSE IF ~q.swapped THEN InsertionSorted(q.s, a, n, cmp)
      ELSE IF d1 <= d2 THEN right(left(Gathered(q, a, n)))
      ELSE left(right(Gathered(q, a, n)))

\* sorts[k] sorts up to k elements.
qsort(s, cmp) ==
  LET sorts[k \in 0..Len(s)] ==
        [x \in [s : Seq(Range(s)), a : Nat, n : 0..k] |->
           IF k = 0 THEN x.s ELSE local_qsort(x.s, x.a, x.n, cmp, sorts[k - 1])]
  IN  sorts[Len(s)][[s |-> s, a |-> 1, n |-> Len(s)]]

-----------------------------------------------------------------------------
\* The next step of the search of lim elements from base; at is 0 while the key
\* is not found.
Searched(key, s, p, cmp) ==
  LET at == p.base + p.lim \div 2
  IN  IF p.lim = 0 \/ p.at # 0 THEN p
      ELSE IF cmp[key][s[at]] = 0 THEN [p EXCEPT !.at = at]
      ELSE IF cmp[key][s[at]] > 0 THEN [p EXCEPT !.base = at + 1, !.lim = (@ - 1) \div 2]
      ELSE [p EXCEPT !.lim = @ \div 2]

bsearch(key, s, cmp) ==
  LET after[k \in 0..Len(s)] ==
        IF k = 0 THEN [base |-> 1, lim |-> Len(s), at |-> 0]
        ELSE Searched(key, s, after[k - 1], cmp)
  IN  after[Len(s)].at
============================================================================
