------------------------------ MODULE SortCalls ------------------------------
(***************************************************************************)
(* A program that has its arrays sorted, and looks for keys in them.       *)
(***************************************************************************)
EXTENDS Sorting, Caller

CONSTANT Arrays      \* the sequences of keys there may be

ASSUME ArraysAssumption == Arrays \subseteq Seq(Int)

Keys == UNION {Range(a) : a \in Arrays}

\* Elements are keys with a tag, which the comparison does not look at.
Tagged(a) == [i \in DOMAIN a |-> <<a[i], i>>]
Elements == Keys \X Nat
Comparison == [x \in Elements |-> [y \in Elements |-> x[1] - y[1]]]

Sorts == \E a \in Arrays :
  Called([to |-> "qsort", array |-> Tagged(a)], qsort(Tagged(a), Comparison))

SortSpec == CallsInit /\ [][(call = Idle /\ Sorts) \/ Returns]_callVars

(***************************************************************************)
(* qsort puts the same elements in the order of the comparison, whatever   *)
(* the pivots and however many elements are equal; and bsearch finds a key *)
(* in what was sorted just when it is there.                               *)
(***************************************************************************)
SortedRight ==
  call.to = "qsort" =>
    /\ Len(answer) = Len(call.array) /\ Range(answer) = Range(call.array)
    /\ \A i \in 2..Len(answer) : answer[i - 1][1] <= answer[i][1]
    /\ \A k \in Keys :
         LET at == bsearch(<<k, 1>>, answer, Comparison)
         IN  IF \E i \in DOMAIN answer : answer[i][1] = k THEN answer[at][1] = k ELSE at = 0
==============================================================================
