----------------------------- MODULE TextMemory -----------------------------
(***************************************************************************)
(* The memory of a program that keeps texts in it, and calls the functions *)
(* on them.                                                                *)
(***************************************************************************)
EXTENDS Integers, Sequences, SequencesExt

CONSTANT MemorySize          \* how many bytes there are

ASSUME SizeAssumption == MemorySize \in Nat

Strs == INSTANCE Strings

\* strcpy of a constant, or what the program wrote there itself.
WithText(m, at, text) ==
  [p \in DOMAIN m |-> IF p \in at..at + Len(text) - 1 THEN text[p - at + 1]
                      ELSE IF p = at + Len(text) THEN 0 ELSE m[p]]
=============================================================================
