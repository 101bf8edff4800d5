------------------------------ MODULE MCMalloc ------------------------------
(* Blocks behind two-byte headers, on a heap of four smallest fragments.   *)
EXTENDS Malloc

(* 62 wraps round to no bytes at all.                                      *)
MCAmounts == {0, 1, 4, 62}
=============================================================================
