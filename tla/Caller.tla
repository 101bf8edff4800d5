------------------------------- MODULE Caller -------------------------------
(***************************************************************************)
(* A program that calls functions of the library which keep no state: a    *)
(* call is made, its answer is there, and it returns.                      *)
(***************************************************************************)

VARIABLES call, answer
callVars == <<call, answer>>

Idle == [to |-> "nothing"]
CallsInit == call = Idle /\ answer = <<>>

Called(c, a) == call' = c /\ answer' = a
Returns == call # Idle /\ call' = Idle /\ answer' = <<>>
=============================================================================
