------------------------------ MODULE Streams ------------------------------
(***************************************************************************)
(* What the stdio calls promise a program: a table of streams, each of     *)
(* them closed, on the console, on a memory buffer or on a host file       *)
(* handle that no other stream uses.  The standard streams are never       *)
(* closed: closing one puts it back on the console in its own direction.   *)
(***************************************************************************)
CONSTANTS Std,        \* stdin, stdout and stderr
          Files,      \* the streams the program may open
          Handles,    \* the host's file handles
          Closed      \* a stream that is not open

VARIABLE stream

\* The direction a standard stream has on the console.
Role(s) == IF s = "stdin" THEN {"r"} ELSE {"w"}
AtRest(s) == IF s \in Std THEN [on |-> "console", can |-> Role(s)] ELSE Closed

InUse == {stream[t].on : t \in {t \in Std \cup Files : stream[t] # Closed}}

Init == stream = [s \in Std \cup Files |-> AtRest(s)]

\* A stream is given a place; a host handle may be its own, never another's.
Place(s) ==
  \E can \in {{"r"}, {"w"}, {"r", "w"}},
     on \in {"console", "memory"} \cup (Handles \ InUse)
              \cup (IF stream[s] = Closed THEN {} ELSE {stream[s].on} \cap Handles) :
    /\ on = "console" => can # {"r", "w"}
    /\ stream' = [stream EXCEPT ![s] = [on |-> on, can |-> can]]

Close(s) == stream' = [stream EXCEPT ![s] = AtRest(s)]

Next == \E s \in Std \cup Files : Place(s) \/ Close(s)

Spec == Init /\ [][Next]_stream
=============================================================================
