-------------------------------- MODULE Tape --------------------------------
(***************************************************************************)
(* What a program expects of a stream on a file: the bytes it reads are    *)
(* those at its place, and reading, pushing back, writing and seeking move *)
(* the place by what the calls say.                                        *)
(***************************************************************************)
EXTENDS Integers, Sequences

CONSTANT Bytes

VARIABLES contents,  \* the bytes of the file
          place,     \* how many of them are before the next byte read
          got        \* the bytes the last read gave

tape == <<contents, place, got>>

Init == contents \in Seq(Bytes) /\ place = 0 /\ got = <<>>

Read == \E n \in 0..(Len(contents) - place) :
          /\ got' = SubSeq(contents, place + 1, place + n)
          /\ place' = place + n
          /\ UNCHANGED contents

Write == /\ place' \in place..Len(contents')
         /\ got' = <<>>
         /\ Len(contents') = IF place' > Len(contents) THEN place' ELSE Len(contents)
         /\ \A i \in DOMAIN contents' :
              i \notin (place + 1)..place' => contents'[i] = contents[i]

\* Pushing back and seeking.
Move == place' \in 0..Len(contents) /\ got' = <<>> /\ UNCHANGED contents

Next == Read \/ Write \/ Move
Spec == Init /\ [][Next]_tape
=============================================================================
