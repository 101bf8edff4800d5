------------------------------- MODULE Console -------------------------------
(***************************************************************************)
(* The console behind a stream (io/io-consoleio.c) and the clock of the    *)
(* program (time/time-clock.c), which stands still while the console waits *)
(* for the user.  The host's time goes on by itself; its counter has so    *)
(* many bits that it does not come round here.                             *)
(***************************************************************************)
EXTENDS Integers, Sequences, SequencesExt

CONSTANTS MaxTime,      \* bound: the last time looked at
          KeySequences, \* what a user may type before return
          Written,      \* what a program may write at once
          Room          \* the sizes of buffer a program may read a line into

VARIABLES
  now,                    \* the host's monotonic time
  base_time, frozen_time,
  waiting,                \* the call that waits for the user, or Awake
  line,                   \* the buffer of the last line: its size and characters
  screen, wrote,          \* what is on the screen, and what the last write returned
  ran                     \* for the property: the time that went by while the
                          \* program ran

consoleVars == <<now, base_time, frozen_time, waiting, line, screen, wrote, ran>>

NoLine == [size |-> 0, text |-> <<>>]
EOL == "newline"
Awake == <<"no">>

__sysclock == now

\* __clock_init at the start of the program.
ConsoleInit ==
  /\ now = 1 /\ base_time = __sysclock /\ frozen_time = 0
  /\ waiting = Awake /\ line = NoLine
  /\ screen = <<>> /\ wrote = 0
  /\ ran = 0

Tick == /\ now < MaxTime
        /\ now' = now + 1
        /\ ran' = IF waiting = Awake THEN ran + 1 ELSE ran
        /\ UNCHANGED <<base_time, frozen_time, waiting, line, screen, wrote>>

-----------------------------------------------------------------------------
\* The clock.

\* Mutant: the clock that runs again is still taken for a frozen one.
__clock_freezeStays(freeze) ==
  IF freeze
  THEN /\ frozen_time' = IF frozen_time = 0 THEN __sysclock ELSE frozen_time
       /\ UNCHANGED base_time
  ELSE /\ base_time' = base_time + (__sysclock - frozen_time)
       /\ UNCHANGED frozen_time

__clock_freeze(freeze) ==
  IF freeze
  THEN /\ frozen_time' = IF frozen_time = 0 THEN __sysclock ELSE frozen_time
       /\ UNCHANGED base_time
  ELSE /\ base_time' = IF frozen_time # 0 THEN base_time + (__sysclock - frozen_time)
                       ELSE base_time
       /\ frozen_time' = 0

clock == IF frozen_time # 0 THEN frozen_time - base_time ELSE __sysclock - base_time

-----------------------------------------------------------------------------
\* The keyboard.  A call that reads is two steps: the user is as slow as he likes.

Waits(call) ==
  /\ waiting = Awake
  /\ waiting' = call
  /\ __clock_freeze(TRUE)
  /\ UNCHANGED <<now, line, screen, wrote, ran>>

Answered(call) ==
  /\ waiting = call
  /\ waiting' = Awake
  /\ __clock_freeze(FALSE)
  /\ UNCHANGED <<now, screen, wrote, ran>>

__con_read_byte == Waits(<<"byte">>)
ReadByteEnds == Answered(<<"byte">>) /\ UNCHANGED line

\* The length given to the host counts the terminator, so that there is room
\* for the newline that is put behind the line.
__con_read_line == \E size \in Room : Waits(<<"line", size>>)

ReadLineEnds == \E size \in Room, keys \in KeySequences :
  /\ Answered(<<"line", size>>)
  /\ Len(keys) <= size - 2
  /\ line' = [size |-> size, text |-> Append(keys, EOL)]

\* Escape: no line.
ReadLineEscapes == \E size \in Room :
  /\ Answered(<<"line", size>>)
  /\ UNCHANGED line

-----------------------------------------------------------------------------
\* The screen.  The host writes all of what it is given, or refuses it.

\* A text is given to the host in runs without a newline and newlines.
HostCalls(text) ==
  LET starts == {i \in DOMAIN text : text[i] = EOL \/ i = 1 \/ text[i - 1] = EOL}
      order == SetToSortSeq(starts, LAMBDA i, j : i < j)
      end(k) == IF k = Len(order) THEN Len(text) ELSE order[k + 1] - 1
  IN  [k \in DOMAIN order |-> SubSeq(text, order[k], end(k))]

\* Call number refused of the host fails, and ends the loop.
__con_write_multiple(text, refused) ==
  LET done == FlattenSeq(SubSeq(HostCalls(text), 1, refused - 1))
  IN  /\ waiting = Awake
      /\ screen' = done /\ wrote' = Len(done)
      /\ UNCHANGED <<now, base_time, frozen_time, waiting, line, ran>>

\* One character is said to be written whatever the host did.
__con_write_byte(c, refused) ==
  /\ waiting = Awake
  /\ screen' = IF refused = 1 THEN <<>> ELSE <<c>>
  /\ wrote' = 1
  /\ UNCHANGED <<now, base_time, frozen_time, waiting, line, ran>>

ConsoleNext ==
  \/ Tick
  \/ __con_read_byte \/ ReadByteEnds
  \/ __con_read_line \/ ReadLineEnds \/ ReadLineEscapes
  \/ \E text \in Written : \E refused \in 1..Len(HostCalls(text)) + 1 :
       __con_write_multiple(text, refused)
  \/ \E c \in {"a", EOL}, refused \in 1..2 : __con_write_byte(c, refused)

ConsoleSpec == ConsoleInit /\ [][ConsoleNext]_consoleVars

-----------------------------------------------------------------------------
(***************************************************************************)
(* clock() is the time the program has run: what went by while the console *)
(* waited for the user is not in it, even while it still waits.            *)
(***************************************************************************)
ClockCountsRunning == clock = ran
==============================================================================
