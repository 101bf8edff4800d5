----------------------------- MODULE StreamData -----------------------------
(***************************************************************************)
(* The bytes through a stream on a host file: io/io-file-read.c,           *)
(* io-file-write.c, io-file-seek.c and the dispatchers of fs/fs-io.c.      *)
(*                                                                         *)
(* The library keeps no buffer, only one character pushed back; the host   *)
(* keeps the file and the position in it.  What goes wrong is then the     *)
(* arithmetic between the character, the position and the counts returned. *)
(*                                                                         *)
(* An Orderly program keeps to C: it seeks between reading and writing,    *)
(* pushes back only the character it read, and reads that again, or seeks  *)
(* to a fixed place, before it does something else.  It asks for a         *)
(* character, or a line, only when there is one, and for items of several  *)
(* bytes, or for more than a character pushed back, only when the file     *)
(* holds all of them; and its host fails no read of such.                  *)
(***************************************************************************)
EXTENDS Integers, Sequences

CONSTANTS Bytes, NL,       \* the bytes, and the newline among them
          LIMIT,           \* bound: the length of the file
          Sizes, Counts,   \* what fread and fwrite are asked for
          Rooms,           \* the sizes of the buffers given to fgets
          Offsets,         \* what fseek is given
          Orderly,
          None

ASSUME StreamDataAssumption ==
  /\ NL \in Bytes /\ None \notin Bytes /\ LIMIT \in Nat
  /\ Sizes \cup Counts \subseteq Nat /\ Rooms \subseteq Nat \ {0} /\ Offsets \subseteq Int
  /\ Orderly \in BOOLEAN

VARIABLES
  file,    \* the host's file
  pos,     \* the host's position in it
  pushed,  \* _shortbuf[0] when _IO_CHARPUSHED is set
  did,     \* "read", "wrote" or "sought": what was done last
  got,     \* the bytes the last call read
  call,    \* the last call, its item size, and the items it reported
  place    \* where the program is by what the calls reported

vars == <<file, pos, pushed, did, got, call, place>>

Contents == UNION {[1..n -> Bytes] : n \in 0..LIMIT}
Called(op, size, items) == [op |-> op, size |-> size, items |-> items]

Init == /\ file \in Contents /\ pos = 0 /\ pushed = None
        /\ did = "sought" /\ got = <<>>
        /\ call = Called("none", 0, 0) /\ place = 0

------------------------------------------------------------------------------
(* Helpers.  Least, what is behind the position, and a report to the       *)
(* program: bytes read, and items of a size that it counts on.             *)

Least(a, b) == IF a < b THEN a ELSE b
Left == Len(file) - pos
From(n) == SubSeq(file, pos + 1, pos + n)
Report(op, bytes, size, items) ==
  /\ got' = bytes /\ call' = Called(op, size, items)
  /\ place' = place + size * items
  /\ did' = "read"

MayRead == Orderly => did # "wrote"
MayWrite == Orderly => did # "read"

\* The character pushed back, as the bytes a read starts with.
\* Mutant: the flag is dropped and the character with it.
HeldDropped == <<>>
Held == IF pushed = None THEN <<>> ELSE <<pushed>>

\* Mutant: the character pushed back is not counted.
ToTransferAll(n) == n
ToTransfer(n) == n - (IF pushed = None THEN 0 ELSE 1)

(* The count returned for items of which n were asked: total bytes were    *)
(* asked of the host, and moved were moved.                                *)
Items(size, n, total, moved) ==
  IF moved = total THEN n ELSE IF size = 1 THEN moved ELSE moved \div n

\* The bytes moved back over, modulo the new count; modulo 0 leaves all.
Excess(size, n, total, moved) ==
  IF moved = total \/ size = 1 THEN 0
  ELSE IF moved \div n = 0 THEN moved ELSE moved % (moved \div n)

------------------------------------------------------------------------------
\* OS_BGet: at the end of the file it fails, or gives any byte, as its
\* carry flag, which says so, is not looked at.
BGet(op, size) ==
  \/ /\ Left > 0
     /\ pos' = pos + 1 /\ Report(op, From(1), size, 1)
  \/ /\ Left = 0 /\ ~Orderly
     /\ UNCHANGED pos
     /\ \/ Report(op, <<>>, size, 0)
        \/ \E c \in Bytes : Report(op, <<c>>, size, 1)

fgetc == /\ MayRead
         /\ IF pushed # None
            THEN UNCHANGED pos /\ Report("fgetc", <<pushed>>, 1, 1)
            ELSE BGet("fgetc", 1)
         /\ pushed' = None
         /\ UNCHANGED file

\* One item of one byte is read by fgetc.
freadByte == /\ 1 \in Sizes /\ 1 \in Counts /\ MayRead
             /\ IF pushed # None
                THEN UNCHANGED pos /\ Report("fread", <<pushed>>, 1, 1)
                ELSE BGet("fread", 1)
             /\ pushed' = None
             /\ UNCHANGED file

fread(size, n) ==
  LET total == ToTransfer(size * n)
      moved == Least(total, Left)
  IN  /\ MayRead /\ size * n > 1
      /\ Orderly => moved = total \/ (size = 1 /\ pushed = None)
      /\ Report("fread", Held \o From(moved), size, Items(size, n, total, moved))
      /\ pos' = pos + moved - Excess(size, n, total, moved)
      /\ pushed' = None
      /\ UNCHANGED file

\* The read of the host fails: the character pushed back is gone.
freadFails(size, n) ==
  /\ MayRead /\ size * n > 1
  /\ Orderly => pushed = None
  /\ Report("fread", <<>>, size, 0)
  /\ pushed' = None
  /\ UNCHANGED <<file, pos>>

\* One character is pushed back at most.
ungetc(c) ==
  /\ pushed = None
  /\ Orderly => did = "read" /\ got # <<>> /\ c = got[Len(got)]
  /\ pushed' = c
  /\ place' = place - 1
  /\ got' = <<>> /\ did' = "read" /\ call' = Called("ungetc", 1, 1)
  /\ UNCHANGED <<file, pos>>

\* __fs_read_line: "c = '\n'" ends the loop behind the first character.
\* The character pushed back is left for later.
fgets(size) ==
  /\ MayRead /\ (Orderly => pushed = None)
  /\ IF size = 1 THEN UNCHANGED pos /\ Report("fgets", <<>>, size, 0)
     ELSE \/ Left > 0 /\ pos' = pos + 1
             /\ got' = From(1) /\ call' = Called("fgets", size, 1)
             /\ place' = place + 1 /\ did' = "read"
          \/ Left = 0 /\ ~Orderly /\ UNCHANGED pos /\ Report("fgets", <<>>, size, 0)
  /\ UNCHANGED <<file, pushed>>

------------------------------------------------------------------------------
\* The file with moved bytes c written at the position.
Written(moved, c) ==
  [i \in 1..(IF pos + moved > Len(file) THEN pos + moved ELSE Len(file)) |->
     IF pos < i /\ i <= pos + moved THEN c ELSE file[i]]

Wrote(op, size, items) ==
  /\ place' = place + size * items /\ call' = Called(op, size, items)
  /\ got' = <<>> /\ did' = "wrote"

\* The host takes all, or fewer, or fails; then the character stays pushed.
fwrite(size, n, c, moved) ==
  LET total == size * n
  IN  /\ MayWrite /\ total > 0 /\ moved <= total /\ pos + moved <= LIMIT
      /\ Orderly => moved = total \/ size = 1
      /\ file' = Written(moved, c)
      /\ pos' = pos + moved - Excess(size, n, total, moved)
      /\ Wrote("fwrite", size, Items(size, n, total, moved))
      /\ pushed' = None

fputc(c) ==
  /\ MayWrite /\ pos < LIMIT
  /\ file' = Written(1, c) /\ pos' = pos + 1
  /\ Wrote("fputc", 1, 1)
  /\ pushed' = None

writeFails == MayWrite /\ Wrote("fwrite", 1, 0) /\ UNCHANGED <<file, pos, pushed>>

\* __fs_write_pos: from the start, the position or the end of the file.
Origin(whence) == IF whence = "set" THEN 0
                  ELSE IF whence = "cur" THEN pos ELSE Len(file)

\* The host refuses a position outside the file; nothing changes then.
fseek(p, whence) ==
  LET to == Origin(whence) + p
  IN  /\ to \in 0..Len(file)
      /\ Orderly /\ whence = "cur" => pushed = None
      /\ pos' = to /\ pushed' = None
      /\ place' = (IF whence = "cur" THEN place ELSE Origin(whence)) + p
      /\ did' = "sought" /\ got' = <<>> /\ call' = Called("fseek", 1, 0)
      /\ UNCHANGED file

Next == \/ fgetc \/ freadByte
        \/ \E size \in Sizes, n \in Counts : fread(size, n) \/ freadFails(size, n)
        \/ \E c \in Bytes : ungetc(c) \/ fputc(c)
        \/ \E size \in Rooms : fgets(size)
        \/ \E size \in Sizes, n \in Counts, c \in Bytes, moved \in 0..LIMIT :
             fwrite(size, n, c, moved)
        \/ writeFails
        \/ \E p \in Offsets, whence \in {"set", "cur", "end"} : fseek(p, whence)

Spec == Init /\ [][Next]_vars

------------------------------------------------------------------------------
(* The position is in the file, behind a character when one is pushed back. *)
TypeOK ==
  /\ file \in Contents /\ pos \in 0..Len(file)
  /\ pushed \in Bytes \cup {None}
  /\ pushed # None => pos > 0 /\ pushed = file[pos]

(* What the calls report is enough to know the place: it is the position   *)
(* of the host, less a character pushed back.                              *)
PlaceKept == place = pos - (IF pushed = None THEN 0 ELSE 1)

(* The stream is a tape: each read gives the bytes at the place, a         *)
(* character pushed back first, whichever call reads it.                   *)
Promise == INSTANCE Tape WITH contents <- file
RefinesTape == Promise!Spec

(* "fread returns the correct item count when the item size is not 1"      *)
(* (changelogs/releases/0.14.md).                                          *)
ItemsCounted ==
  call.op = "fread" => call.items = Len(got) \div call.size
=============================================================================
