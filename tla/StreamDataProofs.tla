-------------------------- MODULE StreamDataProofs --------------------------
(***************************************************************************)
(* An orderly program's stream keeps its place and is a tape, for any      *)
(* bytes, sizes, counts and offsets.                                       *)
(*                                                                         *)
(* PlaceKept and TypeOK are not inductive alone: ungetc pushes back the    *)
(* last byte read, so the proof also has to know that this byte lies just  *)
(* in front of the position, and that nothing is pushed back when the      *)
(* program goes on to write.                                               *)
(***************************************************************************)
EXTENDS StreamData, TLAPS

\* The last byte read is in front of the position.
LastRead ==
  did = "read" /\ got # <<>> =>
    /\ pushed = None /\ pos > 0
    /\ Len(got) > 0 /\ got[Len(got)] = file[pos]

IInv == /\ TypeOK /\ PlaceKept /\ LastRead
        /\ got \in Seq(Bytes)
        /\ pushed # None => did = "read"

------------------------------------------------------------------------------
(* Facts about sequences, and about the contents a file may have.          *)

LEMMA ContentsAreSeqs ==
  ASSUME NEW f \in Contents
  PROVE  /\ f \in Seq(Bytes) /\ Len(f) \in 0..LIMIT
         /\ f \in [1..Len(f) -> Bytes]
<1>1. PICK k \in 0..LIMIT : f \in [1..k -> Bytes]
  BY DEF Contents
<1>2. k \in Nat
  BY StreamDataAssumption
<1> QED BY <1>1, <1>2

LEMMA ShortSeqs ==
  ASSUME NEW k \in 0..LIMIT, NEW f \in [1..k -> Bytes]
  PROVE  f \in Contents /\ f \in Seq(Bytes) /\ Len(f) = k
<1>1. k \in Nat
  BY StreamDataAssumption
<1> QED BY <1>1 DEF Contents

\* A piece of a sequence.
LEMMA PieceFacts ==
  ASSUME NEW S, NEW s \in Seq(S), NEW a \in Nat, NEW n \in Nat, a + n <= Len(s)
  PROVE  /\ SubSeq(s, a + 1, a + n) \in Seq(S)
         /\ Len(SubSeq(s, a + 1, a + n)) = n
         /\ \A i \in 1..n : SubSeq(s, a + 1, a + n)[i] = s[a + i]
OBVIOUS

\* Two sequences that agree everywhere are the same.
LEMMA SameSeq ==
  ASSUME NEW S, NEW s \in Seq(S), NEW t \in Seq(S), Len(s) = Len(t),
         \A i \in 1..Len(s) : s[i] = t[i]
  PROVE  s = t
OBVIOUS

------------------------------------------------------------------------------
(* Each action of an orderly program keeps the invariant, and is a step of *)
(* the tape.                                                               *)

Kept == IInv' /\ [Promise!Next]_<<file, place, got>>

\* A read that gives n bytes of the tape is one of its reads.
LEMMA TapeRead ==
  ASSUME IInv, NEW n \in 0..(Len(file) - place),
         got' = SubSeq(file, place + 1, place + n), place' = place + n,
         UNCHANGED file
  PROVE  Promise!Next
BY DEF Promise!Next, Promise!Read

LEMMA TapeMove ==
  ASSUME place' \in 0..Len(file), got' = <<>>, UNCHANGED file
  PROVE  Promise!Next
BY DEF Promise!Next, Promise!Move

\* The place, and what it says of the position.
LEMMA PlaceFacts ==
  ASSUME IInv
  PROVE  /\ file \in Seq(Bytes) /\ Len(file) \in 0..LIMIT /\ Len(file) \in Nat
         /\ pos \in Nat /\ pos <= Len(file) /\ place \in 0..Len(file)
         /\ pushed = None => place = pos
         /\ pushed # None => /\ place = pos - 1 /\ pushed = file[pos]
                            /\ pushed \in Bytes
BY ContentsAreSeqs, StreamDataAssumption DEF IInv, TypeOK, PlaceKept

\* What the host gives next.
LEMMA BGetStep ==
  ASSUME IInv, Orderly, NEW op, pushed = None, BGet(op, 1), pushed' = None,
         UNCHANGED file
  PROVE  Kept
<1>1. /\ Left > 0 /\ pos' = pos + 1 /\ got' = From(1)
      /\ place' = place + 1 /\ did' = "read"
  BY DEF BGet, Report
<1>2. /\ 1 \in 0..(Len(file) - pos) /\ place = pos
  BY <1>1, PlaceFacts DEF Left
<1>3. got' \in Seq(Bytes) /\ Len(got') = 1 /\ got'[1] = file[pos + 1]
  <2>1. /\ file \in Seq(Bytes) /\ pos \in Nat /\ 1 \in Nat /\ 1 \in 1..1
        /\ pos + 1 <= Len(file)
    BY <1>2, PlaceFacts
  <2> QED BY <1>1, <2>1, PieceFacts DEF From
<1>4. IInv'
  BY <1>1, <1>2, <1>3, PlaceFacts
     DEF IInv, TypeOK, PlaceKept, LastRead
<1>5. Promise!Next
  BY <1>1, <1>2, TapeRead DEF From
<1> QED BY <1>4, <1>5 DEF Kept

\* The character pushed back is read again.
LEMMA PushedStep ==
  ASSUME IInv, NEW op, pushed # None, UNCHANGED <<file, pos>>,
         Report(op, <<pushed>>, 1, 1), pushed' = None
  PROVE  Kept
<1>1. got' = <<pushed>> /\ place' = place + 1 /\ did' = "read"
  BY DEF Report
<1>2. /\ place + 1 = pos /\ pushed = file[pos] /\ pushed \in Bytes
      /\ pos \in 1..Len(file) /\ file \in Seq(Bytes)
  BY PlaceFacts
<1>3. got' \in Seq(Bytes) /\ Len(got') = 1 /\ got'[1] = file[pos]
  BY <1>1, <1>2
<1>4. IInv'
  BY <1>1, <1>2, <1>3, PlaceFacts DEF IInv, TypeOK, PlaceKept, LastRead
<1>5. SubSeq(file, place + 1, place + 1) = <<file[pos]>>
  <2>1. /\ place \in Nat /\ place + 1 <= Len(file) /\ 1 \in Nat /\ 1 \in 1..1
    BY <1>2, PlaceFacts
  <2> DEFINE t == SubSeq(file, place + 1, place + 1)
  <2>2. t \in Seq(Bytes) /\ Len(t) = 1 /\ t[1] = file[place + 1]
    BY <1>2, <2>1, PieceFacts
  <2>3. <<file[pos]>> \in Seq(Bytes) /\ Len(<<file[pos]>>) = 1
        /\ <<file[pos]>>[1] = t[1]
    BY <1>2, <2>2
  <2> HIDE DEF t
  <2>4. t = <<file[pos]>>
    BY <2>2, <2>3, SameSeq
  <2> QED BY <2>4 DEF t
<1>6. Promise!Next
  BY <1>1, <1>2, <1>5, PlaceFacts, TapeRead
<1> QED BY <1>4, <1>6 DEF Kept

LEMMA fgetcStep == ASSUME IInv, Orderly, fgetc PROVE Kept
<1>1. CASE pushed # None
  BY <1>1, PushedStep DEF fgetc
<1>2. CASE pushed = None
  BY <1>2, BGetStep DEF fgetc
<1> QED BY <1>1, <1>2

LEMMA freadByteStep == ASSUME IInv, Orderly, freadByte PROVE Kept
<1>1. CASE pushed # None
  BY <1>1, PushedStep DEF freadByte
<1>2. CASE pushed = None
  BY <1>2, BGetStep DEF freadByte
<1> QED BY <1>1, <1>2

\* The items of two pieces one behind the other.
LEMMA TwoPieces ==
  ASSUME NEW S, NEW s \in Seq(S), NEW t \in Seq(S),
         NEW n \in Nat, n = Len(s) + Len(t)
  PROVE  /\ s \o t \in Seq(S) /\ Len(s \o t) = n
         /\ \A i \in 1..n : (s \o t)[i] = IF i <= Len(s) THEN s[i] ELSE t[i - Len(s)]
<1>1. s \o t \in Seq(S)
  OBVIOUS
<1>2. Len(s \o t) = n
  OBVIOUS
<1>3. \A i \in 1..n : (s \o t)[i] = IF i <= Len(s) THEN s[i] ELSE t[i - Len(s)]
  OBVIOUS
<1> QED BY <1>1, <1>2, <1>3

\* A read of the host's bytes behind what is held back.
LEMMA ReadStep ==
  ASSUME IInv, NEW moved \in Nat, moved <= Left,
         got' = Held \o From(moved), pos' = pos + moved, place' = pos',
         pushed' = None, did' = "read", UNCHANGED file
  PROVE  Kept
<1> DEFINE h == Len(Held)
           tail == From(moved)
           n == h + moved
<1>1. /\ file \in Seq(Bytes) /\ Len(file) \in Nat /\ pos \in Nat
      /\ pos + moved <= Len(file) /\ place \in Nat
  BY PlaceFacts DEF Left
<1>2. /\ Held \in Seq(Bytes) /\ h \in {0, 1} /\ place = pos - h
      /\ h = 1 => Held[1] = file[pos]
  BY PlaceFacts DEF Held
<1>3. /\ tail \in Seq(Bytes) /\ Len(tail) = moved
      /\ \A i \in 1..moved : tail[i] = file[pos + i]
  BY <1>1, PieceFacts DEF From
<1>4. n \in Nat /\ place + n = pos' /\ pos' \in Nat /\ pos' <= Len(file)
  BY <1>1, <1>2
<1> HIDE DEF tail
<1>5. /\ got' \in Seq(Bytes) /\ Len(got') = n
      /\ \A i \in 1..n : got'[i] = IF i <= h THEN Held[i] ELSE tail[i - h]
  <2>1. got' = Held \o tail
    BY DEF tail
  <2>2. n = Len(Held) + Len(tail)
    BY <1>3
  <2>3. Held \in Seq(Bytes) /\ tail \in Seq(Bytes) /\ n \in Nat
    BY <1>2, <1>3, <1>4
  <2> HIDE DEF n, h
  <2>4. /\ Held \o tail \in Seq(Bytes) /\ Len(Held \o tail) = n
        /\ \A i \in 1..n : (Held \o tail)[i] =
             IF i <= Len(Held) THEN Held[i] ELSE tail[i - Len(Held)]
    BY <2>2, <2>3, TwoPieces, ZenonT(40)
  <2> QED BY <2>1, <2>4, Zenon DEF h
<1>6. \A i \in 1..n : got'[i] = file[place + i]
  <2> SUFFICES ASSUME NEW i \in 1..n PROVE got'[i] = file[place + i]
    OBVIOUS
  <2>1. CASE i <= h
    <3>1. i = 1 /\ h = 1 /\ place + i = pos
      BY <1>1, <1>2, <1>4, <2>1, SMTT(30)
    <3>2. got'[i] = Held[i] /\ Held[i] = file[pos]
      BY <1>2, <1>5, <2>1, <3>1
    <3> QED BY <3>1, <3>2
  <2>2. CASE i > h
    <3>1. i - h \in 1..moved /\ pos + (i - h) = place + i /\ ~(i <= h)
      BY <1>1, <1>2, <1>4, <2>2
    <3> QED BY <1>3, <1>5, <3>1
  <2>3. i \in Nat /\ h \in Nat
    BY <1>2, <1>4
  <2>4. i <= h \/ i > h
    BY <2>3
  <2> QED BY <2>1, <2>2, <2>4
<1>7. got' = SubSeq(file, place + 1, place + n)
  <2> DEFINE t == SubSeq(file, place + 1, place + n)
  <2>1. t \in Seq(Bytes) /\ Len(t) = n /\ \A i \in 1..n : t[i] = file[place + i]
    BY <1>1, <1>4, PieceFacts
  <2> HIDE DEF t
  <2>2. got' = t
    BY <1>5, <1>6, <2>1, SameSeq
  <2> QED BY <2>2 DEF t
<1>8. Promise!Next
  BY <1>1, <1>4, <1>7, TapeRead
<1>9. LastRead'
  <2> SUFFICES ASSUME got' # <<>>
               PROVE  pos' > 0 /\ Len(got') > 0 /\ got'[Len(got')] = file[pos']
    BY DEF LastRead
  <2>1. n > 0
    BY <1>4, <1>5
  <2> QED BY <1>1, <1>4, <1>5, <1>6, <2>1, SMTT(30)
<1>10. IInv'
  BY <1>4, <1>5, <1>9 DEF IInv, TypeOK, PlaceKept
<1> QED BY <1>8, <1>10 DEF Kept

LEMMA freadStep ==
  ASSUME IInv, Orderly, NEW size \in Sizes, NEW n \in Counts, fread(size, n)
  PROVE  Kept
<1> DEFINE w == size * n
           total == ToTransfer(w)
           moved == Least(total, Left)
<1>1. size \in Nat /\ n \in Nat /\ w \in Nat /\ w > 1
  BY StreamDataAssumption DEF fread
<1>2. /\ got' = Held \o From(moved) /\ place' = place + size * Items(size, n, total, moved)
      /\ pos' = pos + moved - Excess(size, n, total, moved)
      /\ did' = "read" /\ pushed' = None /\ UNCHANGED file
      /\ moved = total \/ (size = 1 /\ pushed = None)
  BY DEF fread, Report
<1> HIDE DEF w
<1>3. total \in Nat /\ moved \in Nat /\ moved <= Left
  BY <1>1, PlaceFacts DEF ToTransfer, Least, Left
<1>4. place' = pos' /\ pos' = pos + moved
  <2>1. CASE moved = total
    <3>1. Excess(size, n, total, moved) = 0 /\ Items(size, n, total, moved) = n
      BY <2>1 DEF Excess, Items
    <3>2. pos' = pos + moved /\ place' = place + w
      BY <1>2, <1>3, <3>1, PlaceFacts DEF w
    <3>3. place + w = pos + total
      BY <1>1, PlaceFacts DEF ToTransfer
    <3> QED BY <2>1, <3>2, <3>3
  <2>2. CASE moved # total
    <3>1. /\ size = 1 /\ pushed = None /\ Items(size, n, total, moved) = moved
          /\ Excess(size, n, total, moved) = 0
      BY <1>2, <2>2 DEF Excess, Items
    <3> QED BY <1>2, <1>3, <3>1, PlaceFacts
  <2> QED BY <2>1, <2>2
<1> HIDE DEF moved
<1> QED BY <1>2, <1>3, <1>4, ReadStep

\* A call that reads nothing leaves everything as it was, pushing back aside.
LEMMA IdleStep ==
  ASSUME IInv, got' = <<>>, place' = place, UNCHANGED <<file, pos, pushed>>,
         pushed # None => did' = "read"
  PROVE  Kept
<1>1. <<>> \in Seq(Bytes)
  OBVIOUS
<1>2. IInv'
  BY <1>1 DEF IInv, TypeOK, PlaceKept, LastRead
<1>3. Promise!Next
  BY PlaceFacts, TapeMove
<1> QED BY <1>2, <1>3 DEF Kept

LEMMA freadFailsStep ==
  ASSUME IInv, Orderly, NEW size \in Sizes, NEW n \in Counts, freadFails(size, n)
  PROVE  Kept
<1>1. place' = place
  BY StreamDataAssumption, PlaceFacts DEF freadFails, Report
<1> QED BY <1>1, IdleStep DEF freadFails, Report

LEMMA fgetsStep ==
  ASSUME IInv, Orderly, NEW size \in Rooms, fgets(size)
  PROVE  Kept
<1>1. pushed = None /\ pushed' = None /\ UNCHANGED file
  BY DEF fgets
<1>2. CASE size = 1
  <2>1. place' = place
    BY <1>2, PlaceFacts DEF fgets, Report
  <2> QED BY <1>1, <1>2, <2>1, IdleStep DEF fgets, Report
<1>3. CASE size # 1
  <2>1. /\ Left > 0 /\ pos' = pos + 1 /\ got' = From(1)
        /\ place' = place + 1 /\ did' = "read"
    BY <1>3 DEF fgets
  <2>2. /\ 1 \in Nat /\ 1 <= Left /\ place' = pos'
    BY <1>1, <2>1, PlaceFacts DEF Left
  <2>3. From(1) \in Seq(Bytes) /\ Held = <<>>
    BY <1>1, <2>2, PieceFacts, PlaceFacts DEF From, Left, Held
  <2>4. got' = Held \o From(1)
    BY <2>1, <2>3
  <2> QED BY <1>1, <2>1, <2>2, <2>4, ReadStep
<1> QED BY <1>2, <1>3

LEMMA ungetcStep ==
  ASSUME IInv, Orderly, NEW c \in Bytes, ungetc(c)
  PROVE  Kept
<1>1. /\ pushed = None /\ did = "read" /\ got # <<>> /\ c = got[Len(got)]
      /\ pushed' = c /\ place' = place - 1 /\ got' = <<>> /\ did' = "read"
      /\ UNCHANGED <<file, pos>>
  BY DEF ungetc
<1>2. pos > 0 /\ c = file[pos] /\ place = pos
  BY <1>1, PlaceFacts DEF IInv, LastRead
<1>3. <<>> \in Seq(Bytes) /\ c # None
  BY StreamDataAssumption
<1>4. IInv'
  BY <1>1, <1>2, <1>3, PlaceFacts DEF IInv, TypeOK, PlaceKept, LastRead
<1>5. Promise!Next
  BY <1>1, <1>2, PlaceFacts, TapeMove
<1> QED BY <1>4, <1>5 DEF Kept

------------------------------------------------------------------------------
\* A write of the host, where nothing is pushed back.
LEMMA WriteStep ==
  ASSUME IInv, pushed = None, NEW moved \in Nat, NEW c \in Bytes,
         pos + moved <= LIMIT, file' = Written(moved, c),
         pos' = pos + moved, place' = pos', got' = <<>>, did' = "wrote",
         pushed' = None
  PROVE  Kept
<1> DEFINE m == IF pos + moved > Len(file) THEN pos + moved ELSE Len(file)
<1>1. /\ file \in [1..Len(file) -> Bytes] /\ Len(file) \in 0..LIMIT
      /\ pos \in Nat /\ pos <= Len(file) /\ place = pos /\ LIMIT \in Nat
  BY PlaceFacts, ContentsAreSeqs, StreamDataAssumption DEF IInv, TypeOK
<1>2. m \in 0..LIMIT /\ m >= pos + moved
  BY <1>1
<1>3. /\ file' \in [1..m -> Bytes]
      /\ \A i \in 1..m : i \notin (pos + 1)..pos' => file'[i] = file[i]
  <2>1. \A i \in 1..m : ~(pos < i /\ i <= pos + moved) => i \in 1..Len(file)
    BY <1>1, <1>2
  <2>2. file' = [i \in 1..m |-> IF pos < i /\ i <= pos + moved THEN c ELSE file[i]]
    BY DEF Written
  <2>3. file' \in [1..m -> Bytes]
    BY <1>1, <2>1, <2>2
  <2>4. ASSUME NEW i \in 1..m, i \notin (pos + 1)..pos' PROVE file'[i] = file[i]
    <3>1. ~(pos < i /\ i <= pos + moved)
      BY <1>1, <1>2, <2>4
    <3> QED BY <2>2, <3>1
  <2> QED BY <2>3, <2>4
<1> HIDE DEF m
<1>4. file' \in Contents /\ Len(file') = m
  BY <1>2, <1>3, ShortSeqs
<1>5. pos' \in Nat /\ pos' <= m /\ pos' >= pos
  BY <1>1, <1>2
<1>6. IInv'
  BY <1>4, <1>5 DEF IInv, TypeOK, PlaceKept, LastRead
<1>7. Promise!Next
  <2>1. place' \in place..Len(file')
    BY <1>1, <1>2, <1>4, <1>5
  <2>2. Len(file') = IF place' > Len(file) THEN place' ELSE Len(file)
    BY <1>4 DEF m
  <2>3. \A i \in DOMAIN file' : i \notin (place + 1)..place' => file'[i] = file[i]
    BY <1>1, <1>3
  <2> QED BY <2>1, <2>2, <2>3 DEF Promise!Next, Promise!Write
<1> QED BY <1>6, <1>7 DEF Kept

LEMMA fwriteStep ==
  ASSUME IInv, Orderly, NEW size \in Sizes, NEW n \in Counts, NEW c \in Bytes,
         NEW moved \in 0..LIMIT, fwrite(size, n, c, moved)
  PROVE  Kept
<1> DEFINE w == size * n
<1>1. /\ size \in Nat /\ n \in Nat /\ w \in Nat /\ moved \in Nat
      /\ pushed = None /\ place = pos /\ pos \in Nat
  BY StreamDataAssumption, PlaceFacts DEF fwrite, MayWrite, IInv
<1>2. /\ pos + moved <= LIMIT /\ file' = Written(moved, c)
      /\ pos' = pos + moved - Excess(size, n, w, moved)
      /\ place' = place + size * Items(size, n, w, moved)
      /\ got' = <<>> /\ did' = "wrote" /\ pushed' = None
      /\ moved = w \/ size = 1
  BY DEF fwrite, Wrote
<1> HIDE DEF w
<1>3. place' = pos' /\ pos' = pos + moved
  <2>1. CASE moved = w
    <3>1. Excess(size, n, w, moved) = 0 /\ Items(size, n, w, moved) = n
      BY <2>1 DEF Excess, Items
    <3>2. place' = place + w
      BY <1>2, <3>1 DEF w
    <3> QED BY <1>1, <1>2, <2>1, <3>1, <3>2
  <2>2. CASE moved # w
    <3>1. /\ size = 1 /\ Items(size, n, w, moved) = moved
          /\ Excess(size, n, w, moved) = 0
      BY <1>2, <2>2 DEF Excess, Items
    <3> QED BY <1>1, <1>2, <3>1
  <2> QED BY <2>1, <2>2
<1> QED BY <1>1, <1>2, <1>3, WriteStep

LEMMA fputcStep ==
  ASSUME IInv, Orderly, NEW c \in Bytes, fputc(c)
  PROVE  Kept
<1>1. pushed = None /\ place = pos /\ pos \in Nat
  BY PlaceFacts DEF fputc, MayWrite, IInv
<1>2. /\ 1 \in Nat /\ pos + 1 <= LIMIT /\ file' = Written(1, c)
      /\ pos' = pos + 1 /\ place' = pos' /\ got' = <<>> /\ did' = "wrote"
      /\ pushed' = None
  BY <1>1, StreamDataAssumption DEF fputc, Wrote
<1> QED BY <1>1, <1>2, WriteStep

LEMMA writeFailsStep == ASSUME IInv, Orderly, writeFails PROVE Kept
<1>1. pushed = None /\ place' = place
  BY PlaceFacts DEF writeFails, MayWrite, Wrote, IInv
<1> QED BY <1>1, IdleStep DEF writeFails, Wrote

LEMMA fseekStep ==
  ASSUME IInv, Orderly, NEW p \in Offsets, NEW whence \in {"set", "cur", "end"},
         fseek(p, whence)
  PROVE  Kept
<1>1. /\ Origin(whence) + p \in 0..Len(file) /\ pos' = Origin(whence) + p
      /\ place' = (IF whence = "cur" THEN place ELSE Origin(whence)) + p
      /\ got' = <<>> /\ did' = "sought" /\ pushed' = None /\ UNCHANGED file
      /\ whence = "cur" => pushed = None
  BY DEF fseek
<1>2. place' = pos'
  BY <1>1, PlaceFacts DEF Origin
<1>3. <<>> \in Seq(Bytes)
  OBVIOUS
<1>4. IInv'
  BY <1>1, <1>2, <1>3, PlaceFacts DEF IInv, TypeOK, PlaceKept, LastRead
<1>5. Promise!Next
  BY <1>1, <1>2, TapeMove
<1> QED BY <1>4, <1>5 DEF Kept

------------------------------------------------------------------------------
LEMMA InitInv == Init => IInv /\ Promise!Init
<1> SUFFICES ASSUME Init PROVE IInv /\ Promise!Init
  OBVIOUS
<1>1. /\ file \in Contents /\ pos = 0 /\ pushed = None /\ did = "sought"
      /\ got = <<>> /\ place = 0
  BY DEF Init
<1>2. file \in Seq(Bytes) /\ Len(file) \in Nat /\ <<>> \in Seq(Bytes)
  BY <1>1, ContentsAreSeqs, StreamDataAssumption
<1>3. IInv
  BY <1>1, <1>2 DEF IInv, TypeOK, PlaceKept, LastRead
<1> QED BY <1>1, <1>2, <1>3 DEF Promise!Init

LEMMA StepKeeps == ASSUME Orderly, IInv, [Next]_vars PROVE Kept
<1>1. CASE UNCHANGED vars
  BY <1>1 DEF vars, Kept, IInv, TypeOK, PlaceKept, LastRead
<1>2. CASE fgetc
  BY <1>2, fgetcStep
<1>3. CASE freadByte
  BY <1>3, freadByteStep
<1>4. ASSUME NEW size \in Sizes, NEW n \in Counts,
             fread(size, n) \/ freadFails(size, n)
      PROVE  Kept
  BY <1>4, freadStep, freadFailsStep
<1>5. ASSUME NEW c \in Bytes, ungetc(c) \/ fputc(c) PROVE Kept
  BY <1>5, ungetcStep, fputcStep
<1>6. ASSUME NEW size \in Rooms, fgets(size) PROVE Kept
  BY <1>6, fgetsStep
<1>7. ASSUME NEW size \in Sizes, NEW n \in Counts, NEW c \in Bytes,
             NEW moved \in 0..LIMIT, fwrite(size, n, c, moved)
      PROVE  Kept
  BY <1>7, fwriteStep
<1>8. CASE writeFails
  BY <1>8, writeFailsStep
<1>9. ASSUME NEW p \in Offsets, NEW whence \in {"set", "cur", "end"},
             fseek(p, whence)
      PROVE  Kept
  BY <1>9, fseekStep
<1> QED
  BY <1>1, <1>2, <1>3, <1>4, <1>5, <1>6, <1>7, <1>8, <1>9 DEF Next

(* For an orderly program the invariant holds throughout.                  *)
THEOREM AlwaysInv == ASSUME Orderly PROVE Spec => []IInv
<1>1. IInv /\ [Next]_vars => IInv'
  BY StepKeeps DEF Kept
<1> QED BY <1>1, InitInv, PTL DEF Spec

(* The position stays in the file, and behind it is the character pushed   *)
(* back (ungetc, fread, fseek).                                            *)
THEOREM TypeCorrect == ASSUME Orderly PROVE Spec => []TypeOK
<1>1. IInv => TypeOK
  BY DEF IInv
<1> QED BY <1>1, AlwaysInv, PTL

(* Whatever an orderly program reads, pushes back, writes and seeks, what  *)
(* the calls report tells it the place of the stream.                      *)
THEOREM AlwaysPlaced == ASSUME Orderly PROVE Spec => []PlaceKept
<1>1. IInv => PlaceKept
  BY DEF IInv
<1> QED BY <1>1, AlwaysInv, PTL

(* The library's stream implements the tape: each read gives the bytes at  *)
(* the place, whichever of the calls made it and whatever was pushed back. *)
THEOREM Implements == ASSUME Orderly PROVE Spec => RefinesTape
<1>1. IInv /\ [Next]_vars => [Promise!Next]_(Promise!tape)
  BY StepKeeps DEF Kept, Promise!tape
<1>2. Init => Promise!Init
  BY InitInv
<1> QED BY <1>1, <1>2, AlwaysInv, PTL DEF Spec, RefinesTape, Promise!Spec
=============================================================================
