----------------------------- MODULE StdioProofs -----------------------------
(***************************************************************************)
(* The streams of a program own what they have open on the host, for any   *)
(* number of FILE blocks, handles and temporary names, and the chain of    *)
(* __file_list holds just the open ones, so that exit closes them all.     *)
(***************************************************************************)
EXTENDS Stdio, FiniteSetTheorems, TLAPS

-----------------------------------------------------------------------------
(* The tables: the streams, what the host has open and keeps, and the       *)
(* marker blocks.  They are operators of values, for they have to hold in   *)
(* the middle of a freopen, which closes and then opens.                    *)
Directions == {{"r"}, {"w"}, {"r", "w"}}
FileType == [valid : BOOLEAN, on : {"nothing", "console", "host", "memory"},
             can : SUBSET {"r", "w"}, file : Handles \cup {Null},
             delete : BOOLEAN, marker : Temps \cup {Null}]

StreamOK(r) ==
  /\ r \in FileType
  /\ r.valid => /\ r.on # "nothing" /\ r.can \in Directions
                /\ r.on = "console" => r.can # {"r", "w"}
                /\ r.on = "host" => r.file \in Handles
                /\ r.delete => r.on = "host" /\ r.marker \in Temps

Hosted(F) == {s \in FILES : F[s].valid /\ F[s].on = "host"}
Marked(F) == {s \in FILES : F[s].valid /\ F[s].delete}

Tables(F, H, T) ==
  /\ F \in [FILES -> FileType] /\ \A s \in FILES : StreamOK(F[s])
  /\ \A s \in Std : F[s].valid /\ ~F[s].delete
  /\ H \in [open : SUBSET Handles, temps : SUBSET Temps] /\ T = H.temps
  /\ {F[s].file : s \in Hosted(F)} = H.open
  /\ \A s, t \in Hosted(F) : F[s].file = F[t].file => s = t
  /\ {F[s].marker : s \in Marked(F)} = H.temps
  /\ \A s, t \in Marked(F) : F[s].marker = F[t].marker => s = t

(* Blocks, names, handles and the standard streams are all different.       *)
LEMMA Kinds ==
  /\ Std \cap Files = {} /\ Null \notin FILES /\ Null \notin Files
  /\ Null \notin Temps /\ Null \notin Handles /\ Files \cap Temps = {}
  /\ "console" \notin Handles /\ "memory" \notin Handles
BY StdioAssumption DEF FILES

LEMMA ClearedOK == StreamOK(Cleared) /\ ~Cleared.valid
BY DEF StreamOK, FileType, Cleared

LEMMA RoleOK == \A s \in Std : Role(s) \in Directions \ {{"r", "w"}}
BY DEF Role, Directions

LEMMA OnConsoleOK ==
  ASSUME NEW r \in FileType, NEW c \in Directions, c # {"r", "w"}
  PROVE  LET o == OnConsole(r, c) IN
         /\ StreamOK(o) /\ o.valid /\ ~o.delete /\ o.marker = r.marker
         /\ o.on = "console" /\ o.can = c
<1> DEFINE o == OnConsole(r, c)
<1>1. c \in SUBSET {"r", "w"}
  BY DEF Directions
<1>2. /\ o \in FileType /\ o.valid = TRUE /\ o.delete = FALSE /\ o.marker = r.marker
      /\ o.on = "console" /\ o.can = c
  BY <1>1 DEF OnConsole, FileType
<1> HIDE DEF o
<1>3. StreamOK(o)
  BY <1>2 DEF StreamOK
<1> QED BY <1>2, <1>3 DEF o

LEMMA ShutFact ==
  ASSUME NEW s \in FILES, fh \in [FILES -> FileType], StreamOK(fh[s])
  PROVE  /\ StreamOK(Shut(s)) /\ (Shut(s).valid <=> s \in Std)
         /\ s \in Std => /\ Shut(s).on = "console" /\ Shut(s).can = Role(s)
                         /\ ~Shut(s).delete
<1> DEFINE r == fh[s]
           d == IF r.on = "host"
                THEN [r EXCEPT !.file = Null,
                               !.marker = IF Doomed(s) = {} THEN @ ELSE Null]
                ELSE r
<1>1. r \in FileType
  OBVIOUS
<1>2. d \in FileType
  BY <1>1 DEF FileType
<1>3. Shut(s) = IF s \in Std THEN OnConsole(d, Role(s)) ELSE [d EXCEPT !.valid = FALSE]
  BY DEF Shut
<1> HIDE DEF d
<1>4. CASE s \in Std
  <2>1. Role(s) \in Directions /\ Role(s) # {"r", "w"} /\ Shut(s) = OnConsole(d, Role(s))
    BY <1>3, <1>4, RoleOK
  <2> QED BY <1>2, <1>4, <2>1, OnConsoleOK
<1>5. CASE s \notin Std
  <2>1. Shut(s) \in FileType /\ ~Shut(s).valid
    BY <1>2, <1>3, <1>5 DEF FileType
  <2> QED BY <1>5, <2>1 DEF StreamOK
<1> QED BY <1>4, <1>5

(* A stream is closed: what it had on the host goes, and nothing else.      *)
LEMMA CloseTables ==
  ASSUME NEW s \in FILES, NEW T, Tables(fh, host, T), Open(s)
  PROVE  LET F == [fh EXCEPT ![s] = Shut(s)] IN
         /\ Tables(F, HostClosed(s), T \ Doomed(s))
         /\ Hosted(F) = Hosted(fh) \ {s}
         /\ HostClosed(s).open = host.open \ {fh[t].file : t \in Hosted(fh) \cap {s}}
<1> DEFINE F == [fh EXCEPT ![s] = Shut(s)]
           H == HostClosed(s)
<1>1. /\ fh \in [FILES -> FileType] /\ \A t \in FILES : StreamOK(fh[t])
      /\ host \in [open : SUBSET Handles, temps : SUBSET Temps] /\ T = host.temps
      /\ fh[s].valid
  BY DEF Tables, Open
<1>2. /\ StreamOK(Shut(s)) /\ (Shut(s).valid <=> s \in Std)
      /\ s \in Std => Shut(s).on = "console" /\ ~Shut(s).delete
  BY <1>1, ShutFact
<1>3. /\ F \in [FILES -> FileType] /\ F[s] = Shut(s)
      /\ \A t \in FILES : t # s => F[t] = fh[t]
  BY <1>1, <1>2 DEF StreamOK
<1> HIDE DEF F, H
<1>4. Hosted(F) = Hosted(fh) \ {s} /\ Marked(F) = Marked(fh) \ {s}
  BY <1>2, <1>3 DEF Hosted, Marked, StreamOK
<1>5. Doomed(s) = {fh[t].marker : t \in Marked(fh) \cap {s}}
  BY <1>1, Kinds DEF Doomed, Marked, StreamOK
<1>6. /\ H.open = host.open \ {fh[t].file : t \in Hosted(fh) \cap {s}}
      /\ H.temps = host.temps \ Doomed(s)
      /\ H \in [open : SUBSET Handles, temps : SUBSET Temps]
  <2>1. CASE fh[s].on = "host"
    <3>1. Hosted(fh) \cap {s} = {s}
      BY <1>1, <2>1 DEF Hosted
    <3>2. H = [open |-> host.open \ {fh[s].file}, temps |-> host.temps \ Doomed(s)]
      BY <2>1 DEF H, HostClosed
    <3> QED BY <1>1, <3>1, <3>2
  <2>2. CASE fh[s].on # "host"
    <3>1. Hosted(fh) \cap {s} = {} /\ Doomed(s) = {} /\ H = host
      BY <2>2 DEF Hosted, Doomed, H, HostClosed
    <3> QED BY <1>1, <3>1
  <2> QED BY <2>1, <2>2
<1>7. {F[t].file : t \in Hosted(F)} = H.open
  BY <1>3, <1>4, <1>6 DEF Tables, Hosted
<1>8. {F[t].marker : t \in Marked(F)} = H.temps
  BY <1>3, <1>4, <1>5, <1>6 DEF Tables, Marked
<1>9. /\ \A t, u \in Hosted(F) : F[t].file = F[u].file => t = u
      /\ \A t, u \in Marked(F) : F[t].marker = F[u].marker => t = u
  BY <1>3, <1>4 DEF Tables, Hosted, Marked
<1>10. /\ \A t \in FILES : StreamOK(F[t])
       /\ \A t \in Std : F[t].valid /\ ~F[t].delete
  <2>1. Std \subseteq FILES
    BY DEF FILES
  <2> QED BY <1>1, <1>2, <1>3, <2>1 DEF Tables
<1>11. Tables(F, H, T \ Doomed(s))
  BY <1>1, <1>3, <1>6, <1>7, <1>8, <1>9, <1>10 DEF Tables
<1> QED BY <1>4, <1>6, <1>11 DEF F, H

(* A stream that has nothing on the host is given r, with its own handle    *)
(* and its own temporary file, or neither.                                  *)
LEMMA PlaceTables ==
  ASSUME NEW F, NEW H, NEW T, Tables(F, H, T), NEW s \in FILES, s \notin Hosted(F),
         NEW r, StreamOK(r), r.valid, s \in Std => ~r.delete,
         r.on = "host" => r.file \notin H.open,
         r.delete => r.marker \notin H.temps,
         NEW K, K = [open |-> H.open \cup {h \in {r.file} : r.on = "host"},
                     temps |-> H.temps \cup {n \in {r.marker} : r.delete}]
  PROVE  Tables([F EXCEPT ![s] = r], K, K.temps)
<1> DEFINE G == [F EXCEPT ![s] = r]
<1>1. /\ F \in [FILES -> FileType] /\ \A t \in FILES : StreamOK(F[t])
      /\ H \in [open : SUBSET Handles, temps : SUBSET Temps]
      /\ r \in FileType
  BY DEF Tables, StreamOK
<1>2. s \notin Marked(F)
  BY <1>1 DEF Marked, Hosted, StreamOK
<1>3. /\ G \in [FILES -> FileType] /\ G[s] = r
      /\ \A t \in FILES : t # s => G[t] = F[t]
  BY <1>1
<1> HIDE DEF G
<1>4. /\ Hosted(G) = Hosted(F) \cup {t \in {s} : r.on = "host"}
      /\ Marked(G) = Marked(F) \cup {t \in {s} : r.delete}
  BY <1>2, <1>3 DEF Hosted, Marked
<1>5. /\ \A t \in Hosted(F) : t # s /\ t \in FILES /\ G[t] = F[t] /\ F[t].file \in H.open
      /\ \A t \in Marked(F) : /\ t # s /\ t \in FILES /\ G[t] = F[t]
                              /\ F[t].marker \in H.temps
  BY <1>2, <1>3 DEF Tables, Hosted, Marked
<1>6. {G[t].file : t \in Hosted(G)} = K.open
  BY <1>3, <1>4, <1>5 DEF Tables
<1>7. {G[t].marker : t \in Marked(G)} = K.temps
  BY <1>3, <1>4, <1>5 DEF Tables
<1>8. \A t, u \in Hosted(G) : G[t].file = G[u].file => t = u
  BY <1>3, <1>4, <1>5 DEF Tables
<1>9. \A t, u \in Marked(G) : G[t].marker = G[u].marker => t = u
  BY <1>3, <1>4, <1>5 DEF Tables
<1>10. K \in [open : SUBSET Handles, temps : SUBSET Temps]
  BY <1>1 DEF StreamOK
<1>11. /\ \A t \in FILES : StreamOK(G[t])
       /\ \A t \in Std : G[t].valid /\ ~G[t].delete
  <2>1. Std \subseteq FILES
    BY DEF FILES
  <2> QED BY <1>1, <1>3, <2>1 DEF Tables
<1> QED BY <1>3, <1>6, <1>7, <1>8, <1>9, <1>10, <1>11 DEF Tables, G

(* The fields fopen and freopen give a stream.                              *)
LEMMA OpenedOK ==
  ASSUME NEW r \in FileType, NEW on \in {"console"} \cup Handles, NEW mode \in Modes
  PROVE  LET o == Opened(r, on, mode) IN
         /\ StreamOK(o) /\ o.valid /\ ~o.delete /\ o.marker = r.marker
         /\ o.on = "host" <=> on # "console"
         /\ o.on = "host" => o.file = on
<1>1. mode \in Directions
  BY StdioAssumption DEF Directions
<1>2. CASE on = "console"
  <2> DEFINE c == IF "w" \in mode THEN mode \ {"r"} ELSE mode
  <2>1. c \in Directions /\ c # {"r", "w"}
    BY <1>1 DEF Directions
  <2>2. Opened(r, on, mode) = OnConsole(r, c)
    BY <1>2 DEF Opened
  <2> HIDE DEF c
  <2> QED BY <1>2, <2>1, <2>2, OnConsoleOK
<1>3. CASE on # "console"
  <2>1. on \in Handles /\ mode \in SUBSET {"r", "w"}
    BY <1>1, <1>3 DEF Directions
  <2> DEFINE o == [r EXCEPT !.valid = TRUE, !.on = "host", !.can = mode,
                            !.delete = FALSE, !.file = on]
  <2>2. Opened(r, on, mode) = o
    BY <1>3 DEF Opened
  <2>3. /\ o \in FileType /\ o.valid /\ o.on = "host" /\ o.can = mode
        /\ ~o.delete /\ o.file = on /\ o.marker = r.marker
    BY <2>1 DEF FileType
  <2> HIDE DEF o
  <2>4. StreamOK(o)
    BY <1>1, <2>1, <2>3 DEF StreamOK
  <2> QED BY <1>3, <2>2, <2>3, <2>4
<1> QED BY <1>2, <1>3

(* What the host has after an open, in the form PlaceTables takes it.       *)
LEMMA HostOpenedForm ==
  ASSUME NEW d \in [open : SUBSET Handles, temps : SUBSET Temps],
         NEW r, NEW on, r.on = "host" <=> on # "console", r.on = "host" => r.file = on,
         ~r.delete
  PROVE  HostOpened(d, on) = [open |-> d.open \cup {h \in {r.file} : r.on = "host"},
                              temps |-> d.temps \cup {n \in {r.marker} : r.delete}]
<1>1. CASE on = "console"
  BY <1>1 DEF HostOpened
<1>2. CASE on # "console"
  <2>1. HostOpened(d, on) = [open |-> d.open \cup {on}, temps |-> d.temps]
    BY <1>2 DEF HostOpened
  <2> QED BY <1>2, <2>1
<1> QED BY <1>1, <1>2

(* A stream that was closed may be wiped.                                   *)
LEMMA WipeTables ==
  ASSUME NEW T, Tables(fh, host, T), NEW f \in Files, ~fh[f].valid
  PROVE  Tables([fh EXCEPT ![f] = Cleared], host, T)
<1> DEFINE F == [fh EXCEPT ![f] = Cleared]
<1>1. /\ F \in [FILES -> FileType] /\ F[f] = Cleared
      /\ \A t \in FILES : t # f => F[t] = fh[t]
  BY ClearedOK DEF Tables, StreamOK, FILES
<1> HIDE DEF F
<1>2. Hosted(F) = Hosted(fh) /\ Marked(F) = Marked(fh)
  BY <1>1, ClearedOK DEF Hosted, Marked
<1>3. /\ \A t \in Hosted(F) : F[t] = fh[t]
      /\ \A t \in Marked(F) : F[t] = fh[t]
  BY <1>1, <1>2 DEF Hosted, Marked
<1>4. /\ {F[t].file : t \in Hosted(F)} = host.open
      /\ {F[t].marker : t \in Marked(F)} = host.temps
  BY <1>2, <1>3 DEF Tables
<1>5. /\ \A t \in FILES : StreamOK(F[t])
      /\ \A t \in Std : F[t].valid /\ ~F[t].delete
  <2>1. Std \subseteq FILES /\ f \notin Std
    BY Kinds DEF FILES
  <2> QED BY <1>1, <2>1, ClearedOK DEF Tables
<1>6. /\ \A t, u \in Hosted(F) : F[t].file = F[u].file => t = u
      /\ \A t, u \in Marked(F) : F[t].marker = F[u].marker => t = u
  BY <1>2, <1>3 DEF Tables
<1> QED BY <1>1, <1>4, <1>5, <1>6 DEF Tables, F

-----------------------------------------------------------------------------
(* One lemma for each call: the tables stand, and the block it hands out is *)
(* an allocated one.                                                        *)
Markers == heap \cap Temps
Stand == Tables(fh, host, Markers) /\ \A f \in Files : fh[f].valid => f \in heap

(* A stream that was closed is opened: fopen, open_memstream and tmpfile.   *)
LEMMA OpensStand ==
  ASSUME Stand, NEW f \in Files \ heap, NEW r, StreamOK(r), r.valid,
         r.on = "host" => r.file \notin host.open,
         r.delete => r.marker \notin host.temps,
         fh' = [fh EXCEPT ![f] = r],
         host' = [open |-> host.open \cup {h \in {r.file} : r.on = "host"},
                  temps |-> host.temps \cup {n \in {r.marker} : r.delete}],
         heap' = (heap \cup {f}) \cup {n \in {r.marker} : r.delete}
  PROVE  Stand'
<1>1. f \in FILES /\ ~fh[f].valid /\ f \notin Std /\ f \notin Hosted(fh) /\ f \notin Temps
  BY Kinds DEF Stand, FILES, Hosted
<1>2. Tables(fh', host', host'.temps)
  <2> DEFINE K == [open |-> host.open \cup {h \in {r.file} : r.on = "host"},
                   temps |-> host.temps \cup {n \in {r.marker} : r.delete}]
  <2>1. Tables([fh EXCEPT ![f] = r], K, K.temps)
    BY <1>1, PlaceTables DEF Stand
  <2> QED BY <2>1
<1>3. r.delete => r.marker \in Temps
  BY DEF StreamOK
<1>4. Markers' = host'.temps
  <2>1. Markers = host.temps
    BY DEF Stand, Tables
  <2> QED BY <1>1, <1>3, <2>1 DEF Markers
<1>5. \A g \in Files : fh'[g].valid => g \in heap'
  BY <1>1 DEF Stand, Tables, FILES
<1> QED BY <1>2, <1>4, <1>5 DEF Stand

LEMMA fopenStands ==
  ASSUME Stand, NEW f \in Files, fopen(f)
  PROVE  Stand'
<1>1. PICK on \in Places(host), mode \in Modes :
        /\ fh' = [fh EXCEPT ![f] = Opened(Cleared, on, mode)]
        /\ host' = HostOpened(host, on)
  BY DEF fopen
<1> DEFINE r == Opened(Cleared, on, mode)
<1>2. /\ StreamOK(r) /\ r.valid /\ ~r.delete
      /\ r.on = "host" <=> on # "console"
      /\ r.on = "host" => r.file = on /\ on \notin host.open
  BY OpenedOK, ClearedOK DEF StreamOK, Places
<1>3. host' = [open |-> host.open \cup {h \in {r.file} : r.on = "host"},
               temps |-> host.temps \cup {n \in {r.marker} : r.delete}]
  <2> HIDE DEF r
  <2>1. host \in [open : SUBSET Handles, temps : SUBSET Temps]
    BY DEF Stand, Tables
  <2> QED BY <1>1, <1>2, <2>1, HostOpenedForm
<1>4. heap' = (heap \cup {f}) \cup {n \in {r.marker} : r.delete} /\ f \notin heap
  <2> HIDE DEF r
  <2> QED BY <1>2 DEF fopen
<1>5. fh' = [fh EXCEPT ![f] = r]
  BY <1>1
<1> HIDE DEF r
<1> QED BY <1>2, <1>3, <1>4, <1>5, OpensStand

LEMMA memstreamStands ==
  ASSUME Stand, NEW f \in Files, open_memstream(f)
  PROVE  Stand'
<1> DEFINE r == [Cleared EXCEPT !.valid = TRUE, !.on = "memory", !.can = {"w"}]
<1>1. r \in FileType /\ r.valid /\ ~r.delete /\ r.on = "memory" /\ r.can = {"w"}
  BY DEF FileType, Cleared
<1>2. fh' = [fh EXCEPT ![f] = r] /\ heap' = heap \cup {f} /\ f \notin heap /\ host' = host
  BY DEF open_memstream
<1> HIDE DEF r
<1>3. StreamOK(r)
  BY <1>1 DEF StreamOK, Directions
<1>4. host \in [open : SUBSET Handles, temps : SUBSET Temps]
  BY DEF Stand, Tables
<1>5. host' = [open |-> host.open \cup {h \in {r.file} : r.on = "host"},
               temps |-> host.temps \cup {n \in {r.marker} : r.delete}]
  BY <1>1, <1>2, <1>4
<1>6. heap' = (heap \cup {f}) \cup {n \in {r.marker} : r.delete}
  BY <1>1, <1>2
<1> QED BY <1>1, <1>2, <1>3, <1>5, <1>6, OpensStand

LEMMA tmpfileStands ==
  ASSUME Stand, NEW f \in Files, tmpfile(f)
  PROVE  Stand'
<1>1. PICK n \in Temps \ host.temps, h \in Handles \ host.open :
        /\ fh' = [fh EXCEPT ![f] = [Opened(Cleared, h, {"r", "w"}) EXCEPT
                                      !.marker = n, !.delete = TRUE]]
        /\ host' = [open |-> host.open \cup {h}, temps |-> host.temps \cup {n}]
        /\ heap' = heap \cup {f, n}
  BY DEF tmpfile
<1> DEFINE r == [Opened(Cleared, h, {"r", "w"}) EXCEPT !.marker = n, !.delete = TRUE]
<1>2. h # "console"
  BY Kinds
<1>3. /\ r \in FileType /\ r.valid /\ r.delete /\ r.on = "host" /\ r.can = {"r", "w"}
      /\ r.marker = n /\ r.file = h
  BY <1>2 DEF FileType, Cleared, Opened
<1>4. fh' = [fh EXCEPT ![f] = r] /\ f \notin heap
  BY <1>1 DEF tmpfile
<1> HIDE DEF r
<1>5. StreamOK(r)
  BY <1>3 DEF StreamOK, Directions
<1>6. host' = [open |-> host.open \cup {x \in {r.file} : r.on = "host"},
               temps |-> host.temps \cup {x \in {r.marker} : r.delete}]
  BY <1>1, <1>3
<1>7. heap' = (heap \cup {f}) \cup {x \in {r.marker} : r.delete}
  BY <1>1, <1>3
<1>8. r.file \notin host.open /\ r.marker \notin host.temps
  BY <1>3
<1> QED BY <1>3, <1>4, <1>5, <1>6, <1>7, <1>8, OpensStand

LEMMA fopen_failsStands ==
  ASSUME Stand, NEW f \in Files, fopen_fails(f)
  PROVE  Stand'
<1>1. ~fh[f].valid /\ fh' = [fh EXCEPT ![f] = Cleared] /\ host' = host /\ heap' = heap
  BY DEF fopen_fails, Stand
<1>2. Tables([fh EXCEPT ![f] = Cleared], host, Markers)
  BY <1>1, WipeTables DEF Stand
<1>3. Tables(fh', host', Markers')
  BY <1>1, <1>2 DEF Markers
<1>4. \A g \in Files : fh'[g].valid => g \in heap'
  BY <1>1, ClearedOK DEF Stand, Tables, FILES
<1> QED BY <1>3, <1>4 DEF Stand

LEMMA DoomedTemps ==
  ASSUME Stand, NEW s \in FILES
  PROVE  Doomed(s) \subseteq Temps
BY DEF Stand, Tables, FileType, Doomed

(* An open stream is closed: fclose, exit and a refused freopen.  The block *)
(* that is freed with it is its own.                                        *)
LEMMA ClosesStand ==
  ASSUME Stand, NEW s \in FILES, Open(s), NEW B, B \subseteq {s} \cap Files,
         fh' = [fh EXCEPT ![s] = Shut(s)], host' = HostClosed(s),
         heap' = heap \ (Doomed(s) \cup B)
  PROVE  /\ Stand'
         /\ \A f \in Files : fh'[f].valid <=> fh[f].valid /\ f # s
<1>1. Tables(fh', host', Markers \ Doomed(s))
  BY CloseTables DEF Stand
<1>2. Markers' = Markers \ Doomed(s)
  BY Kinds DEF Markers
<1>3. \A f \in Files : fh'[f].valid <=> fh[f].valid /\ f # s
  <2>1. fh \in [FILES -> FileType] /\ StreamOK(fh[s])
    BY DEF Stand, Tables
  <2>2. Shut(s).valid <=> s \in Std
    BY <2>1, ShutFact
  <2> QED BY <2>1, <2>2, Kinds DEF FILES
<1>4. \A f \in Files : fh'[f].valid => f \in heap'
  BY <1>3, DoomedTemps, Kinds DEF Stand
<1> QED BY <1>1, <1>2, <1>3, <1>4 DEF Stand

LEMMA freopen_failsStands ==
  ASSUME Stand, NEW s \in FILES, freopen_fails(s)
  PROVE  Stand'
<1> DEFINE B == IF s \in Std THEN {} ELSE {s}
<1>1. B \subseteq {s} \cap Files
  BY DEF FILES
<1>2. /\ fh' = [fh EXCEPT ![s] = Shut(s)] /\ host' = HostClosed(s)
      /\ heap' = heap \ (Doomed(s) \cup B) /\ Open(s)
  BY DEF freopen_fails
<1> HIDE DEF B
<1> QED BY <1>1, <1>2, ClosesStand

LEMMA fcloseStands ==
  ASSUME Stand, NEW s \in FILES, fclose(s), Chained \subseteq Files
  PROVE  Stand'
BY ClosesStand DEF fclose

LEMMA final_fcloseStands ==
  ASSUME Stand, cur \in FILES \cup {Null}, final_fclose
  PROVE  Stand'
<1>1. PICK s \in FILES : s = cur
  BY DEF final_fclose
<1>2. CASE Open(cur)
  <2> DEFINE B == {}
  <2>1. /\ fh' = [fh EXCEPT ![s] = Shut(s)] /\ host' = HostClosed(s)
        /\ heap' = heap \ (Doomed(s) \cup B) /\ Open(s) /\ B \subseteq {s} \cap Files
    BY <1>1, <1>2 DEF final_fclose
  <2> HIDE DEF B
  <2> QED BY <2>1, ClosesStand
<1>3. CASE ~Open(cur)
  <2>1. fh' = fh /\ host' = host /\ heap' = heap
    BY <1>3 DEF final_fclose
  <2>2. Markers' = Markers
    BY <2>1 DEF Markers
  <2> QED BY <2>1, <2>2 DEF Stand
<1> QED BY <1>2, <1>3

(* freopen closes and then opens, on a handle the close may have freed.     *)
LEMMA freopenStands ==
  ASSUME Stand, NEW s \in FILES, freopen(s)
  PROVE  Stand'
<1> DEFINE F == [fh EXCEPT ![s] = Shut(s)]
           H == HostClosed(s)
<1>1. PICK on \in Places(H), mode \in Modes :
        /\ fh' = [fh EXCEPT ![s] = Opened(Shut(s), on, mode)]
        /\ host' = HostOpened(H, on)
  BY DEF freopen, Reopened
<1> DEFINE r == Opened(Shut(s), on, mode)
<1>2. /\ Open(s) /\ heap' = heap \ Doomed(s)
      /\ fh \in [FILES -> FileType] /\ StreamOK(fh[s])
  BY DEF freopen, Stand, Tables
<1>3. Tables(F, H, Markers \ Doomed(s)) /\ Hosted(F) = Hosted(fh) \ {s}
  BY <1>2, CloseTables DEF Stand
<1>4. Shut(s) \in FileType
  BY <1>2, ShutFact DEF StreamOK
<1>5. /\ StreamOK(r) /\ r.valid /\ ~r.delete
      /\ r.on = "host" <=> on # "console"
      /\ r.on = "host" => r.file = on /\ on \notin H.open
  <2>1. on \in {"console"} \cup Handles /\ (on # "console" => on \notin H.open)
    BY DEF Places
  <2> QED BY <1>4, <2>1, OpenedOK, SMTT(30)
<1>6. fh' = [F EXCEPT ![s] = r]
  BY <1>1, <1>2
<1>7. H \in [open : SUBSET Handles, temps : SUBSET Temps] /\ H.temps = Markers \ Doomed(s)
  BY <1>3 DEF Tables
<1> HIDE DEF F, H, r
<1>8. host' = [open |-> H.open \cup {h \in {r.file} : r.on = "host"},
               temps |-> H.temps \cup {n \in {r.marker} : r.delete}]
  BY <1>1, <1>5, <1>7, HostOpenedForm
<1>9. Tables(fh', host', host'.temps)
  <2> DEFINE K == [open |-> H.open \cup {h \in {r.file} : r.on = "host"},
                   temps |-> H.temps \cup {n \in {r.marker} : r.delete}]
  <2>1. s \notin Hosted(F)
    BY <1>3
  <2>2. Tables([F EXCEPT ![s] = r], K, K.temps)
    BY <1>3, <1>5, <2>1, PlaceTables
  <2> QED BY <1>6, <1>8, <2>2
<1>10. Markers' = host'.temps
  BY <1>2, <1>5, <1>7, <1>8 DEF Markers
<1>11. \A f \in Files : fh'[f].valid => f \in heap'
  <2>1. \A f \in Files : fh'[f].valid => fh[f].valid
    BY <1>1, <1>2 DEF FILES, Open
  <2> QED BY <1>2, <2>1, DoomedTemps, Kinds DEF Stand
<1> QED BY <1>9, <1>10, <1>11 DEF Stand

(* A module initialised again finds its standard streams open, and puts     *)
(* them on the console; what the others have stays theirs.                  *)
LEMMA initStands ==
  ASSUME Stand, __io_init, \A s \in Std : fh[s].on = "console" /\ fh[s].can = Role(s)
  PROVE  Stand' /\ fh' = fh
<1>1. fh \in [FILES -> FileType] /\ Std \subseteq FILES
  BY DEF Stand, Tables, FILES
<1>2. ASSUME NEW s \in Std PROVE OnConsole(fh[s], Role(s)) = fh[s]
  <2>1. /\ fh[s] \in FileType /\ fh[s].valid = TRUE /\ fh[s].on = "console"
        /\ fh[s].can = Role(s) /\ fh[s].delete = FALSE
    BY <1>1 DEF Stand, Tables, FileType
  <2> QED BY <2>1 DEF OnConsole, FileType
<1>3. fh' = fh
  BY <1>1, <1>2 DEF __io_init
<1>4. Markers' = Markers /\ host' = host /\ heap' = heap
  BY DEF __io_init, Markers
<1> QED BY <1>3, <1>4 DEF Stand

-----------------------------------------------------------------------------
(* The walk along the chain is a recursive function; that there is one is   *)
(* shown by taking the least length up to which there would be none.        *)
LEMMA NatMin ==
  ASSUME NEW T, T \subseteq Nat, T # {}
  PROVE  \E x \in T : \A y \in T : x <= y
<1> DEFINE R == OpToRel(<, Nat)
<1>1. IsWellFoundedOn(R, Nat)
  BY NatLessThanWellFounded
<1>2. \A x, y \in Nat : x < y => <<x, y>> \in R
  BY DEF OpToRel
<1> HIDE DEF R
<1>3. PICK x \in T : \A y \in T : ~(<<y, x>> \in R)
  BY <1>1, WFMin
<1>4. ASSUME NEW y \in T PROVE x <= y
  <2>1. x \in Nat /\ y \in Nat /\ ~(y < x)
    BY <1>2, <1>3
  <2> QED BY <2>1
<1> QED BY <1>4

LEMMA StepsNat == Cardinality(Files) \in Nat
BY FS_CardinalityType, StdioAssumption

Follow(b) == IF b = Null THEN Null ELSE chain[b]
WalkTo(g, m) == g = [n \in 0..m |-> IF n = 0 THEN list ELSE Follow(g[n - 1])]

LEMMA WalkExists == \A m \in Nat : \E g : WalkTo(g, m)
<1> DEFINE T == {m \in Nat : ~\E g : WalkTo(g, m)}
<1>1. SUFFICES ASSUME T # {} PROVE FALSE
  OBVIOUS
<1>2. PICK m \in T : \A k \in T : m <= k
  BY <1>1, NatMin
<1>3. CASE m = 0
  <2>1. WalkTo([n \in 0..m |-> list], m)
    BY <1>3 DEF WalkTo
  <2> QED BY <2>1
<1>4. CASE m # 0
  <2>1. m - 1 \in Nat /\ m - 1 \notin T
    BY <1>2, <1>4
  <2>2. PICK g : WalkTo(g, m - 1)
    BY <2>1
  <2> DEFINE G == [n \in 0..m |-> IF n = m THEN Follow(g[m - 1]) ELSE g[n]]
  <2>3. \A n \in 0..m - 1 : G[n] = g[n] /\ g[n] = IF n = 0 THEN list ELSE Follow(g[n - 1])
    BY <2>1, <2>2 DEF WalkTo
  <2>4. ASSUME NEW n \in 0..m
        PROVE  G[n] = IF n = 0 THEN list ELSE Follow(G[n - 1])
    <3>1. CASE n = m
      <4>1. G[n] = Follow(g[m - 1]) /\ m - 1 \in 0..m - 1
        BY <2>1, <3>1
      <4> QED BY <1>4, <2>3, <3>1, <4>1
    <3>2. CASE n # m
      <4>1. n \in 0..m - 1 /\ (n # 0 => n - 1 \in 0..m - 1)
        BY <2>1, <3>2
      <4> QED BY <2>3, <4>1
    <3> QED BY <3>1, <3>2
  <2>5. G = [n \in 0..m |-> G[n]]
    OBVIOUS
  <2> HIDE DEF G
  <2>6. WalkTo(G, m)
    BY <2>4, <2>5 DEF WalkTo
  <2> QED BY <2>6
<1> QED BY <1>3, <1>4

LEMMA WalkLaw ==
  \A n \in Steps : Walk[n] = IF n = 0 THEN list ELSE Follow(Walk[n - 1])
<1>1. PICK g : WalkTo(g, Cardinality(Files))
  BY StepsNat, WalkExists
<1>2. WalkTo(Walk, Cardinality(Files))
  BY <1>1 DEF WalkTo, Walk, Steps, Follow
<1> QED BY <1>2 DEF WalkTo, Steps

(* Every block the walk meets is a FILE block.                              *)
LEMMA WalkInFiles ==
  ASSUME list \in Files \cup {Null}, chain \in [Files -> Files \cup {Null}]
  PROVE  /\ \A n \in Steps : Walk[n] \in Files \cup {Null}
         /\ Chained \subseteq Files
<1> DEFINE T == {n \in Steps : Walk[n] \notin Files \cup {Null}}
<1>1. T = {}
  <2>1. SUFFICES ASSUME T # {} PROVE FALSE
    OBVIOUS
  <2>2. T \subseteq Nat
    BY DEF Steps
  <2>3. PICK n \in T : \A k \in T : n <= k
    BY <2>1, <2>2, NatMin
  <2>4. Walk[n] = IF n = 0 THEN list ELSE Follow(Walk[n - 1])
    BY WalkLaw
  <2>5. n # 0
    BY <2>4
  <2>6. n - 1 \in Steps /\ n - 1 \notin T
    BY <2>2, <2>3, <2>5, StepsNat DEF Steps
  <2>7. Follow(Walk[n - 1]) \in Files \cup {Null}
    BY <2>6 DEF Follow
  <2> QED BY <2>4, <2>5, <2>7
<1> QED BY <1>1 DEF Chained

-----------------------------------------------------------------------------
(* The standard streams exit has closed already, and will not touch again.  *)
Passed == {s \in Std : \/ phase = "ended"
                       \/ phase = "closing" /\ \/ cur = "stdout" /\ s = "stdin"
                                               \/ cur = "stderr" /\ s # "stderr"
                                               \/ cur = Null}

OwnInv ==
  /\ phase \in {"running", "closing", "ended", "hung"}
  /\ list \in Files \cup {Null} /\ cur \in FILES \cup {Null}
  /\ chain \in [Files -> Files \cup {Null}]
  /\ heap \subseteq Files \cup Temps
  /\ Stand
  /\ \A s \in Passed : fh[s].on = "console" /\ fh[s].can = Role(s)
  /\ phase = "ended" => cur = Null

(* The invariant says what HostOwned says, and more.                        *)
LEMMA OwnInvOwns == OwnInv => HostOwned
<1> SUFFICES ASSUME OwnInv PROVE HostOwned
  OBVIOUS
<1>1. Tables(fh, host, Markers)
  BY DEF OwnInv, Stand
<1>2. TypeOK
  BY <1>1 DEF OwnInv, Tables, TypeOK, StreamOK, FileType
<1>3. HandlesOwned
  BY <1>1 DEF HandlesOwned, Tables, Hosted
<1>4. TemporariesOwned
  BY <1>1 DEF TemporariesOwned, Tables, Marked, Markers
<1> QED BY <1>2, <1>3, <1>4 DEF HostOwned

LEMMA InitStand ==
  ASSUME Init
  PROVE  /\ Stand /\ \A f \in Files : ~fh[f].valid
         /\ \A s \in Std : fh[s] = OnConsole(Cleared, Role(s))
<1>1. /\ \A f \in Files : fh[f] = Cleared
      /\ \A s \in Std : fh[s] = OnConsole(Cleared, Role(s))
      /\ fh = [s \in FILES |-> fh[s]]
      /\ FILES = Std \cup Files
  BY Kinds DEF Init, FILES
<1>2. ASSUME NEW s \in Std
      PROVE  /\ StreamOK(fh[s]) /\ fh[s].valid /\ ~fh[s].delete /\ fh[s].on = "console"
  <2>1. Role(s) \in Directions /\ Role(s) # {"r", "w"}
    BY RoleOK
  <2>2. Cleared \in FileType /\ fh[s] = OnConsole(Cleared, Role(s))
    BY <1>1, ClearedOK DEF StreamOK
  <2> QED BY <2>1, <2>2, OnConsoleOK
<1>3. \A s \in FILES : StreamOK(fh[s])
  BY <1>1, <1>2, ClearedOK
<1>4. fh \in [FILES -> FileType]
  BY <1>1, <1>3 DEF StreamOK
<1>5. Hosted(fh) = {} /\ Marked(fh) = {}
  BY <1>1, <1>2, ClearedOK DEF Hosted, Marked
<1>6. host = [open |-> {}, temps |-> {}] /\ Markers = {}
  BY DEF Init, Markers
<1>7. Tables(fh, host, Markers)
  BY <1>2, <1>3, <1>4, <1>5, <1>6 DEF Tables
<1> QED BY <1>1, <1>7, ClearedOK DEF Stand

LEMMA InitOwnInv == Init => OwnInv
BY InitStand DEF Init, OwnInv, Passed, FILES

(* The list and the chain keep their type, whatever they are.               *)
LEMMA LinkTyped ==
  ASSUME OwnInv, NEW f \in Files, Link(f)
  PROVE  list' \in Files \cup {Null} /\ chain' \in [Files -> Files \cup {Null}]
BY DEF OwnInv, Link

LEMMA UnlinkTyped ==
  ASSUME OwnInv, NEW f \in Files, Unlink(f)
  PROVE  list' \in Files \cup {Null} /\ chain' \in [Files -> Files \cup {Null}]
BY DEF OwnInv, Unlink

LEMMA AfterFact ==
  /\ After("stdin") = "stdout" /\ After("stdout") = "stderr" /\ After("stderr") = Null
  /\ \A f \in Files : After(f) = IF chain[f] = Null THEN "stdin" ELSE chain[f]
<1>1. \A f \in Files : f # "stdin" /\ f # "stdout" /\ f # "stderr"
  BY Kinds DEF Std
<1> QED BY <1>1 DEF After

LEMMA StepOwnInv == OwnInv /\ [Next]_vars => OwnInv'
<1> SUFFICES ASSUME OwnInv, [Next]_vars PROVE OwnInv'
  OBVIOUS
<1>0. Stand /\ Chained \subseteq Files
  BY WalkInFiles DEF OwnInv
<1>1. CASE UNCHANGED vars
  BY <1>1 DEF vars, OwnInv, Stand, Markers, Passed
<1>2. ASSUME NEW f \in Files, fopen(f) \/ open_memstream(f) \/ tmpfile(f)
      PROVE  OwnInv'
  <2>1. phase = "running" /\ phase' = phase /\ cur' = cur /\ Link(f)
    BY <1>2 DEF fopen, open_memstream, tmpfile, Running
  <2>2. Stand'
    BY <1>0, <1>2, fopenStands, memstreamStands, tmpfileStands
  <2>3. heap' \subseteq Files \cup Temps
    BY <1>2 DEF OwnInv, fopen, open_memstream, tmpfile
  <2>4. list' \in Files \cup {Null} /\ chain' \in [Files -> Files \cup {Null}]
    BY <2>1, LinkTyped
  <2> QED BY <2>1, <2>2, <2>3, <2>4 DEF OwnInv, Passed
<1>3. ASSUME NEW f \in Files, fopen_fails(f) PROVE OwnInv'
  <2>1. Stand'
    BY <1>0, <1>3, fopen_failsStands
  <2> QED BY <1>3, <2>1 DEF OwnInv, Passed, fopen_fails, Running
<1>4. ASSUME NEW s \in FILES, freopen(s) \/ freopen_fails(s) PROVE OwnInv'
  <2>1. Stand'
    BY <1>0, <1>4, freopenStands, freopen_failsStands
  <2> QED BY <1>4, <2>1 DEF OwnInv, Passed, freopen, freopen_fails, Running
<1>5. ASSUME NEW s \in FILES, fclose(s) PROVE OwnInv'
  <2>1. Stand'
    BY <1>0, <1>5, fcloseStands
  <2>2. list' \in Files \cup {Null} /\ chain' \in [Files -> Files \cup {Null}]
    BY <1>0, <1>5, UnlinkTyped DEF fclose, OwnInv
  <2>3. phase' \in {"running", "hung"} /\ cur' = cur /\ heap' \subseteq heap
    BY <1>5 DEF fclose
  <2> QED BY <2>1, <2>2, <2>3 DEF OwnInv, Passed
<1>6. CASE __io_final
  <2>1. Stand'
    BY <1>0, <1>6 DEF __io_final, Stand, Markers
  <2>2. cur' \in Files \cup {"stdin"} /\ phase' = "closing" /\ list' = Null
    BY <1>6 DEF __io_final, OwnInv
  <2>3. Passed' = {}
    BY <2>2, Kinds DEF Passed, Std, FILES
  <2> QED BY <1>6, <2>1, <2>2, <2>3 DEF OwnInv, __io_final, FILES, Std
<1>7. CASE final_fclose
  <2>1. Stand'
    BY <1>0, <1>7, final_fcloseStands DEF OwnInv
  <2>2. /\ phase = "closing" /\ phase' = phase /\ list' = list /\ chain' = chain
        /\ cur \in FILES /\ cur' = After(cur) /\ heap' \subseteq heap
    BY <1>7 DEF OwnInv, final_fclose
  <2>3. cur' \in FILES \cup {Null}
    BY <2>2, AfterFact DEF OwnInv, FILES, Std
  <2>4. \A s \in Passed' : s = cur \/ s \in Passed
    BY <2>2, <2>3, AfterFact, Kinds DEF Passed, OwnInv, FILES, Std
  <2>5. cur \in Std => Open(cur)
    BY <1>0 DEF Stand, Tables, Open
  <2>6. fh \in [FILES -> FileType] /\ \A s \in FILES : StreamOK(fh[s])
    BY <1>0 DEF Stand, Tables
  <2>7. \A s \in Passed' : fh'[s].on = "console" /\ fh'[s].can = Role(s)
    <3>1. SUFFICES ASSUME NEW s \in Passed'
                   PROVE  fh'[s].on = "console" /\ fh'[s].can = Role(s)
      OBVIOUS
    <3>2. s \in Std /\ s \in FILES
      BY DEF Passed, FILES
    <3>3. CASE s = cur
      <4>1. fh' = [fh EXCEPT ![s] = Shut(s)]
        BY <1>7, <2>5, <3>2, <3>3 DEF final_fclose
      <4> QED BY <2>6, <3>2, <4>1, ShutFact
    <3>4. CASE s # cur
      <4>1. fh'[s] = fh[s]
        BY <1>7, <2>6, <3>2, <3>4 DEF final_fclose
      <4> QED BY <2>4, <3>4, <4>1 DEF OwnInv
    <3> QED BY <3>3, <3>4
  <2> QED BY <2>1, <2>2, <2>3, <2>7 DEF OwnInv
<1>8. CASE final_done
  BY <1>0, <1>8 DEF final_done, OwnInv, Stand, Markers, Passed
<1>9. CASE __io_init
  <2>1. Stand' /\ fh' = fh
    BY <1>0, <1>9, initStands DEF OwnInv, Passed, __io_init
  <2> QED BY <1>9, <2>1 DEF OwnInv, Passed, __io_init
<1> QED BY <1>1, <1>2, <1>3, <1>4, <1>5, <1>6, <1>7, <1>8, <1>9 DEF Next, Call, Exit

THEOREM AlwaysOwnInv == Spec => []OwnInv
BY InitOwnInv, StepOwnInv, PTL DEF Spec

(* What the host has open and keeps for the program is what the open        *)
(* streams have, at any time: fopen, tmpfile, freopen, fclose and exit      *)
(* neither leak a handle nor close or remove one that is in use.            *)
THEOREM AlwaysOwned == Spec => []HostOwned
BY AlwaysOwnInv, OwnInvOwns, PTL

-----------------------------------------------------------------------------
(* The calls implement the table of streams.  A call that closes and opens  *)
(* is one Place: what it closes may be what it is given.                    *)
LEMMA ClosesTable ==
  ASSUME Stand, NEW s \in FILES, fh' = [fh EXCEPT ![s] = Shut(s)]
  PROVE  Promise!Next
<1>1. fh \in [FILES -> FileType] /\ StreamOK(fh[s])
  BY DEF Stand, Tables
<1>2. Table'[s] = Promise!AtRest(s)
  <2>1. /\ Shut(s).valid <=> s \in Std
        /\ s \in Std => Shut(s).on = "console" /\ Shut(s).can = Role(s)
    BY <1>1, ShutFact
  <2> QED BY <1>1, <2>1 DEF Table, Promise!AtRest, Promise!Role, Role
<1>3. Table' = [Table EXCEPT ![s] = Promise!AtRest(s)]
  BY <1>1, <1>2 DEF Table
<1> QED BY <1>3 DEF Promise!Next, Promise!Close, FILES

LEMMA PlacesTable ==
  ASSUME Stand, NEW s \in FILES, NEW r, StreamOK(r), r.valid,
         r.on = "host" => IF Open(s) THEN r.file \notin HostClosed(s).open
                                     ELSE r.file \notin host.open,
         fh' = [fh EXCEPT ![s] = r]
  PROVE  Promise!Next
<1> DEFINE on == IF r.on = "host" THEN r.file ELSE r.on
<1>1. /\ fh \in [FILES -> FileType] /\ \A t \in FILES : StreamOK(fh[t])
      /\ {fh[t].file : t \in Hosted(fh)} = host.open
      /\ r.can \in Directions /\ (r.on = "console" => r.can # {"r", "w"})
      /\ r.on \in {"console", "host", "memory"} /\ (r.on = "host" => r.file \in Handles)
  BY DEF Stand, Tables, StreamOK, FileType
<1>2. Table' = [Table EXCEPT ![s] = [on |-> on, can |-> r.can]]
  BY <1>1 DEF Table
<1>3. on = "console" => r.can # {"r", "w"}
  BY <1>1, Kinds
<1>4. ASSUME NEW t \in FILES, Table[t] # Null, Table[t].on \in Handles
      PROVE  t \in Hosted(fh) /\ Table[t].on = fh[t].file
  BY <1>1, <1>4, Kinds DEF Table, Hosted, StreamOK, FileType
<1>5. CASE on \notin Handles
  <2>1. on \in {"console", "memory"}
    BY <1>1, <1>5
  <2>2. Promise!Place(s)
    BY <1>1, <1>2, <1>3, <2>1 DEF Promise!Place, Directions
  <2> QED BY <2>2 DEF Promise!Next, FILES
<1>6. CASE on \in Handles
  <2>1. r.on = "host" /\ on = r.file
    BY <1>1, <1>6, Kinds
  <2>2. ASSUME on \in Promise!InUse
        PROVE  Table[s] # Null /\ Table[s].on = on
    <3>1. PICK t \in FILES : Table[t] # Null /\ Table[t].on = on
      BY <2>2 DEF Promise!InUse, FILES
    <3>2. t \in Hosted(fh) /\ fh[t].file = on /\ on \in host.open
      BY <1>1, <1>4, <1>6, <3>1
    <3>3. Open(s) /\ on \notin HostClosed(s).open
      BY <2>1, <3>2
    <3>4. HostClosed(s).open = host.open \ {fh[u].file : u \in Hosted(fh) \cap {s}}
      BY <3>3, CloseTables DEF Stand
    <3>5. s \in Hosted(fh) /\ fh[s].file = on
      BY <3>2, <3>3, <3>4
    <3>6. s = t
      BY <3>2, <3>5 DEF Stand, Tables
    <3> QED BY <3>1, <3>6
  <2>3. on \in {"console", "memory"} \cup (Handles \ Promise!InUse)
                 \cup (IF Table[s] = Null THEN {} ELSE {Table[s].on} \cap Handles)
    BY <1>6, <2>2
  <2> HIDE DEF on
  <2>4. Promise!Place(s)
    BY <1>1, <1>2, <1>3, <2>3 DEF Promise!Place, Directions
  <2> QED BY <2>4 DEF Promise!Next, FILES
<1> QED BY <1>5, <1>6

LEMMA OpensTable ==
  ASSUME Stand, NEW f \in Files, fopen(f) \/ open_memstream(f) \/ tmpfile(f)
  PROVE  Promise!Next
<1>1. f \in FILES /\ ~Open(f)
  BY DEF FILES, Stand, Open, fopen, open_memstream, tmpfile
<1>2. CASE fopen(f)
  <2>1. PICK on \in Places(host), mode \in Modes :
          fh' = [fh EXCEPT ![f] = Opened(Cleared, on, mode)]
    BY <1>2 DEF fopen
  <2>2. on \in {"console"} \cup Handles /\ (on # "console" => on \notin host.open)
    BY DEF Places
  <2>3. Cleared \in FileType
    BY ClearedOK DEF StreamOK
  <2> QED BY <1>1, <2>1, <2>2, <2>3, OpenedOK, PlacesTable
<1>3. CASE open_memstream(f)
  <2> DEFINE r == [Cleared EXCEPT !.valid = TRUE, !.on = "memory", !.can = {"w"}]
  <2>1. r \in FileType /\ r.valid /\ ~r.delete /\ r.on = "memory" /\ r.can = {"w"}
    BY DEF FileType, Cleared
  <2>2. fh' = [fh EXCEPT ![f] = r]
    BY <1>3 DEF open_memstream
  <2> HIDE DEF r
  <2>3. StreamOK(r)
    BY <2>1 DEF StreamOK, Directions
  <2> QED BY <1>1, <2>1, <2>2, <2>3, PlacesTable
<1>4. CASE tmpfile(f)
  <2>1. PICK n \in Temps, h \in Handles \ host.open :
          fh' = [fh EXCEPT ![f] = [Opened(Cleared, h, {"r", "w"}) EXCEPT
                                    !.marker = n, !.delete = TRUE]]
    BY <1>4 DEF tmpfile
  <2> DEFINE r == [Opened(Cleared, h, {"r", "w"}) EXCEPT !.marker = n, !.delete = TRUE]
  <2>2. h # "console"
    BY Kinds
  <2>3. /\ r \in FileType /\ r.valid /\ r.delete /\ r.on = "host" /\ r.can = {"r", "w"}
        /\ r.marker = n /\ r.file = h
    BY <2>2 DEF FileType, Cleared, Opened
  <2> HIDE DEF r
  <2>4. StreamOK(r) /\ r.file \notin host.open
    BY <2>3 DEF StreamOK, Directions
  <2>5. fh' = [fh EXCEPT ![f] = r]
    BY <2>1 DEF r
  <2> QED BY <1>1, <2>3, <2>4, <2>5, PlacesTable
<1> QED BY <1>2, <1>3, <1>4

LEMMA freopenTable ==
  ASSUME Stand, NEW s \in FILES, freopen(s)
  PROVE  Promise!Next
<1>1. PICK on \in Places(HostClosed(s)), mode \in Modes :
        fh' = [fh EXCEPT ![s] = Opened(Shut(s), on, mode)]
  BY DEF freopen, Reopened
<1>2. on \in {"console"} \cup Handles /\ (on # "console" => on \notin HostClosed(s).open)
  BY DEF Places
<1>3. Shut(s) \in FileType
  BY ShutFact DEF Stand, Tables, StreamOK
<1> DEFINE r == Opened(Shut(s), on, mode)
<1>4. /\ StreamOK(r) /\ r.valid
      /\ r.on = "host" => r.file \notin HostClosed(s).open
  BY <1>2, <1>3, OpenedOK
<1>5. fh' = [fh EXCEPT ![s] = r] /\ Open(s)
  BY <1>1 DEF freopen
<1> HIDE DEF r
<1> QED BY <1>4, <1>5, PlacesTable

LEMMA SameTable == ASSUME fh' = fh PROVE Table' = Table
BY DEF Table

LEMMA StepTable == OwnInv /\ [Next]_vars => [Promise!Next]_Table
<1> SUFFICES ASSUME OwnInv, [Next]_vars PROVE Promise!Next \/ Table' = Table
  OBVIOUS
<1>0. Stand
  BY DEF OwnInv
<1>1. CASE UNCHANGED vars
  BY <1>1, SameTable DEF vars
<1>2. ASSUME NEW f \in Files, fopen(f) \/ open_memstream(f) \/ tmpfile(f)
      PROVE  Promise!Next
  BY <1>0, <1>2, OpensTable
<1>3. ASSUME NEW f \in Files, fopen_fails(f) PROVE Table' = Table
  <2>1. ~fh[f].valid /\ fh \in [FILES -> FileType] /\ fh' = [fh EXCEPT ![f] = Cleared]
    BY <1>0, <1>3 DEF fopen_fails, Stand, Tables
  <2>2. \A s \in FILES : IF s = f THEN fh'[s] = Cleared ELSE fh'[s] = fh[s]
    BY <2>1
  <2>3. ~fh'[f].valid
    BY <2>2, ClearedOK DEF FILES
  <2> QED BY <2>1, <2>2, <2>3 DEF Table
<1>4. ASSUME NEW s \in FILES, freopen(s) PROVE Promise!Next
  BY <1>0, <1>4, freopenTable
<1>5. ASSUME NEW s \in FILES, freopen_fails(s) \/ fclose(s) PROVE Promise!Next
  BY <1>0, <1>5, ClosesTable DEF freopen_fails, fclose
<1>6. CASE __io_final \/ final_done
  BY <1>6, SameTable DEF __io_final, final_done
<1>7. CASE final_fclose
  <2>1. PICK s \in FILES : s = cur
    BY <1>7 DEF OwnInv, final_fclose
  <2>2. CASE Open(cur)
    <3>1. fh' = [fh EXCEPT ![s] = Shut(s)]
      BY <1>7, <2>1, <2>2 DEF final_fclose
    <3> QED BY <1>0, <3>1, ClosesTable
  <2>3. CASE ~Open(cur)
    BY <1>7, <2>3, SameTable DEF final_fclose
  <2> QED BY <2>2, <2>3
<1>8. CASE __io_init
  <2>1. fh' = fh
    BY <1>0, <1>8, initStands DEF OwnInv, Passed, __io_init
  <2> QED BY <2>1, SameTable
<1> QED BY <1>1, <1>2, <1>3, <1>4, <1>5, <1>6, <1>7, <1>8 DEF Next, Call, Exit

(* The calls implement the table of streams a program sees: each of them    *)
(* opens or closes one stream of it, or leaves it as it was, and no stream  *)
(* is ever given the handle of another.                                     *)
THEOREM Implements == Spec => RefinesStreams
<1>1. Init => Promise!Init
  <2> SUFFICES ASSUME Init PROVE Table = [s \in Std \cup Files |-> Promise!AtRest(s)]
    BY DEF Promise!Init
  <2>1. ASSUME NEW s \in Std
        PROVE  /\ fh[s].valid /\ fh[s].on = "console" /\ fh[s].can = Role(s)
               /\ Promise!AtRest(s) = [on |-> "console", can |-> Role(s)]
    <3>1. fh[s] = OnConsole(Cleared, Role(s))
      BY InitStand
    <3>2. Promise!AtRest(s) = [on |-> "console", can |-> Role(s)]
      BY DEF Promise!AtRest, Promise!Role, Role
    <3> QED BY <3>1, <3>2 DEF OnConsole, Cleared
  <2>2. ASSUME NEW s \in Files PROVE ~fh[s].valid /\ Promise!AtRest(s) = Null
    BY InitStand, Kinds DEF Promise!AtRest
  <2> QED BY <2>1, <2>2 DEF Table, FILES
<1>2. OwnInv /\ [Next]_vars => [Promise!Next]_Table
  BY StepTable
<1> QED BY <1>1, <1>2, AlwaysOwnInv, PTL DEF Spec, RefinesStreams, Promise!Spec

-----------------------------------------------------------------------------
(* The chain, when it is a line: the blocks of S in the order s, from the   *)
(* head h to the block whose _chain is Null, each of them once.             *)
Strung(s, n, h, S, C) ==
  /\ s \in [1..n -> S]
  /\ \A f \in S : \E k \in 1..n : s[k] = f
  /\ \A j, k \in 1..n : s[j] = s[k] => j = k
  /\ h = IF n = 0 THEN Null ELSE s[1]
  /\ \A k \in 1..n : C[s[k]] = IF k = n THEN Null ELSE s[k + 1]
Line(h, S, C) == \E n \in Nat : \E s \in [1..n -> S] : Strung(s, n, h, S, C)

LEMMA LineEmpty == ASSUME NEW C PROVE Line(Null, {}, C)
<1> DEFINE s == [k \in 1..0 |-> Null]
<1>1. s \in [1..0 -> {}]
  OBVIOUS
<1>2. Strung(s, 0, Null, {}, C)
  BY <1>1 DEF Strung
<1> QED BY <1>1, <1>2 DEF Line

(* A head that is Null is that of no block, any other is a block of S.      *)
LEMMA LineHead ==
  ASSUME NEW h, NEW S, NEW C, S \subseteq Files, Line(h, S, C)
  PROVE  IF h = Null THEN S = {} ELSE h \in S
<1>0. PICK n \in Nat : \E s \in [1..n -> S] : Strung(s, n, h, S, C)
  BY DEF Line
<1>1. PICK s \in [1..n -> S] : Strung(s, n, h, S, C)
  BY <1>0
<1>2. CASE n = 0
  <2>1. h = Null /\ 1..n = {}
    BY <1>1, <1>2 DEF Strung
  <2> QED BY <1>1, <2>1 DEF Strung
<1>3. CASE n # 0
  <2>1. 1 \in 1..n
    BY <1>3
  <2> QED BY <1>1, <1>3, <2>1, Kinds DEF Strung
<1> QED BY <1>2, <1>3

LEMMA LineFrame ==
  ASSUME NEW h, NEW S, NEW C, NEW D, Line(h, S, C), \A f \in S : D[f] = C[f]
  PROVE  Line(h, S, D)
<1>0. PICK n \in Nat : \E s \in [1..n -> S] : Strung(s, n, h, S, C)
  BY DEF Line
<1>1. PICK s \in [1..n -> S] : Strung(s, n, h, S, C)
  BY <1>0
<1>2. Strung(s, n, h, S, D)
  BY <1>1 DEF Strung
<1> QED BY <1>2 DEF Line

(* A new block goes before the head.                                        *)
LEMMA LinePush ==
  ASSUME NEW h, NEW S, NEW C \in [Files -> Files \cup {Null}], S \subseteq Files,
         Line(h, S, C), NEW f \in Files \ S
  PROVE  Line(f, S \cup {f}, [C EXCEPT ![f] = h])
<1>0. PICK n \in Nat : \E s \in [1..n -> S] : Strung(s, n, h, S, C)
  BY DEF Line
<1>1. PICK s \in [1..n -> S] : Strung(s, n, h, S, C)
  BY <1>0
<1> DEFINE R == S \cup {f}
           D == [C EXCEPT ![f] = h]
           t == [k \in 1..n + 1 |-> IF k = 1 THEN f ELSE s[k - 1]]
<1>2. /\ D[f] = h /\ \A g \in S : D[g] = C[g] /\ g # f
  OBVIOUS
<1>3. \A k \in 1..n + 1 : k # 1 => k - 1 \in 1..n
  OBVIOUS
<1>4. \A k \in 1..n : k + 1 \in 1..n + 1 /\ k + 1 # 1 /\ (k + 1) - 1 = k
  OBVIOUS
<1>5. /\ t \in [1..n + 1 -> R] /\ t[1] = f /\ 1 \in 1..n + 1
      /\ \A k \in 1..n + 1 : t[k] = IF k = 1 THEN f ELSE s[k - 1]
  BY <1>3
<1> HIDE DEF t, D
<1>6. \A g \in R : \E k \in 1..n + 1 : t[k] = g
  <2> SUFFICES ASSUME NEW g \in R, g # f PROVE \E k \in 1..n + 1 : t[k] = g
    BY <1>5
  <2>1. PICK k \in 1..n : s[k] = g
    BY <1>1 DEF Strung
  <2>2. k + 1 \in 1..n + 1 /\ k + 1 # 1 /\ (k + 1) - 1 = k
    BY <1>4
  <2>3. t[k + 1] = g
    BY <1>5, <2>1, <2>2
  <2> QED BY <2>2, <2>3
<1>7. \A j, k \in 1..n + 1 : t[j] = t[k] => j = k
  <2> SUFFICES ASSUME NEW j \in 1..n + 1, NEW k \in 1..n + 1, t[j] = t[k] PROVE j = k
    OBVIOUS
  <2>1. CASE j = 1 \/ k = 1
    BY <1>2, <1>3, <1>5, <2>1
  <2>2. CASE j # 1 /\ k # 1
    <3>1. j - 1 \in 1..n /\ k - 1 \in 1..n /\ s[j - 1] = s[k - 1]
      BY <1>3, <1>5, <2>2
    <3>2. j - 1 = k - 1
      BY <1>1, <3>1 DEF Strung
    <3> QED BY <3>2
  <2> QED BY <2>1, <2>2
<1>8. ASSUME NEW k \in 1..n + 1
      PROVE  D[t[k]] = IF k = n + 1 THEN Null ELSE t[k + 1]
  <2>1. CASE k = 1
    <3>1. D[t[k]] = h /\ h = IF n = 0 THEN Null ELSE s[1]
      BY <1>1, <1>2, <1>5, <2>1 DEF Strung
    <3>2. n # 0 => t[2] = s[1]
      <4>1. n # 0 => 2 \in 1..n + 1 /\ 2 - 1 = 1 /\ 2 # 1
        OBVIOUS
      <4> QED BY <1>5, <4>1
    <3> QED BY <2>1, <3>1, <3>2
  <2>2. CASE k # 1
    <3>1. k - 1 \in 1..n /\ t[k] = s[k - 1]
      BY <1>3, <1>5, <2>2
    <3>2. D[t[k]] = IF k - 1 = n THEN Null ELSE s[(k - 1) + 1]
      BY <1>1, <1>2, <3>1 DEF Strung
    <3>3. k # n + 1 => t[k + 1] = s[(k - 1) + 1]
      <4>1. k # n + 1 => k + 1 \in 1..n + 1 /\ k + 1 # 1 /\ (k + 1) - 1 = (k - 1) + 1
        OBVIOUS
      <4> QED BY <1>5, <4>1
    <3> QED BY <3>2, <3>3
  <2> QED BY <2>1, <2>2
<1>9. Strung(t, n + 1, f, R, D) /\ n + 1 \in Nat
  BY <1>5, <1>6, <1>7, <1>8 DEF Strung
<1> QED BY <1>5, <1>9 DEF Line, D

(* The block behind the block s[j] takes its place.                         *)
LEMMA LineCut ==
  ASSUME NEW S, NEW C \in [Files -> Files \cup {Null}], S \subseteq Files,
         NEW n \in Nat, NEW h, NEW s \in [1..n -> S], Strung(s, n, h, S, C),
         NEW j \in 1..n, NEW D \in [Files -> Files \cup {Null}],
         \A g \in S : D[g] = IF C[g] = s[j] THEN C[s[j]] ELSE C[g]
  PROVE  Line(IF j = 1 THEN C[s[1]] ELSE h, S \ {s[j]}, D)
<1> DEFINE R == S \ {s[j]}
           m == n - 1
           Up(k) == IF k < j THEN k ELSE k + 1
           t == [k \in 1..m |-> s[Up(k)]]
           e == IF j = 1 THEN C[s[1]] ELSE h
<1>1. /\ \A f \in S : \E k \in 1..n : s[k] = f
      /\ \A i, k \in 1..n : s[i] = s[k] => i = k
      /\ \A k \in 1..n : C[s[k]] = IF k = n THEN Null ELSE s[k + 1]
      /\ h = s[1]
  BY DEF Strung
<1>2. m \in Nat /\ \A k \in 1..m : Up(k) \in 1..n /\ Up(k) # j
  OBVIOUS
<1>3. t \in [1..m -> R] /\ \A k \in 1..m : t[k] = s[Up(k)]
  BY <1>1, <1>2
<1>4. \A f \in R : \E k \in 1..m : t[k] = f
  <2> SUFFICES ASSUME NEW f \in R PROVE \E k \in 1..m : t[k] = f
    OBVIOUS
  <2>1. PICK i \in 1..n : s[i] = f
    BY <1>1
  <2>2. i # j
    BY <2>1
  <2> DEFINE k == IF i < j THEN i ELSE i - 1
  <2>3. k \in 1..m /\ Up(k) = i
    BY <2>2
  <2> QED BY <1>3, <2>1, <2>3
<1>5. \A i, k \in 1..m : t[i] = t[k] => i = k
  <2> SUFFICES ASSUME NEW i \in 1..m, NEW k \in 1..m, t[i] = t[k] PROVE i = k
    OBVIOUS
  <2>1. Up(i) = Up(k)
    BY <1>1, <1>2, <1>3
  <2> QED BY <2>1
<1>6. e = IF m = 0 THEN Null ELSE t[1]
  <2>1. CASE j = 1
    <3>1. e = IF n = 1 THEN Null ELSE s[2]
      BY <1>1, <2>1
    <3>2. m # 0 => 1 \in 1..m /\ Up(1) = 2
      BY <2>1
    <3> QED BY <1>3, <3>1, <3>2
  <2>2. CASE j # 1
    <3>1. m # 0 /\ 1 \in 1..m /\ Up(1) = 1
      BY <2>2
    <3> QED BY <1>1, <1>3, <2>2, <3>1
  <2> QED BY <2>1, <2>2
<1>7. ASSUME NEW k \in 1..m
      PROVE  D[t[k]] = IF k = m THEN Null ELSE t[k + 1]
  <2>1. t[k] = s[Up(k)] /\ Up(k) \in 1..n /\ s[Up(k)] \in S
    BY <1>2, <1>3
  <2>2. C[t[k]] = IF Up(k) = n THEN Null ELSE s[Up(k) + 1]
    BY <1>1, <2>1
  <2>3. s[j] \in Files /\ s[j] # Null
    BY Kinds
  <2>4. CASE k = j - 1
    <3>1. Up(k) = k /\ Up(k) # n /\ k + 1 = j
      BY <2>4
    <3>2. D[t[k]] = C[s[j]]
      BY <2>1, <2>2, <3>1
    <3>3. C[s[j]] = IF j = n THEN Null ELSE s[j + 1]
      BY <1>1
    <3>4. k # m => k + 1 \in 1..m /\ Up(k + 1) = j + 1
      BY <3>1
    <3> QED BY <1>3, <2>4, <3>2, <3>3, <3>4
  <2>5. CASE k # j - 1
    <3>1. Up(k) # n => Up(k) + 1 \in 1..n /\ Up(k) + 1 # j
      BY <2>1, <2>5
    <3>2. C[t[k]] # s[j]
      BY <1>1, <2>2, <2>3, <3>1
    <3>3. D[t[k]] = C[t[k]]
      BY <2>1, <3>2
    <3>4. Up(k) = n <=> k = m
      BY <2>5
    <3>5. k # m => k + 1 \in 1..m /\ Up(k + 1) = Up(k) + 1
      BY <2>5
    <3> QED BY <1>3, <2>2, <3>3, <3>4, <3>5
  <2> QED BY <2>4, <2>5
<1> HIDE DEF t, e, R, m
<1>8. Strung(t, m, e, R, D)
  BY <1>3, <1>4, <1>5, <1>6, <1>7 DEF Strung
<1>9. Line(e, R, D)
  BY <1>2, <1>3, <1>8 DEF Line
<1> QED BY <1>9 DEF e, R

(* The head is taken off, as fclose and exit do.                            *)
LEMMA LinePop ==
  ASSUME NEW h, NEW S, NEW C \in [Files -> Files \cup {Null}], S \subseteq Files,
         Line(h, S, C), h \in S
  PROVE  Line(C[h], S \ {h}, C)
<1>0. PICK n \in Nat : \E s \in [1..n -> S] : Strung(s, n, h, S, C)
  BY DEF Line
<1>1. PICK s \in [1..n -> S] : Strung(s, n, h, S, C)
  BY <1>0
<1>2. n # 0 /\ h = s[1] /\ 1 \in 1..n
  BY <1>1, Kinds DEF Strung
<1>3. \A g \in S : C[g] # h
  <2> SUFFICES ASSUME NEW g \in S, C[g] = h PROVE FALSE
    OBVIOUS
  <2>1. PICK k \in 1..n : s[k] = g
    BY <1>1 DEF Strung
  <2>2. k # n /\ s[k + 1] = s[1] /\ k + 1 \in 1..n
    BY <1>1, <1>2, <2>1, Kinds DEF Strung
  <2>3. k + 1 = 1
    BY <1>1, <1>2, <2>2 DEF Strung
  <2> QED BY <2>1, <2>3
<1>4. Line(IF 1 = 1 THEN C[s[1]] ELSE h, S \ {s[1]}, C)
  BY <1>1, <1>2, <1>3, LineCut
<1> QED BY <1>2, <1>4

(* A block behind p is taken off, in the way fclose unlinks it.             *)
LEMMA LineDrop ==
  ASSUME NEW h, NEW S, NEW C \in [Files -> Files \cup {Null}], S \subseteq Files,
         Line(h, S, C), NEW f \in S, h # f, NEW p \in S, C[p] = f
  PROVE  Line(h, S \ {f}, [C EXCEPT ![p] = C[f]])
<1>0. PICK n \in Nat : \E s \in [1..n -> S] : Strung(s, n, h, S, C)
  BY DEF Line
<1>1. PICK s \in [1..n -> S] : Strung(s, n, h, S, C)
  BY <1>0
<1>2. PICK j \in 1..n : s[j] = f
  BY <1>1 DEF Strung
<1>3. j # 1
  BY <1>1, <1>2 DEF Strung
<1> DEFINE D == [C EXCEPT ![p] = C[f]]
<1>4. D \in [Files -> Files \cup {Null}]
  OBVIOUS
<1>5. ASSUME NEW g \in S, C[g] = f PROVE g = p
  <2>1. PICK i \in 1..n : s[i] = g
    BY <1>1 DEF Strung
  <2>2. PICK k \in 1..n : s[k] = p
    BY <1>1 DEF Strung
  <2>3. i # n /\ s[i + 1] = f /\ k # n /\ s[k + 1] = f
    BY <1>1, <1>5, <2>1, <2>2, Kinds DEF Strung
  <2>4. i + 1 \in 1..n /\ k + 1 \in 1..n
    BY <2>3
  <2>5. i + 1 = k + 1
    BY <1>1, <2>3, <2>4 DEF Strung
  <2> QED BY <2>1, <2>2, <2>5
<1>6. \A g \in S : D[g] = IF C[g] = s[j] THEN C[s[j]] ELSE C[g]
  BY <1>2, <1>5
<1> HIDE DEF D
<1>7. Line(IF j = 1 THEN C[s[1]] ELSE h, S \ {s[j]}, D)
  BY <1>1, <1>4, <1>6, LineCut
<1> QED BY <1>2, <1>3, <1>7 DEF D

(* fclose, whose search has found the block before the one it unlinks.      *)
LEMMA LineUnlink ==
  ASSUME NEW S, S \subseteq Files, chain \in [Files -> Files \cup {Null}],
         Line(list, S, chain), Chained = S, NEW f \in S, Unlink(f)
  PROVE  Line(list', S \ {f}, chain')
<1>1. CASE list = f
  BY <1>1, LinePop DEF Unlink
<1>2. CASE list # f
  <2>0. PICK n \in Nat : \E s \in [1..n -> S] : Strung(s, n, list, S, chain)
    BY DEF Line
  <2>1. PICK s \in [1..n -> S] : Strung(s, n, list, S, chain)
    BY <2>0
  <2>2. PICK j \in 1..n : s[j] = f
    BY <2>1 DEF Strung
  <2>3. j - 1 \in 1..n /\ j - 1 # n /\ (j - 1) + 1 = j
    BY <1>2, <2>1, <2>2 DEF Strung
  <2>4. s[j - 1] \in S /\ chain[s[j - 1]] = f
    BY <2>1, <2>2, <2>3 DEF Strung
  <2> DEFINE p == CHOOSE p \in Chained : chain[p] = f
  <2>5. p \in S /\ chain[p] = f
    BY <2>4
  <2>6. list' = list /\ chain' = [chain EXCEPT ![p] = chain[f]]
    BY <1>2 DEF Unlink
  <2> HIDE DEF p
  <2> QED BY <1>2, <2>5, <2>6, LineDrop
<1> QED BY <1>1, <1>2

(* Along a line the walk meets its blocks, and ends within the bound: there *)
(* are no more of them than there are blocks.                               *)
LEMMA LineWalk ==
  ASSUME NEW S, S \subseteq Files, Line(list, S, chain)
  PROVE  Chained = S /\ WalkEnds
<1>0. PICK n \in Nat : \E s \in [1..n -> S] : Strung(s, n, list, S, chain)
  BY DEF Line
<1>1. PICK s \in [1..n -> S] : Strung(s, n, list, S, chain)
  BY <1>0
<1>2. n <= Cardinality(Files)
  <2>1. s \in Injection(1..n, Files)
    BY <1>1 DEF Strung, Injection, IsInjective
  <2>2. Cardinality(1..n) <= Cardinality(Files)
    BY <2>1, FS_Injection, StdioAssumption
  <2>3. Cardinality(1..n) = n
    BY FS_Interval
  <2> QED BY <2>2, <2>3
<1> DEFINE W(k) == IF k < n THEN s[k + 1] ELSE Null
           T == {k \in Steps : Walk[k] # W(k)}
<1>3. T = {}
  <2>1. SUFFICES ASSUME T # {} PROVE FALSE
    OBVIOUS
  <2>2. T \subseteq Nat
    BY DEF Steps
  <2>3. PICK k \in T : \A i \in T : k <= i
    BY <2>1, <2>2, NatMin
  <2>4. k \in Nat /\ k \in Steps /\ Walk[k] = IF k = 0 THEN list ELSE Follow(Walk[k - 1])
    BY <2>2, WalkLaw
  <2>5. k # 0
    <3>1. ASSUME k = 0 PROVE list = W(0)
      BY <1>1 DEF Strung
    <3> QED BY <2>4, <3>1
  <2>6. k - 1 \in Steps /\ k - 1 \notin T /\ k - 1 \in Nat
    BY <2>3, <2>4, <2>5, StepsNat DEF Steps
  <2>7. Walk[k - 1] = W(k - 1) /\ Walk[k] = Follow(W(k - 1))
    BY <2>4, <2>5, <2>6
  <2>8. Follow(W(k - 1)) = W(k)
    <3>1. CASE k - 1 < n
      <4>1. k \in 1..n /\ W(k - 1) = s[k] /\ s[k] # Null
        BY <2>4, <2>5, <3>1, Kinds
      <4>2. chain[s[k]] = IF k = n THEN Null ELSE s[k + 1]
        BY <1>1, <4>1 DEF Strung
      <4> QED BY <4>1, <4>2 DEF Follow
    <3>2. CASE ~(k - 1 < n)
      BY <2>4, <3>2 DEF Follow
    <3> QED BY <3>1, <3>2
  <2> QED BY <2>7, <2>8
<1>4. \A k \in Steps : Walk[k] = W(k)
  BY <1>3
<1>5. n \in Steps /\ Walk[n] = Null
  <2>1. n \in Steps
    BY <1>2, StepsNat DEF Steps
  <2> QED BY <1>4, <2>1
<1>6. \A k \in Steps : Walk[k] \in S \cup {Null}
  <2> SUFFICES ASSUME NEW k \in Steps, k < n PROVE s[k + 1] \in S
    BY <1>4
  <2>1. k + 1 \in 1..n
    BY DEF Steps
  <2> QED BY <2>1
<1>7. ASSUME NEW f \in S PROVE f \in Chained
  <2>1. PICK k \in 1..n : s[k] = f
    BY <1>1 DEF Strung
  <2>2. k - 1 \in Steps /\ k - 1 < n /\ (k - 1) + 1 = k
    BY <1>2, StepsNat DEF Steps
  <2>3. Walk[k - 1] = f
    BY <1>4, <2>1, <2>2
  <2> QED BY <2>2, <2>3, Kinds DEF Chained
<1> QED BY <1>5, <1>6, <1>7 DEF Chained, WalkEnds

-----------------------------------------------------------------------------
(* The chain is a line of just the open streams, from __file_list on while  *)
(* the program runs, and from the stream it closes next on while exit does. *)
OpenFiles == {f \in Files : fh[f].valid}
CurFile == IF cur \in Files THEN cur ELSE Null

LineInv ==
  /\ phase # "hung"
  /\ phase = "running" => Line(list, OpenFiles, chain)
  /\ phase # "running" => list = Null
  /\ phase = "closing" => Line(CurFile, OpenFiles, chain)
  /\ phase = "ended" => OpenFiles = {}

LEMMA OpenFilesSet ==
  ASSUME OwnInv
  PROVE  /\ OpenFiles \subseteq Files /\ OpenFiles \subseteq heap
         /\ chain \in [Files -> Files \cup {Null}]
         /\ fh \in [FILES -> FileType] /\ Files \subseteq FILES
BY DEF OpenFiles, OwnInv, Stand, Tables, FILES

LEMMA InitLineInv == Init => LineInv
<1> SUFFICES ASSUME Init PROVE LineInv
  OBVIOUS
<1>1. OpenFiles = {}
  BY InitStand DEF OpenFiles
<1> QED BY <1>1, LineEmpty DEF LineInv, Init

LEMMA OpensLine ==
  ASSUME OwnInv, LineInv, NEW f \in Files, fopen(f) \/ open_memstream(f) \/ tmpfile(f)
  PROVE  LineInv'
<1>1. phase = "running" /\ phase' = phase /\ f \notin heap /\ Link(f)
  BY DEF fopen, open_memstream, tmpfile, Running
<1>2. PICK r : fh' = [fh EXCEPT ![f] = r] /\ r.valid
  <2>1. CASE fopen(f)
    <3>1. PICK on \in Places(host), mode \in Modes :
            fh' = [fh EXCEPT ![f] = Opened(Cleared, on, mode)]
      BY <2>1 DEF fopen
    <3>2. Opened(Cleared, on, mode).valid
      BY OpenedOK, ClearedOK DEF Places, StreamOK
    <3> QED BY <3>1, <3>2
  <2>2. CASE open_memstream(f)
    <3>1. [Cleared EXCEPT !.valid = TRUE, !.on = "memory", !.can = {"w"}].valid
      BY DEF Cleared
    <3> QED BY <2>2, <3>1 DEF open_memstream
  <2>3. CASE tmpfile(f)
    <3>1. PICK n \in Temps, h \in Handles :
            fh' = [fh EXCEPT ![f] = [Opened(Cleared, h, {"r", "w"}) EXCEPT
                                      !.marker = n, !.delete = TRUE]]
      BY <2>3 DEF tmpfile
    <3>2. [Opened(Cleared, h, {"r", "w"}) EXCEPT !.marker = n, !.delete = TRUE].valid
      BY Kinds DEF Opened, Cleared
    <3> QED BY <3>1, <3>2
  <2> QED BY <2>1, <2>2, <2>3
<1>3. OpenFiles' = OpenFiles \cup {f} /\ f \in Files \ OpenFiles
  BY <1>1, <1>2, OpenFilesSet DEF OpenFiles
<1>4. Line(list', OpenFiles', chain')
  BY <1>1, <1>3, OpenFilesSet, LinePush DEF LineInv, Link
<1> QED BY <1>1, <1>4 DEF LineInv

LEMMA fopen_failsLine ==
  ASSUME OwnInv, LineInv, NEW f \in Files, fopen_fails(f)
  PROVE  LineInv'
<1>1. /\ phase = "running" /\ phase' = phase /\ f \notin heap /\ list' = list
      /\ fh' = [fh EXCEPT ![f] = Cleared] /\ chain' = [chain EXCEPT ![f] = Null]
  BY DEF fopen_fails, Running
<1>2. OpenFiles' = OpenFiles /\ f \notin OpenFiles
  BY <1>1, OpenFilesSet, ClearedOK DEF OpenFiles
<1>3. \A g \in OpenFiles : chain'[g] = chain[g]
  BY <1>1, <1>2, OpenFilesSet
<1>4. Line(list', OpenFiles', chain')
  BY <1>1, <1>2, <1>3, LineFrame DEF LineInv
<1> QED BY <1>1, <1>4 DEF LineInv

LEMMA freopenLine ==
  ASSUME OwnInv, LineInv, NEW s \in FILES, freopen(s)
  PROVE  LineInv'
<1>1. phase = "running" /\ phase' = phase /\ list' = list /\ chain' = chain /\ Open(s)
  BY DEF freopen, Running
<1>2. PICK on \in Places(HostClosed(s)), mode \in Modes :
        fh' = [fh EXCEPT ![s] = Opened(Shut(s), on, mode)]
  BY DEF freopen, Reopened
<1>3. Opened(Shut(s), on, mode).valid
  <2>1. Shut(s) \in FileType
    BY ShutFact DEF OwnInv, Stand, Tables, StreamOK
  <2> QED BY <2>1, OpenedOK DEF Places
<1>4. OpenFiles' = OpenFiles
  BY <1>1, <1>2, <1>3, OpenFilesSet DEF OpenFiles, Open
<1> QED BY <1>1, <1>4 DEF LineInv

LEMMA ClosedOpenFiles ==
  ASSUME OwnInv, NEW s \in FILES, fh' = [fh EXCEPT ![s] = Shut(s)], Open(s)
  PROVE  OpenFiles' = OpenFiles \ {s}
<1>1. Shut(s).valid <=> s \in Std
  BY ShutFact DEF OwnInv, Stand, Tables
<1> QED BY <1>1, OpenFilesSet, Kinds DEF OpenFiles

(* Only a standard stream may be refused here, and it stays open.           *)
LEMMA freopen_failsLine ==
  ASSUME OwnInv, LineInv, NEW s \in FILES, freopen_fails(s), s \in Std
  PROVE  LineInv'
<1>1. /\ phase = "running" /\ phase' = phase /\ list' = list /\ chain' = chain
      /\ Open(s) /\ fh' = [fh EXCEPT ![s] = Shut(s)]
  BY DEF freopen_fails, Running
<1>2. OpenFiles' = OpenFiles
  BY <1>1, ClosedOpenFiles, Kinds DEF OpenFiles
<1> QED BY <1>1, <1>2 DEF LineInv

LEMMA fcloseLine ==
  ASSUME OwnInv, LineInv, NEW s \in FILES, fclose(s)
  PROVE  LineInv'
<1>1. phase = "running" /\ Open(s) /\ fh' = [fh EXCEPT ![s] = Shut(s)]
  BY DEF fclose
<1>2. /\ Chained = OpenFiles /\ WalkEnds /\ Line(list, OpenFiles, chain)
      /\ OpenFiles' = OpenFiles \ {s}
  BY <1>1, LineWalk, OpenFilesSet, ClosedOpenFiles DEF LineInv
<1>3. phase' = "running"
  BY <1>1, <1>2 DEF fclose
<1>4. Line(list', OpenFiles', chain')
  <2>1. CASE s \in Chained
    BY <1>2, <2>1, OpenFilesSet, LineUnlink DEF fclose
  <2>2. CASE s \notin Chained
    BY <1>2, <2>2 DEF fclose
  <2> QED BY <2>1, <2>2
<1> QED BY <1>3, <1>4 DEF LineInv

LEMMA finalLine ==
  ASSUME OwnInv, LineInv, __io_final
  PROVE  LineInv'
<1>1. /\ phase = "running" /\ phase' = "closing" /\ list' = Null /\ chain' = chain
      /\ cur' = (IF list = Null THEN "stdin" ELSE list) /\ OpenFiles' = OpenFiles
  BY DEF __io_final, OpenFiles
<1>2. CurFile' = list
  BY <1>1, Kinds DEF CurFile, OwnInv, Std
<1> QED BY <1>1, <1>2 DEF LineInv

LEMMA final_fcloseLine ==
  ASSUME OwnInv, LineInv, final_fclose
  PROVE  LineInv'
<1>1. /\ phase = "closing" /\ phase' = phase /\ list' = list /\ chain' = chain
      /\ cur \in FILES /\ cur' = After(cur)
  BY DEF final_fclose, OwnInv
<1>2. Line(CurFile, OpenFiles, chain)
  BY <1>1 DEF LineInv
<1>3. CASE cur \in Files
  <2>1. PICK s \in Files : s = cur
    BY <1>3
  <2>2. s \in OpenFiles /\ CurFile = s
    BY <1>2, <2>1, OpenFilesSet, LineHead, Kinds DEF CurFile
  <2>3. fh' = [fh EXCEPT ![s] = Shut(s)] /\ Open(s) /\ s \in FILES
    BY <1>1, <2>1, <2>2 DEF final_fclose, Open, OpenFiles
  <2>4. OpenFiles' = OpenFiles \ {s}
    BY <2>3, ClosedOpenFiles
  <2>5. CurFile' = chain[s]
    BY <1>1, <2>1, OpenFilesSet, AfterFact, Kinds DEF CurFile, Std
  <2>6. Line(CurFile', OpenFiles', chain')
    BY <1>1, <1>2, <2>2, <2>4, <2>5, OpenFilesSet, LinePop
  <2> QED BY <1>1, <2>6 DEF LineInv
<1>4. CASE cur \notin Files
  <2>1. PICK s \in Std : s = cur
    BY <1>1, <1>4 DEF FILES
  <2>2. cur' \in Std \cup {Null}
    BY <1>1, <2>1, AfterFact DEF Std
  <2>3. CurFile = Null /\ CurFile' = Null
    BY <1>4, <2>2, Kinds DEF CurFile
  <2>4. OpenFiles' = OpenFiles
    <3>1. CASE Open(cur)
      <4>1. fh' = [fh EXCEPT ![s] = Shut(s)] /\ Open(s) /\ s \in FILES
        BY <1>1, <2>1, <3>1 DEF final_fclose
      <4> QED BY <4>1, ClosedOpenFiles, Kinds DEF OpenFiles
    <3>2. CASE ~Open(cur)
      BY <3>2 DEF final_fclose, OpenFiles
    <3> QED BY <3>1, <3>2
  <2> QED BY <1>1, <1>2, <2>3, <2>4 DEF LineInv
<1> QED BY <1>3, <1>4

LEMMA final_doneLine ==
  ASSUME OwnInv, LineInv, final_done
  PROVE  LineInv'
<1>1. /\ phase = "closing" /\ phase' = "ended" /\ cur = Null /\ list' = list
      /\ OpenFiles' = OpenFiles
  BY DEF final_done, OpenFiles
<1>2. OpenFiles = {}
  BY <1>1, OpenFilesSet, LineHead, Kinds DEF LineInv, CurFile
<1> QED BY <1>1, <1>2 DEF LineInv

LEMMA initLine ==
  ASSUME OwnInv, LineInv, __io_init
  PROVE  LineInv'
<1>1. phase = "ended" /\ phase' = "running" /\ list' = list /\ fh' = fh
  BY initStands DEF __io_init, OwnInv, Passed
<1>2. OpenFiles' = {} /\ list' = Null
  BY <1>1 DEF LineInv, OpenFiles
<1> QED BY <1>1, <1>2, LineEmpty DEF LineInv

(* A refused freopen of a stream on the chain leaves the freed block there, *)
(* so the line needs a host that refuses the standard streams alone.        *)
LEMMA StepLineInv ==
  ASSUME RefusedReopen \subseteq Std
  PROVE  OwnInv /\ LineInv /\ [Next]_vars => LineInv'
<1> SUFFICES ASSUME OwnInv, LineInv, [Next]_vars PROVE LineInv'
  OBVIOUS
<1>1. CASE UNCHANGED vars
  BY <1>1 DEF vars, LineInv, OpenFiles, CurFile
<1>2. ASSUME NEW f \in Files, fopen(f) \/ open_memstream(f) \/ tmpfile(f)
      PROVE  LineInv'
  BY <1>2, OpensLine
<1>3. ASSUME NEW f \in Files, fopen_fails(f) PROVE LineInv'
  BY <1>3, fopen_failsLine
<1>4. ASSUME NEW s \in FILES, freopen(s) PROVE LineInv'
  BY <1>4, freopenLine
<1>5. ASSUME NEW s \in FILES, freopen_fails(s) PROVE LineInv'
  BY <1>5, freopen_failsLine DEF freopen_fails
<1>6. ASSUME NEW s \in FILES, fclose(s) PROVE LineInv'
  BY <1>6, fcloseLine
<1> QED BY <1>1, <1>2, <1>3, <1>4, <1>5, <1>6, finalLine, final_fcloseLine,
           final_doneLine, initLine DEF Next, Call, Exit

THEOREM AlwaysLineInv == ASSUME RefusedReopen \subseteq Std PROVE Spec => []LineInv
<1>1. Init => LineInv
  BY InitLineInv
<1>2. OwnInv /\ LineInv /\ [Next]_vars => LineInv'
  BY StepLineInv
<1> QED BY <1>1, <1>2, AlwaysOwnInv, PTL DEF Spec

(* While the program runs the chain of __file_list ends, and holds the open *)
(* streams and no other block, all of them allocated, whatever calls of     *)
(* fopen, tmpfile, freopen and fclose went before.                          *)
THEOREM AlwaysChained == ASSUME RefusedReopen \subseteq Std PROVE Spec => []ChainHoldsOpen
<1>1. OwnInv /\ LineInv => ChainHoldsOpen
  <2> SUFFICES ASSUME OwnInv, LineInv, phase = "running"
               PROVE  WalkEnds /\ Chained = OpenFiles /\ Chained \subseteq heap
    BY DEF ChainHoldsOpen, OpenFiles
  <2> QED BY OpenFilesSet, LineWalk DEF LineInv
<1> QED BY <1>1, AlwaysOwnInv, AlwaysLineInv, PTL

(* When exit has ended, no handle is open, no temporary file is left, every *)
(* stream of the program is closed and the standard ones are back on the    *)
(* console: the walk of __io_final misses none.                             *)
THEOREM AlwaysClosed == ASSUME RefusedReopen \subseteq Std PROVE Spec => []ExitClosesAll
<1>1. OwnInv /\ LineInv => ExitClosesAll
  <2> SUFFICES ASSUME OwnInv, LineInv, phase = "ended"
               PROVE  /\ host = [open |-> {}, temps |-> {}]
                      /\ \A s \in Std : fh[s].on = "console" /\ fh[s].can = Role(s)
                      /\ \A f \in Files : ~fh[f].valid
    BY DEF ExitClosesAll
  <2>1. \A s \in Std : fh[s].on = "console" /\ fh[s].can = Role(s)
    BY DEF OwnInv, Passed
  <2>2. \A f \in Files : ~fh[f].valid
    BY DEF LineInv, OpenFiles
  <2>3. Tables(fh, host, Markers)
    BY DEF OwnInv, Stand
  <2>4. Hosted(fh) = {} /\ Marked(fh) = {}
    BY <2>1, <2>2, <2>3 DEF Hosted, Marked, FILES, Tables
  <2>5. /\ host.open = {} /\ host.temps = {}
        /\ host = [open |-> host.open, temps |-> host.temps]
    BY <2>3, <2>4 DEF Tables
  <2> QED BY <2>1, <2>2, <2>5
<1> QED BY <1>1, AlwaysOwnInv, AlwaysLineInv, PTL
=============================================================================
