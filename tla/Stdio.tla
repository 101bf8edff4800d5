------------------------------- MODULE Stdio -------------------------------
(***************************************************************************)
(* The life of FILE streams: io/io-file-fopen.c, io-file-fopen-lesser.c,   *)
(* io-init.c, the opening part of io-memstream.c, fs/fs-tmpfile.c and the  *)
(* close of fs/fs-io.c.                                                    *)
(*                                                                         *)
(* A FILE is a block on the heap, linked through _chain into the list that *)
(* starts at __file_list; the three standard streams are static and never  *)
(* on that list.  exit walks the list one stream at a time (__io_final).   *)
(* The bytes that pass through a stream are the subject of MemStream and   *)
(* StreamData.                                                             *)
(*                                                                         *)
(* The program is one that keeps to C: it passes streams that are open,    *)
(* and uses none after fclose or after a freopen that failed.              *)
(***************************************************************************)
EXTENDS Naturals, FiniteSets

CONSTANTS Files,         \* the addresses calloc may give a FILE
          Handles,       \* the host's file handles
          Temps,         \* the names tmpnam may generate
          Null,
          Modes,         \* the directions asked for: subsets of {"r", "w"}
          RefusedReopen  \* the streams whose freopen the host may refuse

Std == {"stdin", "stdout", "stderr"}
FILES == Std \cup Files

\* Addresses, names and handles are things of different kinds.
ASSUME StdioAssumption ==
  /\ IsFiniteSet(Files)
  /\ Modes \subseteq {{"r"}, {"w"}, {"r", "w"}}
  /\ Null \notin FILES \cup Handles \cup Temps
  /\ Files \cap (Std \cup Temps) = {} /\ Handles \cap {"console", "memory"} = {}

VARIABLES
  phase,   \* "running", "closing" (in __io_final), "ended" or "hung"
  list,    \* __file_list
  chain,   \* the _chain field of every FILE block
  fh,      \* the other fields of every FILE, standard streams included
  heap,    \* the blocks allocated: FILE blocks, and markers by their name
  host,    \* the host: its open handles and its temporary files
  cur      \* the stream __io_final closes next

vars == <<phase, list, chain, fh, heap, host, cur>>

------------------------------------------------------------------------------
(* The fields of a FILE: the magic of _flags, the dispatcher, the readable *)
(* and writable flags, _fileno, the delete-on-close flag and _markers.     *)

Cleared == [valid |-> FALSE, on |-> "nothing", can |-> {}, file |-> Null,
            delete |-> FALSE, marker |-> Null]
Role(s) == IF s = "stdin" THEN {"r"} ELSE {"w"}
OnConsole(r, can) == [r EXCEPT !.valid = TRUE, !.on = "console", !.can = can,
                               !.delete = FALSE]

\* _fopen: the console cannot be both, and is then only written.
Opened(r, on, mode) ==
  IF on = "console"
  THEN OnConsole(r, IF "w" \in mode THEN mode \ {"r"} ELSE mode)
  ELSE [r EXCEPT !.valid = TRUE, !.on = "host", !.can = mode, !.delete = FALSE,
                 !.file = on]

(* What a successful open does to the host, and where it may open.  d is   *)
(* the host before the open.                                               *)
Places(d) == {"console"} \cup (Handles \ d.open)
HostOpened(d, on) ==
  IF on = "console" THEN d ELSE [d EXCEPT !.open = @ \cup {on}]

(* The close of a stream's dispatcher: __fs_close closes the handle and    *)
(* deletes the file of a tmpfile; console and memory have nothing to do.   *)
Doomed(s) == IF fh[s].on = "host" /\ fh[s].delete THEN {fh[s].marker} \ {Null} ELSE {}
HostClosed(s) ==
  IF fh[s].on = "host"
  THEN [open |-> host.open \ {fh[s].file}, temps |-> host.temps \ Doomed(s)]
  ELSE host

\* Mutant: the standard streams are left closed like the others.
ShutAll(s) == [fh[s] EXCEPT !.valid = FALSE, !.marker = IF Doomed(s) = {} THEN @ ELSE Null]

\* The FILE after _fclose: a standard stream is back on the console.
Shut(s) ==
  LET dispatched == IF fh[s].on = "host"
                    THEN [fh[s] EXCEPT !.file = Null,
                                       !.marker = IF Doomed(s) = {} THEN @ ELSE Null]
                    ELSE fh[s]
  IN  IF s \in Std THEN OnConsole(dispatched, Role(s))
                   ELSE [dispatched EXCEPT !.valid = FALSE]

------------------------------------------------------------------------------
(* The chain.  Walk[n] is the block n steps from the head; a chain of      *)
(* blocks without a cycle ends within Cardinality(Files) steps.            *)

Steps == 0..Cardinality(Files)
Walk[n \in Steps] ==
  IF n = 0 THEN list
  ELSE IF Walk[n - 1] = Null THEN Null ELSE chain[Walk[n - 1]]
Chained == {Walk[n] : n \in Steps} \ {Null}
WalkEnds == \E n \in Steps : Walk[n] = Null

\* Mutant: lastp stays at the head of the list.
UnlinkHead(f) == list' = chain[f] /\ UNCHANGED chain

\* fclose leaves *lastp pointing past the block it frees.
Unlink(f) ==
  IF list = f THEN list' = chain[f] /\ UNCHANGED chain
  ELSE /\ chain' = [chain EXCEPT ![CHOOSE p \in Chained : chain[p] = f] = chain[f]]
       /\ UNCHANGED list

\* Mutant: the head is set before it is copied into the new block.
LinkSwapped(f) == list' = f /\ chain' = [chain EXCEPT ![f] = f]

\* fopen and open_memstream put a new block at the head.
Link(f) == list' = f /\ chain' = [chain EXCEPT ![f] = list]

------------------------------------------------------------------------------
Init == /\ phase = "running" /\ list = Null /\ cur = Null
        /\ chain = [f \in Files |-> Null]
        /\ fh = [s \in FILES |-> IF s \in Std THEN OnConsole(Cleared, Role(s))
                                              ELSE Cleared]
        /\ heap = {}
        /\ host = [open |-> {}, temps |-> {}]

Running == phase = "running" /\ UNCHANGED <<phase, cur>>
Open(s) == fh[s].valid

\* fopen, its calloc having found the block f.
fopen(f) == /\ Running /\ f \in Files \ heap
            /\ \E on \in Places(host), mode \in Modes :
                 /\ fh' = [fh EXCEPT ![f] = Opened(Cleared, on, mode)]
                 /\ host' = HostOpened(host, on)
            /\ heap' = heap \cup {f}
            /\ Link(f)

\* The host refuses: the block was cleared by calloc and is free again.
fopen_fails(f) == /\ Running /\ f \in Files \ heap
                  /\ fh' = [fh EXCEPT ![f] = Cleared]
                  /\ chain' = [chain EXCEPT ![f] = Null]
                  /\ UNCHANGED <<list, heap, host>>

\* open_memstream shares the chain, but has no host file behind it.
open_memstream(f) == /\ Running /\ f \in Files \ heap
                     /\ fh' = [fh EXCEPT ![f] = [Cleared EXCEPT
                                 !.valid = TRUE, !.on = "memory", !.can = {"w"}]]
                     /\ heap' = heap \cup {f}
                     /\ Link(f)
                     /\ UNCHANGED host

(* tmpfile opens a name tmpnam found unused, then notes it for the close.  *)
(* When the open is refused the marker is freed again, which leaves what a *)
(* refused fopen leaves.                                                   *)
tmpfile(f) == /\ Running /\ f \in Files \ heap
              /\ \E n \in Temps \ host.temps, h \in Handles \ host.open :
                   /\ fh' = [fh EXCEPT ![f] = [Opened(Cleared, h, {"r", "w"}) EXCEPT
                               !.marker = n, !.delete = TRUE]]
                   /\ host' = [open |-> host.open \cup {h}, temps |-> host.temps \cup {n}]
                   /\ heap' = heap \cup {f, n}
              /\ Link(f)

\* Mutant: freopen opens without closing what was open.
ReopenedNoClose(s) ==
  \E on \in Places(host), mode \in Modes :
    /\ fh' = [fh EXCEPT ![s] = Opened(fh[s], on, mode)]
    /\ host' = HostOpened(host, on)

\* The new fields and host of a freopen that succeeds.
Reopened(s) ==
  \E on \in Places(HostClosed(s)), mode \in Modes :
    /\ fh' = [fh EXCEPT ![s] = Opened(Shut(s), on, mode)]
    /\ host' = HostOpened(HostClosed(s), on)

freopen(s) == /\ Running /\ Open(s)
              /\ Reopened(s)
              /\ heap' = heap \ Doomed(s)
              /\ UNCHANGED <<list, chain>>

\* A refused freopen closes the stream, and frees any but a standard one.
freopen_fails(s) == /\ Running /\ Open(s) /\ s \in RefusedReopen
                    /\ fh' = [fh EXCEPT ![s] = Shut(s)]
                    /\ host' = HostClosed(s)
                    /\ heap' = heap \ (Doomed(s) \cup (IF s \in Std THEN {} ELSE {s}))
                    /\ UNCHANGED <<list, chain>>

(* fclose closes, then looks for the block on the chain, to unlink and     *)
(* free it; on a chain that never ends the search may not end either.      *)
fclose(s) == /\ phase = "running" /\ Open(s)
             /\ fh' = [fh EXCEPT ![s] = Shut(s)]
             /\ host' = HostClosed(s)
             /\ heap' = heap \ (Doomed(s) \cup ({s} \cap Chained))
             /\ IF s \in Chained THEN Unlink(s) ELSE UNCHANGED <<list, chain>>
             /\ phase' = IF s \in Chained \/ WalkEnds THEN phase ELSE "hung"
             /\ UNCHANGED cur

------------------------------------------------------------------------------
(* exit: __io_final takes the chain away from __file_list, and closes what *)
(* was on it; each fclose then finds an empty list, so that it unlinks and *)
(* frees nothing.  The standard streams follow.                            *)

\* Mutant: the walk stops after its first block.
AfterOne(s) == CASE s = "stdin" -> "stdout" [] s = "stdout" -> "stderr"
                 [] s = "stderr" -> Null [] OTHER -> "stdin"

After(s) == CASE s = "stdin" -> "stdout" [] s = "stdout" -> "stderr"
              [] s = "stderr" -> Null
              [] OTHER -> IF chain[s] = Null THEN "stdin" ELSE chain[s]

__io_final == /\ phase = "running"
              /\ phase' = "closing"
              /\ cur' = IF list = Null THEN "stdin" ELSE list
              /\ list' = Null
              /\ UNCHANGED <<chain, fh, heap, host>>

final_fclose == /\ phase = "closing" /\ cur # Null
                /\ IF Open(cur)
                   THEN /\ fh' = [fh EXCEPT ![cur] = Shut(cur)]
                        /\ host' = HostClosed(cur)
                        /\ heap' = heap \ Doomed(cur)
                   ELSE UNCHANGED <<fh, host, heap>>
                /\ cur' = After(cur)
                /\ UNCHANGED <<phase, list, chain>>

final_done == /\ phase = "closing" /\ cur = Null
              /\ phase' = "ended"
              /\ UNCHANGED <<list, chain, fh, heap, host, cur>>

\* A module is initialised again: __io_init.  Nothing resets the chain.
__io_init == /\ phase = "ended"
             /\ phase' = "running"
             /\ fh' = [s \in FILES |-> IF s \in Std THEN OnConsole(fh[s], Role(s))
                                                    ELSE fh[s]]
             /\ UNCHANGED <<list, chain, heap, host, cur>>

Call == \/ \E f \in Files : fopen(f) \/ fopen_fails(f) \/ open_memstream(f) \/ tmpfile(f)
        \/ \E s \in FILES : freopen(s) \/ freopen_fails(s) \/ fclose(s)
Exit == final_fclose \/ final_done

Next == Call \/ __io_final \/ Exit \/ __io_init

\* __io_final is straight-line code: once entered, it goes on.
Spec == Init /\ [][Next]_vars /\ WF_vars(Exit)

------------------------------------------------------------------------------
(* Every stream has the fields of a FILE; a standard stream is never       *)
(* invalid, and a stream on the host has a handle to give it (_fileno).    *)
TypeOK ==
  /\ phase \in {"running", "closing", "ended", "hung"}
  /\ list \in Files \cup {Null} /\ cur \in FILES \cup {Null}
  /\ chain \in [Files -> Files \cup {Null}]
  /\ fh \in [FILES -> [valid : BOOLEAN, on : {"nothing", "console", "host", "memory"},
                       can : SUBSET {"r", "w"}, file : Handles \cup {Null},
                       delete : BOOLEAN, marker : Temps \cup {Null}]]
  /\ heap \subseteq Files \cup Temps
  /\ host \in [open : SUBSET Handles, temps : SUBSET Temps]
  /\ \A s \in FILES : fh[s].valid /\ fh[s].on = "host" => fh[s].file \in Handles

(* While the program runs, the chain ends, and the blocks on it are the    *)
(* open streams, each of them still allocated: fopen, fclose and tmpfile   *)
(* in any order never lose, repeat or keep a block.                        *)
ChainHoldsOpen ==
  phase = "running" => /\ WalkEnds
                       /\ Chained = {f \in Files : fh[f].valid}
                       /\ Chained \subseteq heap

(* Every open handle of the host belongs to exactly one open stream, in    *)
(* all phases: freopen leaks none, and none is closed twice.               *)
HandlesOwned ==
  LET hosted == {s \in FILES : fh[s].valid /\ fh[s].on = "host"}
  IN  /\ {fh[s].file : s \in hosted} = host.open
      /\ \A s, t \in hosted : fh[s].file = fh[t].file => s = t

(* A temporary file exists exactly as long as a stream is open on it, and  *)
(* so does the marker block that remembers its name.                       *)
TemporariesOwned ==
  LET marked == {fh[s].marker : s \in {s \in FILES : fh[s].valid /\ fh[s].delete}}
  IN  host.temps = marked /\ heap \cap Temps = marked

(* What the host has open and keeps for the program is what the open       *)
(* streams have: nothing leaks, nothing is closed or removed too early, no *)
(* stream on the host is without a handle.                                 *)
HostOwned == TypeOK /\ HandlesOwned /\ TemporariesOwned

(* After exit no handle is open, no temporary file is left, and the        *)
(* standard streams are back on the console in their own direction.        *)
ExitClosesAll ==
  phase = "ended" => /\ host = [open |-> {}, temps |-> {}]
                     /\ \A s \in Std : fh[s].on = "console" /\ fh[s].can = Role(s)
                     /\ \A f \in Files : ~fh[f].valid

(* exit comes to an end: the walk of __io_final over the chain does.       *)
ExitEnds == phase = "closing" ~> phase = "ended"

(* The calls implement the table of streams the program sees.              *)
Table == [s \in FILES |->
            IF ~fh[s].valid THEN Null
            ELSE [on |-> IF fh[s].on = "host" THEN fh[s].file ELSE fh[s].on,
                  can |-> fh[s].can]]
Promise == INSTANCE Streams WITH Closed <- Null, stream <- Table
RefinesStreams == Promise!Spec
=============================================================================
