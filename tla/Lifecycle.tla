----------------------------- MODULE Lifecycle -----------------------------
(***************************************************************************)
(* How a program starts and ends: main.c (the start of __main), clib.c,    *)
(* atexit.c, env.c, signal.c, abort.c, assert.c and start-exit.s.          *)
(*                                                                         *)
(* The program runs on one processor, but Escape may arrive at any moment, *)
(* and handlers may register handlers, raise signals, fail or call exit in *)
(* their turn.  What is being executed is a stack of activities, the       *)
(* innermost first; a call that does not return drops what called it.      *)
(***************************************************************************)
EXTENDS Naturals, Sequences

CONSTANTS
  ATEXIT_MAX,       \* slots of the table of exit handlers
  NULL,
  Files,            \* files the program may open
  REGISTRATIONS,    \* bound: calls of atexit that succeed
  INTERRUPTS,       \* bound: Escapes, raises and errors of the program
  DEPTH             \* bound: activities one inside the other

ASSUME LifecycleAssumption ==
  /\ ATEXIT_MAX \in Nat \ {0} /\ REGISTRATIONS \in Nat
  /\ INTERRUPTS \in Nat /\ DEPTH \in Nat \ {0}
  /\ NULL \notin Nat \cup {"user", "signal_escape", "signal_abort"}

Slots == 0..(ATEXIT_MAX - 1)
Signals == {"SIGINT", "SIGILL", "SIGABRT"}

VARIABLES
  stack,         \* activities, innermost first; empty when the program is over
  env,           \* whose environment handlers are installed: "parent" or "ours"
  atexit_funcs,  \* the slots; a handler is the number of its registration
  handlers,      \* the function raise calls for each signal, or NULL
  blocked,       \* signals_blocked
  count,         \* the count of _env_error
  list,          \* __file_list, newest first
  open,          \* files open on the host
  used,          \* registrations and interrupts so far, for the bounds
  caught,        \* files that an Escape came in between (history)
  early, ran     \* handlers registered before the end began; those run, in order

vars == <<stack, env, atexit_funcs, handlers, blocked, count, list, open, used,
          caught, early, ran>>

signalVars == <<handlers, blocked>>
exitVars == <<atexit_funcs, early, ran>>
fileVars == <<list, open, caught>>

------------------------------------------------------------------------------
Top == Head(stack)
At(a) == stack # <<>> /\ Top.at = a
Elements(seq) == {seq[i] : i \in DOMAIN seq}

\* Code of the program itself is running: main, an exit or a signal handler.
UserCode == stack # <<>> /\ Top.at \in {"main", "func", "signal"}
Push(f) == stack' = <<f>> \o stack
Room == Len(stack) < DEPTH
May == used.interrupts < INTERRUPTS
Interrupt == used' = [used EXCEPT !.interrupts = @ + 1]

\* __atexit_trigger begins at the last slot; then says where it returns to.
Finalise(then) == /\ stack' = <<[at |-> "trigger", i |-> ATEXIT_MAX, then |-> then]>>
                  /\ early' = IF early = NULL THEN used.registrations ELSE early
                  /\ UNCHANGED <<atexit_funcs, ran>>

------------------------------------------------------------------------------
Init == /\ stack = <<[at |-> "start"]>> /\ env = "parent"
        /\ atexit_funcs = [i \in Slots |-> NULL]
        /\ handlers = [s \in Signals |-> NULL] /\ blocked = {} /\ count = 0
        /\ list = <<>> /\ open = {}
        /\ used = [registrations |-> 0, interrupts |-> 0]
        /\ caught = {}
        /\ early = NULL /\ ran = <<>>

\* The library's own handlers: default_handlers, NULL for signal_ignore.
Default(sig) == CASE sig = "SIGINT" -> "signal_escape"
                  [] sig = "SIGABRT" -> "signal_abort"
                  [] OTHER -> NULL

\* __main installs the environment handlers before the library is ready.
_env_init == /\ At("start") /\ env = "parent"
             /\ env' = "ours"
             /\ UNCHANGED <<stack, signalVars, count, exitVars, fileVars, used>>

\* Not enough memory: the program ends before it began.
__main_fail == /\ At("start") /\ env = "ours"
               /\ Finalise("_Exit")
               /\ UNCHANGED <<env, signalVars, count, fileVars, used>>

_clib_internalinit == /\ At("start") /\ env = "ours"
                      /\ handlers' = [s \in Signals |-> Default(s)] /\ blocked' = {}
                      /\ stack' = <<[at |-> "main"]>>
                      /\ UNCHANGED <<env, count, exitVars, fileVars, used>>

------------------------------------------------------------------------------
(* What the program does.                                                   *)

FreeSlots == {i \in Slots : atexit_funcs[i] = NULL}

\* Mutant: the search for a free slot begins at the end of the table.
LastFree == CHOOSE i \in FreeSlots : \A j \in FreeSlots : i >= j

FirstFree == CHOOSE i \in FreeSlots : \A j \in FreeSlots : i <= j

\* The first free slot takes the function; a full table refuses it.
atexit == /\ UserCode /\ used.registrations < REGISTRATIONS /\ FreeSlots # {}
          /\ LET n == used.registrations + 1
             IN  /\ atexit_funcs' = [atexit_funcs EXCEPT ![FirstFree] = n]
                 /\ used' = [used EXCEPT !.registrations = n]
          /\ UNCHANGED <<stack, env, signalVars, count, fileVars, early, ran>>

\* A handler of Escape is running that broke into the list being changed or
\* closed: what it links may be lost.
BrokeIn == \E i \in DOMAIN stack : stack[i].at \in {"linking", "closing"}

(* The host opens the file (OS_Find in _fopen).  Until the FILE is linked   *)
(* the library does not know of it.                                         *)
fopen(f) == /\ UserCode /\ Room /\ f \notin open
            /\ Push([at |-> "opening", file |-> f])
            /\ open' = open \cup {f}
            /\ caught' = IF BrokeIn THEN caught \cup {f} ELSE caught
            /\ UNCHANGED <<list, env, signalVars, count, exitVars, used>>

\* fh->_chain = __file_list; ...
chain == /\ At("opening")
         /\ stack' = <<[at |-> "linking", file |-> Top.file, chain |-> list]>> \o Tail(stack)
         /\ UNCHANGED <<env, signalVars, count, exitVars, fileVars, used>>

\* Mutant: what the list held before is not behind the new file.
LinkAlone == /\ At("linking")
             /\ list' = <<Top.file>>
             /\ stack' = Tail(stack)
             /\ UNCHANGED <<open, caught, env, signalVars, count, exitVars, used>>

\* ... __file_list = fh, whatever a handler has linked since.
link == /\ At("linking")
        /\ list' = <<Top.file>> \o Top.chain
        /\ stack' = Tail(stack)
        /\ UNCHANGED <<open, caught, env, signalVars, count, exitVars, used>>

\* SIG_DFL is a null pointer to the C headers, so NULL stands for it.
signal(sig, func) ==
  /\ UserCode
  /\ handlers' = [handlers EXCEPT ![sig] = func]
  /\ UNCHANGED <<stack, env, blocked, count, exitVars, fileVars, used>>

\* exit, main returning, and OS_Exit called behind the library's back.
exit == /\ UserCode
        /\ Finalise("_Exit")
        /\ UNCHANGED <<env, signalVars, count, fileVars, used>>

\* An assertion fails: the error goes to the parent, not to our handler.
__assert_fail == /\ UserCode
                 /\ Finalise("parent_error")
                 /\ UNCHANGED <<env, signalVars, count, fileVars, used>>

\* Mutant: only the first error shuts the library down.
EnvErrorOnce ==
  /\ count' = count + 1
  /\ IF count = 0
     THEN Finalise("parent_error") /\ UNCHANGED env
     ELSE stack' = <<>> /\ env' = "parent" /\ UNCHANGED exitVars
  /\ UNCHANGED <<list, open>>

(* _env_error: the first two errors shut the library down, the third gives  *)
(* up.  The handler does not return to what failed.                         *)
_env_error ==
  /\ count' = count + 1
  /\ IF count + 1 < 3
     THEN Finalise("parent_error") /\ UNCHANGED env
     ELSE stack' = <<>> /\ env' = "parent" /\ UNCHANGED exitVars
  /\ UNCHANGED <<list, open>>

\* A system call of the program reports an error.
error == /\ UserCode /\ May /\ Interrupt
         /\ _env_error
         /\ UNCHANGED <<signalVars, caught>>

------------------------------------------------------------------------------
\* A signal that is blocked gets its default handler.
Chosen(sig) == IF sig \in blocked THEN Default(sig) ELSE handlers[sig]

Raise(sig) ==
  LET func == Chosen(sig)
  IN  CASE func = NULL ->            \* ignored, and no longer blocked
             /\ blocked' = blocked \ {sig}
             /\ UNCHANGED <<stack, env, count, exitVars, list, open, handlers>>
        [] func = "user" ->
             /\ Room
             /\ Push([at |-> "signal", sig |-> sig])
             /\ blocked' = blocked \cup {sig}
             /\ UNCHANGED <<env, count, exitVars, list, open, handlers>>
        [] func = "signal_escape" ->
             /\ blocked' = blocked \cup {sig}
             /\ _env_error
             /\ UNCHANGED handlers
        [] func = "signal_abort" ->
             /\ blocked' = blocked \cup {sig}
             /\ Finalise("_Exit")
             /\ UNCHANGED <<env, count, list, open, handlers>>

raise(sig) == UserCode /\ May /\ Interrupt /\ Raise(sig) /\ UNCHANGED caught

\* abort leaves through exit if its handler returns.
abort == /\ UserCode
         /\ IF Chosen("SIGABRT") = "user"
            THEN /\ Room /\ May /\ Interrupt
                 /\ stack' = <<[at |-> "signal", sig |-> "SIGABRT"], [at |-> "abort"]>>
                 /\ blocked' = blocked \cup {"SIGABRT"}
                 /\ UNCHANGED exitVars
            ELSE /\ Finalise("_Exit")
                 /\ blocked' = IF Chosen("SIGABRT") = NULL THEN blocked \ {"SIGABRT"}
                               ELSE blocked \cup {"SIGABRT"}
                 /\ UNCHANGED used
         /\ UNCHANGED <<env, handlers, count, fileVars>>

abort_exit == /\ At("abort")
              /\ Finalise("_Exit")
              /\ UNCHANGED <<env, signalVars, count, fileVars, used>>

\* The files that an activity of the library has in hand.
Hand(a) == CASE a.at \in {"opening", "linking"} -> {a.file}
             [] a.at = "closing" -> Elements(a.left)
             [] OTHER -> {}

\* Escape is acknowledged and raised, whatever is running.
_env_escape == /\ stack # <<>> /\ env = "ours" /\ May /\ Interrupt
               /\ Raise("SIGINT")
               /\ caught' = caught \cup Hand(Top)

------------------------------------------------------------------------------
(* What the library goes on with.                                           *)

\* Mutant: a signal stays blocked after its handler returns.
ReturnBlocked == /\ Len(stack) > 1 /\ Top.at \in {"func", "signal"}
                 /\ stack' = Tail(stack)
                 /\ UNCHANGED <<env, signalVars, count, exitVars, fileVars, used>>

return == /\ Len(stack) > 1 /\ Top.at \in {"func", "signal"}
          /\ stack' = Tail(stack)
          /\ blocked' = IF Top.at = "signal" THEN blocked \ {Top.sig} ELSE blocked
          /\ UNCHANGED <<env, handlers, count, exitVars, fileVars, used>>

\* The slot the loop of __atexit_trigger comes to next, on its way down.
Pending == {i \in Slots : i < Top.i /\ atexit_funcs[i] # NULL}

\* Mutant: the loop starts at the bottom, and then goes down.
FirstSlot == CHOOSE i \in Pending : \A j \in Pending : i <= j

NextSlot == CHOOSE i \in Pending : \A j \in Pending : j <= i

\* The slot is emptied before its function is called.
__atexit_trigger ==
  /\ At("trigger") /\ Pending # {}
  /\ stack' = <<[at |-> "func"], [Top EXCEPT !.i = NextSlot]>> \o Tail(stack)
  /\ atexit_funcs' = [atexit_funcs EXCEPT ![NextSlot] = NULL]
  /\ ran' = Append(ran, atexit_funcs[NextSlot])
  /\ UNCHANGED <<env, signalVars, count, fileVars, used, early>>

\* __io_final takes the list of files ...
__io_final == /\ At("trigger") /\ Pending = {}
              /\ stack' = <<[at |-> "closing", left |-> list, then |-> Top.then]>>
              /\ list' = <<>>
              /\ UNCHANGED <<env, signalVars, count, exitVars, open, caught, used>>

\* Mutant: the walk does not go on to the next file.
FcloseStuck == /\ At("closing") /\ Top.left # <<>>
               /\ open' = open \ {Head(Top.left)}
               /\ UNCHANGED <<stack, env, signalVars, count, exitVars, list, caught, used>>

\* ... and closes them one by one.
fclose == /\ At("closing") /\ Top.left # <<>>
          /\ stack' = <<[Top EXCEPT !.left = Tail(@)]>> \o Tail(stack)
          /\ open' = open \ {Head(Top.left)}
          /\ UNCHANGED <<env, signalVars, count, exitVars, list, caught, used>>

\* Both ways out put the parent's handlers back first.
_Exit == /\ At("closing") /\ Top.left = <<>>
         /\ env' = "parent"
         /\ stack' = <<>>
         /\ UNCHANGED <<signalVars, count, exitVars, fileVars, used>>

Program == \/ atexit \/ exit \/ __assert_fail \/ error \/ abort
           \/ \E f \in Files : fopen(f)
           \/ \E sig \in Signals : raise(sig) \/ \E func \in {"user", NULL} : signal(sig, func)
Library == \/ _env_init \/ __main_fail \/ _clib_internalinit \/ chain \/ link
           \/ return \/ abort_exit
           \/ __atexit_trigger \/ __io_final \/ fclose \/ _Exit

Next == Library \/ Program \/ _env_escape

\* The library's code goes on when it is called, and handlers return.
Spec == Init /\ [][Next]_vars /\ WF_vars(Library)

------------------------------------------------------------------------------
Activities ==
  [at : {"start", "main", "func", "abort"}] \cup [at : {"signal"}, sig : Signals]
    \cup [at : {"opening"}, file : Files] \cup [at : {"linking"}, file : Files, chain : Seq(Files)]
    \cup [at : {"trigger"}, i : 0..ATEXIT_MAX, then : {"_Exit", "parent_error"}]
    \cup [at : {"closing"}, left : Seq(Files), then : {"_Exit", "parent_error"}]

(* Every variable has its shape, and __file_list holds only open files.     *)
TypeOK ==
  /\ stack \in Seq(Activities) /\ Len(stack) <= DEPTH + 1
  /\ env \in {"parent", "ours"} /\ count \in 0..3
  /\ atexit_funcs \in [Slots -> 1..REGISTRATIONS \cup {NULL}]
  /\ handlers \in [Signals -> {"user", "signal_escape", "signal_abort", NULL}]
  /\ blocked \subseteq Signals
  /\ caught \subseteq Files /\ open \subseteq Files /\ list \in Seq(Files) /\ Elements(list) \subseteq open
  /\ early \in 0..REGISTRATIONS \cup {NULL} /\ ran \in Seq(1..REGISTRATIONS)

Over == stack = <<>>

(* Handlers registered before the end began run in reverse order ("Call the *)
(* registered functions in reverse order", atexit.c), also when one of them *)
(* fails, exits or registers more, so that the loop starts again; and no    *)
(* handler runs twice, nor is one that has run still in the table.          *)
RunInReverse ==
  /\ \A i, j \in DOMAIN ran :
       i < j /\ ran[i] <= early /\ ran[j] <= early => ran[i] > ran[j]
  /\ \A i, j \in DOMAIN ran : ran[i] = ran[j] => i = j
  /\ \A i \in Slots : atexit_funcs[i] \notin Elements(ran)

(* However the program ends, all handlers registered before the end began   *)
(* have run, unless the third error made _env_error give up.                *)
EarlyHandlersRun == Over /\ early # NULL /\ count < 3 => 1..early \subseteq Elements(ran)

(* However the program ends, the files it opened are closed, those opened   *)
(* by exit handlers included ("exit handling ... will clear up FILE objects *)
(* which were opened", changelogs 0.04), unless _env_error gave up.  A file *)
(* can be left open only when an Escape came between its opening on the     *)
(* host and its linking, or before its turn in the closing; or when a       *)
(* handler of an Escape opened it that came between the two statements of   *)
(* another's linking, or in the closing.  (The program closes none itself.) *)
FilesClosed == Over /\ count < 3 => open \subseteq caught

(* A handler of the program never runs inside itself, for the signals whose *)
(* default handler does not return.                                         *)
NotReentered ==
  \A i, j \in DOMAIN stack :
    stack[i].at = "signal" /\ stack[i] = stack[j] /\ stack[i].sig # "SIGILL" => i = j

(* Until the end begins, a signal is blocked only while its handler runs:   *)
(* no sequence of raises leaves one blocked for good.                       *)
BlockedWhileHandled ==
  stack # <<>> /\ stack[Len(stack)].at = "main" =>
    \A sig \in blocked : \E i \in DOMAIN stack : stack[i] = [at |-> "signal", sig |-> sig]

(* Signals: a handler is not entered again while it runs, and when it has   *)
(* returned its signal can be raised again.                                 *)
SignalsHandled == NotReentered /\ BlockedWhileHandled

(* Once the end has begun it comes: errors in handlers, exits in handlers   *)
(* and signals put it off a bounded number of times only.                   *)
ExitEnds == early # NULL ~> Over
=============================================================================
