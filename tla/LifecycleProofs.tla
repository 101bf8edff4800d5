--------------------------- MODULE LifecycleProofs ---------------------------
(***************************************************************************)
(* How a program ends, for any number of handlers, files, signals and      *)
(* errors, and activities nested to any depth.                             *)
(***************************************************************************)
EXTENDS Lifecycle, WellFoundedInduction, TLAPS

Inner == {"func", "signal", "opening", "linking"}
Endings == {"_Exit", "parent_error"}

-----------------------------------------------------------------------------
(* Sequences and activities.                                                *)

LEMMA Pushed ==
  ASSUME NEW S, NEW s \in Seq(S), NEW a \in S
  PROVE  /\ <<a>> \o s \in Seq(S) /\ Len(<<a>> \o s) = Len(s) + 1
         /\ (<<a>> \o s)[1] = a
         /\ \A i \in 1 .. Len(s) : (<<a>> \o s)[i + 1] = s[i]
OBVIOUS

LEMMA Popped ==
  ASSUME NEW S, NEW s \in Seq(S), s # <<>>
  PROVE  /\ Head(s) = s[1] /\ Len(s) \in Nat \ {0}
         /\ Tail(s) \in Seq(S) /\ Len(Tail(s)) = Len(s) - 1
         /\ \A i \in 1 .. Len(s) - 1 : Tail(s)[i] = s[i + 1]
OBVIOUS

LEMMA Single ==
  ASSUME NEW S, NEW s \in Seq(S), Len(s) = 1
  PROVE  s = <<s[1]>> /\ Tail(s) = <<>>
<1>1. s = <<s[1]>>
  OBVIOUS
<1>2. Tail(s) \in Seq(S) /\ Len(Tail(s)) = 0
  OBVIOUS
<1>3. \A t \in Seq(S) : Len(t) = 0 => t = <<>>
  OBVIOUS
<1>4. Tail(s) = <<>>
  BY <1>2, <1>3
<1> QED BY <1>1, <1>4

(* Among numbers below a bound there is a least and a greatest.             *)
LEMMA NatMin ==
  ASSUME NEW T, T \subseteq Nat, T # {}
  PROVE  \E x \in T : \A y \in T : x <= y
<1> DEFINE R == OpToRel(<, Nat)
<1>1. IsWellFoundedOn(R, Nat) /\ \A x, y \in Nat : x < y => <<x, y>> \in R
  BY NatLessThanWellFounded DEF OpToRel
<1> HIDE DEF R
<1>2. PICK x \in T : \A y \in T : ~(<<y, x>> \in R)
  BY <1>1, WFMin, ZenonT(60)
<1>3. \A y \in T : y \in Nat /\ x \in Nat /\ ~(y < x)
  BY <1>1, <1>2
<1> QED BY <1>3

LEMMA NatMax ==
  ASSUME NEW b \in Nat, NEW T, T \subseteq 0 .. b, T # {}
  PROVE  \E x \in T : \A y \in T : y <= x
<1> DEFINE U == {b - y : y \in T}
<1>1. PICK u \in U : \A v \in U : u <= v
  <2>1. \A y \in T : b - y \in Nat /\ b - y \in U
    OBVIOUS
  <2>2. U \subseteq Nat /\ U # {}
    BY <2>1
  <2> HIDE DEF U
  <2> QED BY <2>2, NatMin
<1>2. PICK x \in T : u = b - x
  OBVIOUS
<1>3. \A y \in T : y <= x
  BY <1>1, <1>2
<1> QED BY <1>3

LEMMA Kinds ==
  ASSUME NEW a \in Activities
  PROVE  /\ a.at \in {"start", "main", "func", "abort", "signal", "opening", "linking",
                     "trigger", "closing"}
         /\ a.at = "signal" => a.sig \in Signals /\ a = [at |-> "signal", sig |-> a.sig]
         /\ a.at = "trigger" => a.i \in 0 .. ATEXIT_MAX /\ a.then \in Endings
         /\ a.at = "closing" => a.left \in Seq(Files) /\ a.then \in Endings
         /\ a.at = "opening" => a.file \in Files
         /\ a.at = "linking" => a.file \in Files /\ a.chain \in Seq(Files)
BY DEF Activities, Endings

LEMMA Kept ==
  /\ \A k \in {"start", "main", "func", "abort"} : [at |-> k] \in Activities
  /\ \A sig \in Signals : [at |-> "signal", sig |-> sig] \in Activities
  /\ \A i \in 0 .. ATEXIT_MAX, then \in Endings :
       [at |-> "trigger", i |-> i, then |-> then] \in Activities
  /\ \A left \in Seq(Files), then \in Endings :
       [at |-> "closing", left |-> left, then |-> then] \in Activities
  /\ \A f \in Files : [at |-> "opening", file |-> f] \in Activities
  /\ \A f \in Files, seq \in Seq(Files) :
       [at |-> "linking", file |-> f, chain |-> seq] \in Activities
BY DEF Activities, Endings

LEMMA HandFiles ==
  ASSUME NEW a \in Activities
  PROVE  /\ Hand(a) \subseteq Files
         /\ a.at \notin {"opening", "linking", "closing"} => Hand(a) = {}
         /\ a.at \in {"opening", "linking"} => Hand(a) = {a.file}
         /\ a.at = "closing" => Hand(a) = Elements(a.left)
<1>1. a.at = "closing" => Elements(a.left) \subseteq Files
  BY Kinds DEF Elements
<1> QED BY <1>1, Kinds DEF Hand

-----------------------------------------------------------------------------
(* The shape of the stack: every activity but the outermost is a handler or *)
(* a call of fopen, and the outermost says how far the program has come.    *)

NoHandlers == [s \in Signals |-> NULL]
Formed(s) == \A i \in 1 .. Len(s) : i < Len(s) <=> s[i].at \in Inner

Typed ==
  /\ stack \in Seq(Activities)
  /\ env \in {"parent", "ours"} /\ count \in 0 .. 3
  /\ atexit_funcs \in [Slots -> 1 .. REGISTRATIONS \cup {NULL}]
  /\ handlers \in [Signals -> {"user", "signal_escape", "signal_abort", NULL}]
  /\ blocked \subseteq Signals
  /\ caught \subseteq Files /\ open \subseteq Files /\ list \in Seq(Files)
  /\ used.registrations \in 0 .. REGISTRATIONS /\ used.interrupts \in Nat
  /\ early \in 0 .. REGISTRATIONS \cup {NULL} /\ ran \in Seq(1 .. REGISTRATIONS)

Progress ==
  \A i \in 1 .. Len(stack) :
    /\ stack[i].at = "start" => Len(stack) = 1 /\ handlers = NoHandlers /\ blocked = {}
    /\ stack[i].at \in {"start", "main"} => early = NULL
    /\ stack[i].at \in {"trigger", "closing"} => early # NULL

Shape ==
  /\ Typed
  /\ Formed(stack)
  /\ stack # <<>> => count < 3
  /\ Progress
  /\ \E r, n \in Nat : used = [registrations |-> r, interrupts |-> n]
  /\ Len(stack) <= DEPTH + 1

LEMMA InitShape == Init => Shape
<1> SUFFICES ASSUME Init PROVE Shape
  OBVIOUS
<1> USE LifecycleAssumption
<1>1. stack = <<[at |-> "start"]>> /\ [at |-> "start"] \in Activities
  BY DEF Init, Activities
<1>2. stack \in Seq(Activities) /\ Len(stack) = 1 /\ stack[1] = [at |-> "start"]
  BY <1>1
<1>3. Typed
  <2>1. list \in Seq(Files) /\ ran \in Seq(1 .. REGISTRATIONS)
    BY DEF Init
  <2>2. /\ atexit_funcs \in [Slots -> 1 .. REGISTRATIONS \cup {NULL}]
        /\ handlers \in [Signals -> {"user", "signal_escape", "signal_abort", NULL}]
    BY DEF Init
  <2>3. used.registrations \in 0 .. REGISTRATIONS /\ used.interrupts \in Nat
    BY DEF Init
  <2>4. env \in {"parent", "ours"} /\ count \in 0 .. 3
    BY DEF Init
  <2>5. /\ blocked \subseteq Signals /\ open \subseteq Files /\ caught \subseteq Files
        /\ early = NULL
    BY DEF Init
  <2> QED BY <1>2, <2>1, <2>2, <2>3, <2>4, <2>5 DEF Typed
<1>4. Formed(stack)
  BY <1>2 DEF Formed, Inner
<1>5. Progress
  BY <1>2 DEF Init, Progress, NoHandlers
<1>6. count < 3 /\ \E r, n \in Nat : used = [registrations |-> r, interrupts |-> n]
  BY DEF Init
<1>7. Len(stack) <= DEPTH + 1
  BY <1>2
<1> QED BY <1>3, <1>4, <1>5, <1>6, <1>7 DEF Shape

(* The stack after a push, a pop and a change of its top.                   *)
LEMMA PushedStack ==
  ASSUME Shape, NEW a \in Activities, Push(a)
  PROVE  /\ stack' \in Seq(Activities) /\ stack' # <<>> /\ stack'[1] = a
         /\ Len(stack') = Len(stack) + 1 /\ Len(stack) \in Nat
         /\ \A i \in 1 .. Len(stack) : i + 1 \in 1 .. Len(stack') /\ stack'[i + 1] = stack[i]
         /\ \A j \in 1 .. Len(stack') :
              j # 1 => j - 1 \in 1 .. Len(stack) /\ stack'[j] = stack[j - 1]
<1>1. stack \in Seq(Activities)
  BY DEF Shape, Typed
<1>2. /\ stack' \in Seq(Activities) /\ Len(stack') = Len(stack) + 1
      /\ stack'[1] = a /\ \A i \in 1 .. Len(stack) : stack'[i + 1] = stack[i]
  BY <1>1, Pushed DEF Push
<1>3. Len(stack) \in Nat /\ stack' # <<>>
  BY <1>1, <1>2
<1>4. \A j \in 1 .. Len(stack') : j # 1 => j - 1 \in 1 .. Len(stack) /\ stack'[j] = stack[j - 1]
  <2> SUFFICES ASSUME NEW j \in 1 .. Len(stack'), j # 1
               PROVE  j - 1 \in 1 .. Len(stack) /\ stack'[j] = stack[j - 1]
    OBVIOUS
  <2>1. j - 1 \in 1 .. Len(stack) /\ (j - 1) + 1 = j
    BY <1>2, <1>3
  <2> QED BY <1>2, <2>1
<1>5. \A i \in 1 .. Len(stack) : i + 1 \in 1 .. Len(stack')
  BY <1>2, <1>3
<1> QED BY <1>2, <1>3, <1>4, <1>5

LEMMA PoppedStack ==
  ASSUME Shape, Len(stack) > 1, stack' = Tail(stack)
  PROVE  /\ stack' \in Seq(Activities) /\ stack' # <<>> /\ stack # <<>> /\ Top = stack[1]
         /\ Len(stack') = Len(stack) - 1 /\ Len(stack) \in Nat \ {0, 1}
         /\ \A i \in 1 .. Len(stack') :
              i + 1 \in 1 .. Len(stack) /\ i + 1 # 1 /\ stack'[i] = stack[i + 1]
<1>1. stack \in Seq(Activities) /\ stack # <<>>
  BY DEF Shape, Typed
<1>2. /\ Head(stack) = stack[1] /\ stack' \in Seq(Activities) /\ Len(stack') = Len(stack) - 1
      /\ Len(stack) \in Nat \ {0}
      /\ \A i \in 1 .. Len(stack) - 1 : stack'[i] = stack[i + 1]
  BY <1>1, Popped
<1>3. Len(stack) \in Nat \ {0, 1} /\ Len(stack') \in Nat \ {0}
  BY <1>2
<1>4. stack' # <<>>
  BY <1>3
<1>5. \A i \in 1 .. Len(stack') :
        i + 1 \in 1 .. Len(stack) /\ i + 1 # 1 /\ stack'[i] = stack[i + 1]
  BY <1>2, <1>3
<1> QED BY <1>1, <1>2, <1>3, <1>4, <1>5 DEF Top

LEMMA SwappedStack ==
  ASSUME Shape, stack # <<>>, NEW a \in Activities, stack' = <<a>> \o Tail(stack)
  PROVE  /\ stack' \in Seq(Activities) /\ stack' # <<>> /\ stack'[1] = a /\ Top = stack[1]
         /\ Len(stack') = Len(stack) /\ Len(stack) \in Nat \ {0}
         /\ \A i \in 1 .. Len(stack) : i # 1 => stack'[i] = stack[i]
<1>1. stack \in Seq(Activities)
  BY DEF Shape, Typed
<1> DEFINE t == Tail(stack)
<1>2. /\ Head(stack) = stack[1] /\ t \in Seq(Activities) /\ Len(t) = Len(stack) - 1
      /\ Len(stack) \in Nat \ {0}
      /\ \A i \in 1 .. Len(stack) - 1 : t[i] = stack[i + 1]
  BY <1>1, Popped
<1>3. stack' = <<a>> \o t
  OBVIOUS
<1> HIDE DEF t
<1>4. /\ stack' \in Seq(Activities) /\ Len(stack') = Len(t) + 1
      /\ stack'[1] = a /\ \A i \in 1 .. Len(t) : stack'[i + 1] = t[i]
  <2>1. /\ <<a>> \o t \in Seq(Activities) /\ Len(<<a>> \o t) = Len(t) + 1
        /\ (<<a>> \o t)[1] = a /\ \A i \in 1 .. Len(t) : (<<a>> \o t)[i + 1] = t[i]
    BY <1>2, Pushed
  <2> QED BY <1>3, <2>1, Zenon
<1>5. Len(stack') = Len(stack) /\ stack' # <<>>
  BY <1>2, <1>4
<1>6. ASSUME NEW i \in 1 .. Len(stack), i # 1 PROVE stack'[i] = stack[i]
  <2>1. i - 1 \in 1 .. Len(t) /\ i - 1 \in 1 .. Len(stack) - 1 /\ (i - 1) + 1 = i
    BY <1>2, <1>6
  <2> QED BY <1>2, <1>4, <2>1
<1> QED BY <1>2, <1>4, <1>5, <1>6 DEF Top

(* The counts of the bounds, over a step that is counted or not.            *)
Counted == UNCHANGED used \/ Interrupt

LEMMA CountedShape ==
  ASSUME Shape, Counted
  PROVE  /\ used'.registrations = used.registrations
         /\ used'.registrations \in 0 .. REGISTRATIONS /\ used'.interrupts \in Nat
         /\ \E r, n \in Nat : used' = [registrations |-> r, interrupts |-> n]
<1>1. PICK r, n \in Nat : used = [registrations |-> r, interrupts |-> n]
  BY DEF Shape
<1>2. \/ used' = [registrations |-> r, interrupts |-> n]
      \/ used' = [registrations |-> r, interrupts |-> n + 1]
  BY <1>1 DEF Counted, Interrupt
<1> QED BY <1>1, <1>2 DEF Shape, Typed

(* Beginning the end, from wherever the program is.                         *)
LEMMA FinaliseShape ==
  ASSUME Shape, NEW then \in Endings, Finalise(then), stack # <<>>,
         count' \in 0 .. 2, Counted, UNCHANGED handlers, blocked' \subseteq Signals,
         env' \in {"parent", "ours"}, UNCHANGED <<list, open>>, caught' \subseteq Files
  PROVE  Shape'
<1> USE LifecycleAssumption
<1> DEFINE t == [at |-> "trigger", i |-> ATEXIT_MAX, then |-> then]
<1>1. t \in Activities
  BY Kept
<1>2. stack' = <<t>> /\ stack' \in Seq(Activities) /\ Len(stack') = 1 /\ stack'[1] = t
  BY <1>1 DEF Finalise
<1>3. early' \in 0 .. REGISTRATIONS
  BY DEF Finalise, Shape, Typed
<1>4. Typed'
  BY <1>2, <1>3, CountedShape, SMTT(40) DEF Finalise, Shape, Typed
<1>5. Formed(stack')
  BY <1>2 DEF Formed, Inner
<1>6. Progress'
  BY <1>2, <1>3 DEF Progress
<1> QED BY <1>2, <1>4, <1>5, <1>6, CountedShape DEF Shape

(* Giving up.                                                               *)
LEMMA OverShape ==
  ASSUME Shape, stack' = <<>>, count' \in 0 .. 3, Counted, UNCHANGED handlers,
         blocked' \subseteq Signals, env' \in {"parent", "ours"},
         UNCHANGED exitVars, UNCHANGED list, open' \subseteq Files, caught' \subseteq Files
  PROVE  Shape'
<1> USE LifecycleAssumption
<1>1. stack' \in Seq(Activities) /\ Len(stack') = 0
  OBVIOUS
<1>2. Typed'
  BY <1>1, CountedShape DEF exitVars, Shape, Typed
<1> QED BY <1>1, <1>2, CountedShape DEF Shape, Formed, Progress

LEMMA EnvErrorShape ==
  ASSUME Shape, _env_error, stack # <<>>, Counted, UNCHANGED handlers,
         blocked' \subseteq Signals, caught' \subseteq Files
  PROVE  Shape'
<1>1. count \in 0 .. 2 /\ env \in {"parent", "ours"} /\ open \subseteq Files
  BY DEF Shape, Typed
<1>2. CASE count + 1 < 3
  <2>1. Finalise("parent_error") /\ UNCHANGED env /\ count' \in 0 .. 2
    BY <1>1, <1>2 DEF _env_error
  <2> QED BY <1>1, <2>1, FinaliseShape DEF _env_error, Endings
<1>3. CASE ~(count + 1 < 3)
  <2>1. stack' = <<>> /\ env' = "parent" /\ UNCHANGED exitVars /\ count' \in 0 .. 3
    BY <1>1, <1>3 DEF _env_error
  <2> QED BY <1>1, <2>1, OverShape DEF _env_error
<1> QED BY <1>2, <1>3

(* While the program starts, every signal is ignored.                       *)
LEMMA StartCalm ==
  ASSUME Shape, NEW i \in 1 .. Len(stack), stack[i].at = "start", NEW sig \in Signals
  PROVE  Chosen(sig) = NULL
BY DEF Shape, Progress, NoHandlers, Chosen

LEMMA ChosenType ==
  ASSUME Shape, NEW sig \in Signals
  PROVE  Chosen(sig) \in {"user", "signal_escape", "signal_abort", NULL}
BY DEF Shape, Typed, Chosen, Default, Signals

(* What a signal does is one of four things.                                *)
LEMMA RaiseCases ==
  ASSUME Shape, NEW sig \in Signals, Raise(sig)
  PROVE  \/ /\ Chosen(sig) = NULL /\ blocked' = blocked \ {sig}
            /\ UNCHANGED <<stack, env, count, exitVars, list, open, handlers>>
         \/ /\ Chosen(sig) = "user" /\ Room /\ Push([at |-> "signal", sig |-> sig])
            /\ blocked' = blocked \cup {sig}
            /\ UNCHANGED <<env, count, exitVars, list, open, handlers>>
         \/ /\ Chosen(sig) = "signal_escape" /\ blocked' = blocked \cup {sig}
            /\ _env_error /\ UNCHANGED handlers
         \/ /\ Chosen(sig) = "signal_abort" /\ blocked' = blocked \cup {sig}
            /\ Finalise("_Exit") /\ UNCHANGED <<env, count, list, open, handlers>>
BY ChosenType, LifecycleAssumption DEF Raise

LEMMA PushShape ==
  ASSUME Shape, NEW a \in Activities, a.at \in Inner, Room, Push(a),
         stack # <<>>, \A i \in 1 .. Len(stack) : stack[i].at # "start",
         UNCHANGED <<env, count, exitVars, list, handlers>>, open' \subseteq Files,
         Counted, blocked' \subseteq Signals, caught' \subseteq Files
  PROVE  Shape'
<1>1. /\ stack' \in Seq(Activities) /\ Len(stack') = Len(stack) + 1 /\ stack'[1] = a
      /\ \A j \in 1 .. Len(stack') :
           j # 1 => j - 1 \in 1 .. Len(stack) /\ stack'[j] = stack[j - 1]
  BY PushedStack
<1>2. Len(stack) \in Nat \ {0}
  BY DEF Shape, Typed
<1>3. Formed(stack')
  <2> SUFFICES ASSUME NEW j \in 1 .. Len(stack')
               PROVE  j < Len(stack') <=> stack'[j].at \in Inner
    BY DEF Formed
  <2>1. CASE j = 1
    BY <1>1, <1>2, <2>1
  <2>2. CASE j # 1
    <3>1. j - 1 \in 1 .. Len(stack) /\ stack'[j] = stack[j - 1]
      BY <1>1, <2>2
    <3>2. j < Len(stack') <=> j - 1 < Len(stack)
      BY <1>1, <1>2
    <3> QED BY <3>1, <3>2 DEF Shape, Formed
  <2> QED BY <2>1, <2>2
<1>4. Progress'
  <2> SUFFICES ASSUME NEW j \in 1 .. Len(stack')
               PROVE  /\ stack'[j].at # "start"
                      /\ stack'[j].at \in {"start", "main"} => early' = NULL
                      /\ stack'[j].at \in {"trigger", "closing"} => early' # NULL
    BY DEF Progress
  <2>1. CASE j = 1
    BY <1>1, <2>1 DEF Inner
  <2>2. CASE j # 1
    BY <1>1, <2>2 DEF Shape, Progress, exitVars
  <2> QED BY <2>1, <2>2
<1>5. Len(stack') <= DEPTH + 1
  BY <1>1, <1>2, LifecycleAssumption DEF Room
<1>6. Typed'
  BY <1>1, CountedShape DEF Shape, Typed, exitVars
<1> QED BY <1>3, <1>4, <1>5, <1>6, CountedShape DEF Shape

(* What was over something else is gone.                                    *)
LEMMA PopShape ==
  ASSUME Shape, Len(stack) > 1, stack' = Tail(stack),
         UNCHANGED <<env, handlers, count, exitVars, open, caught, used>>,
         list' \in Seq(Files), blocked' \subseteq Signals
  PROVE  Shape'
<1>1. /\ stack' \in Seq(Activities) /\ stack # <<>>
      /\ Len(stack') = Len(stack) - 1 /\ Len(stack) \in Nat \ {0, 1}
      /\ \A i \in 1 .. Len(stack') : i + 1 \in 1 .. Len(stack) /\ stack'[i] = stack[i + 1]
  BY PoppedStack
<1>2. Formed(stack')
  BY <1>1 DEF Shape, Formed
<1>3. \A i \in 1 .. Len(stack) : stack[i].at # "start"
  BY <1>1 DEF Shape, Progress
<1>4. Progress'
  BY <1>1, <1>3 DEF Shape, Progress, exitVars
<1>5. Typed'
  BY <1>1 DEF exitVars, Shape, Typed
<1>6. Len(stack') <= DEPTH + 1 /\ count' = count /\ count < 3 /\ used' = used
  BY <1>1, LifecycleAssumption DEF Shape
<1> QED BY <1>1, <1>2, <1>4, <1>5, <1>6 DEF Shape

(* A signal, raised by the program or by Escape.                            *)
LEMMA RaiseShape ==
  ASSUME Shape, NEW sig \in Signals, Raise(sig), stack # <<>>, Counted, caught' \subseteq Files
  PROVE  Shape'
<1>1. /\ count \in 0 .. 3 /\ count < 3 /\ env \in {"parent", "ours"} /\ blocked \subseteq Signals
      /\ handlers \in [Signals -> {"user", "signal_escape", "signal_abort", NULL}]
      /\ blocked \cup {sig} \subseteq Signals /\ blocked \ {sig} \subseteq Signals
  BY DEF Shape, Typed
<1>2. CASE /\ Chosen(sig) = NULL /\ blocked' = blocked \ {sig}
           /\ UNCHANGED <<stack, env, count, exitVars, list, open, handlers>>
  <2>1. Typed'
    BY <1>1, <1>2, CountedShape DEF Shape, Typed, exitVars
  <2>2. Progress'
    BY <1>2 DEF Shape, Progress, exitVars
  <2> QED BY <1>2, <2>1, <2>2, CountedShape DEF Shape
<1>3. CASE /\ Chosen(sig) = "user" /\ Room /\ Push([at |-> "signal", sig |-> sig])
           /\ blocked' = blocked \cup {sig}
           /\ UNCHANGED <<env, count, exitVars, list, open, handlers>>
  <2>1. \A i \in 1 .. Len(stack) : stack[i].at # "start"
    BY <1>3, StartCalm, LifecycleAssumption
  <2>2. [at |-> "signal", sig |-> sig] \in Activities /\ "signal" \in Inner
    BY Kept DEF Inner
  <2>3. open' \subseteq Files
    BY <1>3 DEF Shape, Typed
  <2> QED BY <1>1, <1>3, <2>1, <2>2, <2>3, PushShape
<1>4. CASE /\ Chosen(sig) = "signal_escape" /\ blocked' = blocked \cup {sig}
           /\ _env_error /\ UNCHANGED handlers
  BY <1>1, <1>4, EnvErrorShape
<1>5. CASE /\ Chosen(sig) = "signal_abort" /\ blocked' = blocked \cup {sig}
           /\ Finalise("_Exit") /\ UNCHANGED <<env, count, list, open, handlers>>
  BY <1>1, <1>5, FinaliseShape DEF Endings
<1> QED BY <1>2, <1>3, <1>4, <1>5, RaiseCases

(* An activity that is not a handler's has nothing inside it but itself.    *)
LEMMA TopAlone ==
  ASSUME Shape, stack # <<>>, Top.at \notin Inner
  PROVE  /\ Len(stack) = 1 /\ stack[1] = Top /\ Tail(stack) = <<>> /\ stack = <<Top>>
         /\ Top \in Activities
<1>1. stack \in Seq(Activities) /\ Top = stack[1] /\ Len(stack) \in Nat \ {0}
  BY DEF Shape, Typed, Top
<1>2. ~(1 < Len(stack))
  BY <1>1 DEF Shape, Formed
<1>3. Len(stack) = 1
  BY <1>1, <1>2, SMTT(30)
<1>4. stack = <<Top>> /\ Tail(stack) = <<>>
  BY <1>1, <1>3, Single
<1> QED BY <1>1, <1>3, <1>4

LEMMA UserCalm ==
  ASSUME Shape, UserCode
  PROVE  stack # <<>> /\ \A i \in 1 .. Len(stack) : stack[i].at # "start"
<1>1. stack \in Seq(Activities) /\ Top = stack[1] /\ Len(stack) \in Nat \ {0}
  BY DEF Shape, Typed, Top, UserCode
<1> SUFFICES ASSUME NEW i \in 1 .. Len(stack), stack[i].at = "start" PROVE FALSE
  BY <1>1
<1>2. Len(stack) = 1 /\ i = 1
  BY <1>1 DEF Shape, Progress
<1> QED BY <1>1, <1>2 DEF UserCode

LEMMA SlotFacts ==
  ASSUME Shape, At("trigger"), Pending # {}
  PROVE  /\ NextSlot \in Slots /\ NextSlot < Top.i /\ atexit_funcs[NextSlot] # NULL
         /\ \A j \in Slots : j < Top.i /\ atexit_funcs[j] # NULL => j <= NextSlot
<1>1. Pending \subseteq 0 .. ATEXIT_MAX - 1 /\ ATEXIT_MAX - 1 \in Nat
  BY LifecycleAssumption DEF Pending, Slots
<1>2. \E i \in Pending : \A j \in Pending : j <= i
  BY <1>1, NatMax
<1>3. NextSlot \in Pending /\ \A j \in Pending : j <= NextSlot
  BY <1>2 DEF NextSlot
<1> QED BY <1>3 DEF Pending

LEMMA FreeFacts ==
  ASSUME FreeSlots # {}
  PROVE  /\ FirstFree \in Slots /\ atexit_funcs[FirstFree] = NULL
         /\ \A j \in Slots : atexit_funcs[j] = NULL => FirstFree <= j
<1>1. FreeSlots \subseteq Nat
  BY LifecycleAssumption DEF FreeSlots, Slots
<1>2. \E i \in FreeSlots : \A j \in FreeSlots : i <= j
  BY <1>1, NatMin
<1>3. FirstFree \in FreeSlots /\ \A j \in FreeSlots : FirstFree <= j
  BY <1>2 DEF FirstFree
<1> QED BY <1>3 DEF FreeSlots

LEMMA ReturnShape == ASSUME Shape, return PROVE Shape'
<1>1. list' \in Seq(Files) /\ blocked' \subseteq Signals
  BY DEF return, fileVars, Shape, Typed
<1> QED BY <1>1, PopShape DEF return, fileVars

(* fopen, in its three steps.                                               *)
LEMMA FopenShape == ASSUME Shape, NEW f \in Files, fopen(f) PROVE Shape'
<1> DEFINE a == [at |-> "opening", file |-> f]
<1>1. a \in Activities /\ a.at \in Inner /\ Push(a) /\ Room
  BY Kept DEF Inner, fopen
<1>2. stack # <<>> /\ \A i \in 1 .. Len(stack) : stack[i].at # "start"
  BY UserCalm DEF fopen
<1>3. open' \subseteq Files /\ caught' \subseteq Files /\ blocked' \subseteq Signals
  BY DEF fopen, signalVars, Shape, Typed
<1>4. UNCHANGED <<env, count, exitVars, list, handlers>> /\ Counted
  BY DEF fopen, signalVars, Counted
<1> HIDE DEF a
<1> QED BY <1>1, <1>2, <1>3, <1>4, PushShape

LEMMA ChainStep ==
  ASSUME Shape, chain
  PROVE  LET a == [at |-> "linking", file |-> Top.file, chain |-> list]
         IN  a \in Activities /\ stack # <<>> /\ Top.at = "opening" /\ stack' = <<a>> \o Tail(stack)
<1>1. stack # <<>> /\ Top.at = "opening" /\ Top \in Activities /\ list \in Seq(Files)
  BY DEF chain, At, Top, Shape, Typed
<1>2. Top.file \in Files
  BY <1>1, Kinds
<1> QED BY <1>1, <1>2, Kept DEF chain

LEMMA ChainShape == ASSUME Shape, chain PROVE Shape'
<1> DEFINE a == [at |-> "linking", file |-> Top.file, chain |-> list]
<1>1. a \in Activities /\ stack # <<>> /\ Top.at = "opening" /\ stack' = <<a>> \o Tail(stack)
  BY ChainStep
<1>2. a.at = "linking"
  OBVIOUS
<1> HIDE DEF a
<1>3. /\ stack' \in Seq(Activities) /\ stack'[1] = a /\ Top = stack[1]
      /\ Len(stack') = Len(stack) /\ Len(stack) \in Nat \ {0}
      /\ \A i \in 1 .. Len(stack) : i # 1 => stack'[i] = stack[i]
  BY <1>1, SwappedStack
<1>4. UNCHANGED <<env, signalVars, count, exitVars, fileVars, used>>
  BY DEF chain
<1>5. Formed(stack')
  BY <1>1, <1>2, <1>3 DEF Shape, Formed, Inner
<1>6. Progress'
  BY <1>1, <1>2, <1>3, <1>4 DEF Shape, Progress, signalVars, exitVars
<1>7. Typed'
  BY <1>3, <1>4 DEF Shape, Typed, signalVars, exitVars, fileVars
<1> QED BY <1>1, <1>3, <1>4, <1>5, <1>6, <1>7 DEF Shape

LEMMA LinkStep ==
  ASSUME Shape, link
  PROVE  /\ stack # <<>> /\ Top.at = "linking" /\ Top.file \in Files /\ Top.chain \in Seq(Files)
         /\ Len(stack) > 1 /\ stack' = Tail(stack) /\ list' = <<Top.file>> \o Top.chain
<1>1. /\ stack # <<>> /\ Top.at = "linking" /\ Top = stack[1] /\ Top \in Activities
      /\ Len(stack) \in Nat \ {0}
  BY DEF link, At, Top, Shape, Typed
<1>2. 1 < Len(stack)
  BY <1>1 DEF Shape, Formed, Inner
<1> QED BY <1>1, <1>2, Kinds DEF link

LEMMA LinkShape == ASSUME Shape, link PROVE Shape'
<1>1. /\ Len(stack) > 1 /\ stack' = Tail(stack)
      /\ Top.file \in Files /\ Top.chain \in Seq(Files) /\ list' = <<Top.file>> \o Top.chain
  BY LinkStep
<1>2. list' \in Seq(Files)
  BY <1>1, Pushed
<1> QED BY <1>1, <1>2, PopShape DEF link, signalVars, Shape, Typed

LEMMA TriggerShape == ASSUME Shape, __atexit_trigger PROVE Shape'
<1> USE LifecycleAssumption
<1>1. Top.at = "trigger" /\ stack # <<>>
  BY DEF __atexit_trigger, At
<1>2. Len(stack) = 1 /\ stack[1] = Top /\ Tail(stack) = <<>> /\ Top \in Activities
  BY <1>1, TopAlone DEF Inner
<1>3. NextSlot \in Slots /\ atexit_funcs[NextSlot] # NULL
  BY SlotFacts DEF __atexit_trigger
<1> DEFINE t == [Top EXCEPT !.i = NextSlot]
           f == [at |-> "func"]
<1>4. Top.then \in Endings /\ Top = [at |-> "trigger", i |-> Top.i, then |-> Top.then]
  BY <1>1, <1>2 DEF Activities, Endings
<1>5. t = [at |-> "trigger", i |-> NextSlot, then |-> Top.then]
  BY <1>4
<1>6. t \in Activities /\ f \in Activities /\ t.at = "trigger" /\ f.at = "func"
  BY <1>3, <1>4, <1>5, Kept DEF Slots
<1>7. stack' = <<f, t>>
  <2>1. stack' = <<f, t>> \o <<>>
    BY <1>2 DEF __atexit_trigger
  <2>2. <<f, t>> \in Seq(Activities)
    BY <1>6
  <2> HIDE DEF t, f
  <2> QED BY <2>1, <2>2
<1> HIDE DEF t, f
<1>8. stack' \in Seq(Activities) /\ Len(stack') = 2 /\ stack'[1] = f /\ stack'[2] = t
  BY <1>6, <1>7
<1>9. Formed(stack')
  BY <1>6, <1>8 DEF Formed, Inner
<1>10. atexit_funcs[NextSlot] \in 1 .. REGISTRATIONS /\ ran \in Seq(1 .. REGISTRATIONS)
  BY <1>3 DEF Shape, Typed
<1>11. Typed'
  <2>1. ran' \in Seq(1 .. REGISTRATIONS)
    BY <1>10 DEF __atexit_trigger
  <2>2. atexit_funcs' \in [Slots -> 1 .. REGISTRATIONS \cup {NULL}]
    BY <1>3 DEF __atexit_trigger, Shape, Typed
  <2> QED BY <1>8, <2>1, <2>2 DEF __atexit_trigger, Shape, Typed, signalVars, fileVars
<1>12. Progress'
  <2>1. early # NULL /\ early' = early
    BY <1>1, <1>2 DEF Progress, Shape, __atexit_trigger
  <2>2. \A i \in 1 .. Len(stack') : stack'[i].at \in {"func", "trigger"}
    BY <1>6, <1>8
  <2> QED BY <2>1, <2>2 DEF Progress
<1> QED BY <1>1, <1>8, <1>9, <1>11, <1>12 DEF Shape, __atexit_trigger

(* Closing begins, and goes on.                                             *)
LEMMA ClosingShape ==
  ASSUME Shape, NEW then \in Endings, NEW left \in Seq(Files),
         stack # <<>>, Top.at \in {"trigger", "closing"},
         stack' = <<[at |-> "closing", left |-> left, then |-> then]>>,
         UNCHANGED <<env, signalVars, count, exitVars, caught, used>>,
         open' \subseteq Files, list' \in Seq(Files)
  PROVE  Shape'
<1> DEFINE c == [at |-> "closing", left |-> left, then |-> then]
<1>1. c \in Activities
  BY Kept
<1>2. stack' \in Seq(Activities) /\ Len(stack') = 1 /\ stack'[1] = c
  BY <1>1
<1>3. Len(stack) = 1 /\ stack[1] = Top
  BY TopAlone DEF Inner
<1>4. Formed(stack')
  BY <1>2 DEF Formed, Inner
<1>5. Progress'
  BY <1>2, <1>3 DEF Progress, Shape, exitVars
<1>6. Typed'
  BY <1>2 DEF Shape, Typed, signalVars, exitVars
<1> QED BY <1>2, <1>4, <1>5, <1>6, LifecycleAssumption DEF Shape

(* What leaves the stack, the signals and the count alone.                  *)
LEMMA StillShape ==
  ASSUME Shape, UNCHANGED <<stack, handlers, blocked, count, early>>,
         env' \in {"parent", "ours"}, caught' \subseteq Files, open' \subseteq Files,
         list' \in Seq(Files), ran' \in Seq(1 .. REGISTRATIONS),
         atexit_funcs' \in [Slots -> 1 .. REGISTRATIONS \cup {NULL}],
         used'.registrations \in 0 .. REGISTRATIONS, used'.interrupts \in Nat,
         \E r, n \in Nat : used' = [registrations |-> r, interrupts |-> n]
  PROVE  Shape'
<1>1. Typed'
  BY DEF Shape, Typed
<1> QED BY <1>1 DEF Shape, Progress

LEMMA AtexitShape == ASSUME Shape, atexit PROVE Shape'
<1> DEFINE n == used.registrations + 1
<1>1. PICK r, m \in Nat : used = [registrations |-> r, interrupts |-> m]
  BY DEF Shape
<1>2. n \in 1 .. REGISTRATIONS /\ used' = [registrations |-> n, interrupts |-> m]
  BY <1>1, LifecycleAssumption DEF atexit
<1>3. atexit_funcs' \in [Slots -> 1 .. REGISTRATIONS \cup {NULL}]
  <2>1. atexit_funcs' = [atexit_funcs EXCEPT ![FirstFree] = n]
    BY DEF atexit
  <2> QED BY <1>2, <2>1 DEF Shape, Typed
<1>4. n \in Nat /\ m \in Nat
  BY <1>1, <1>2
<1> HIDE DEF n
<1>5. /\ used'.registrations \in 0 .. REGISTRATIONS /\ used'.interrupts \in Nat
      /\ \E k, l \in Nat : used' = [registrations |-> k, interrupts |-> l]
  BY <1>2, <1>4
<1>6. UNCHANGED <<stack, env, signalVars, count, fileVars, early, ran>>
  BY DEF atexit
<1> QED BY <1>3, <1>5, <1>6, StillShape DEF signalVars, fileVars, Shape, Typed

LEMMA StartShape == ASSUME Shape, _env_init \/ __main_fail \/ _clib_internalinit PROVE Shape'
<1> USE LifecycleAssumption
<1>1. stack # <<>> /\ Top.at = "start" /\ count \in 0 .. 3 /\ count < 3
  BY DEF _env_init, __main_fail, _clib_internalinit, At, Shape, Typed
<1>2. Len(stack) = 1 /\ stack[1] = Top
  BY <1>1, TopAlone DEF Inner
<1>3. CASE _env_init
  BY <1>3, StillShape DEF _env_init, signalVars, exitVars, fileVars, Shape, Typed
<1>4. CASE __main_fail
  <2>1. /\ Finalise("_Exit") /\ UNCHANGED <<env, handlers, blocked, count, list, open, caught, used>>
    BY <1>4 DEF __main_fail, signalVars, fileVars
  <2>2. /\ count' \in 0 .. 2 /\ Counted /\ blocked' \subseteq Signals
        /\ env' \in {"parent", "ours"} /\ caught' \subseteq Files /\ "_Exit" \in Endings
    BY <1>1, <2>1 DEF Shape, Typed, Counted, Endings
  <2> QED BY <1>1, <2>1, <2>2, FinaliseShape
<1>5. CASE _clib_internalinit
  <2>1. [at |-> "main"] \in Activities
    BY Kept
  <2>2. stack' \in Seq(Activities) /\ Len(stack') = 1 /\ stack'[1] = [at |-> "main"]
    BY <1>5, <2>1 DEF _clib_internalinit
  <2>3. handlers' \in [Signals -> {"user", "signal_escape", "signal_abort", NULL}]
        /\ blocked' = {}
    BY <1>5 DEF _clib_internalinit, Default
  <2>4. Typed'
    BY <1>5, <2>2, <2>3 DEF _clib_internalinit, exitVars, fileVars, Shape, Typed
  <2>5. early = NULL /\ early' = early
    BY <1>1, <1>2, <1>5 DEF Shape, Progress, _clib_internalinit, exitVars
  <2>6. Progress'
    BY <2>2, <2>5 DEF Progress
  <2>7. Formed(stack')
    BY <2>2 DEF Formed, Inner
  <2> QED BY <1>1, <1>5, <2>2, <2>4, <2>6, <2>7 DEF Shape, _clib_internalinit
<1> QED BY <1>3, <1>4, <1>5

LEMMA AbortShape == ASSUME Shape, abort PROVE Shape'
<1> USE LifecycleAssumption
<1> DEFINE g == [at |-> "signal", sig |-> "SIGABRT"]
           b == [at |-> "abort"]
<1>1. /\ count \in 0 .. 2 /\ env \in {"parent", "ours"} /\ "SIGABRT" \in Signals
      /\ caught \subseteq Files /\ blocked \subseteq Signals
  BY DEF Shape, Typed, abort, UserCode, Signals
<1>2. stack # <<>> /\ \A i \in 1 .. Len(stack) : stack[i].at # "start"
  BY UserCalm DEF abort
<1>3. CASE Chosen("SIGABRT") = "user"
  <2>1. stack' = <<g, b>> /\ g \in Activities /\ b \in Activities
    BY <1>1, <1>3, Kept DEF abort
  <2>2. g.at = "signal" /\ b.at = "abort"
    OBVIOUS
  <2> HIDE DEF g, b
  <2>3. stack' \in Seq(Activities) /\ Len(stack') = 2 /\ stack'[1] = g /\ stack'[2] = b
    BY <2>1
  <2>4. Counted /\ UNCHANGED exitVars /\ blocked' = blocked \cup {"SIGABRT"}
    BY <1>3 DEF abort, Counted
  <2>5. Formed(stack')
    BY <2>2, <2>3 DEF Formed, Inner
  <2>6. Progress'
    BY <2>2, <2>3 DEF Progress
  <2>7. Typed'
    BY <1>1, <2>3, <2>4, CountedShape DEF abort, exitVars, fileVars, Shape, Typed
  <2> QED BY <1>1, <2>3, <2>4, <2>5, <2>6, <2>7, CountedShape DEF Shape, abort
<1>4. CASE Chosen("SIGABRT") # "user"
  BY <1>1, <1>2, <1>4, FinaliseShape DEF abort, fileVars, Counted, Endings
<1> QED BY <1>3, <1>4

LEMMA ProgramShape == ASSUME Shape, Program PROVE Shape'
<1> USE LifecycleAssumption
<1>1. /\ count \in 0 .. 3 /\ env \in {"parent", "ours"} /\ caught \subseteq Files
      /\ blocked \subseteq Signals /\ open \subseteq Files /\ list \in Seq(Files)
      /\ stack # <<>> => count < 3
  BY DEF Shape, Typed
<1>2. CASE atexit
  BY <1>2, AtexitShape
<1>3. CASE exit
  BY <1>1, <1>3, FinaliseShape
     DEF exit, UserCode, signalVars, fileVars, Counted, Endings
<1>4. CASE __assert_fail
  BY <1>1, <1>4, FinaliseShape
     DEF __assert_fail, UserCode, signalVars, fileVars, Counted, Endings
<1>5. CASE error
  BY <1>1, <1>5, EnvErrorShape DEF error, UserCode, signalVars, Counted
<1>6. CASE abort
  BY <1>6, AbortShape
<1>7. ASSUME NEW f \in Files, fopen(f) PROVE Shape'
  BY <1>7, FopenShape
<1>8. ASSUME NEW sig \in Signals, raise(sig) PROVE Shape'
  BY <1>1, <1>8, RaiseShape DEF raise, UserCode, Counted
<1>9. ASSUME NEW sig \in Signals, NEW func \in {"user", NULL}, signal(sig, func) PROVE Shape'
  <2>1. handlers' \in [Signals -> {"user", "signal_escape", "signal_abort", NULL}]
    BY <1>9 DEF signal, Shape, Typed
  <2>2. \A i \in 1 .. Len(stack) : stack[i].at # "start"
    BY <1>9, UserCalm DEF signal
  <2>3. Typed'
    BY <1>9, <2>1 DEF signal, exitVars, fileVars, Shape, Typed
  <2>4. Progress'
    BY <1>9, <2>2 DEF signal, exitVars, Shape, Progress
  <2> QED BY <1>9, <2>3, <2>4 DEF signal, Shape
<1> QED BY <1>2, <1>3, <1>4, <1>5, <1>6, <1>7, <1>8, <1>9 DEF Program

(* One file less to close.                                                  *)
LEMMA OneClosed ==
  ASSUME NEW a, NEW left, NEW then, a = [at |-> "closing", left |-> left, then |-> then]
  PROVE  [a EXCEPT !.left = Tail(left)]
           = [at |-> "closing", left |-> Tail(left), then |-> then]
<1> DEFINE rest == Tail(left)
<1> HIDE DEF rest
<1>1. [a EXCEPT !.left = rest] = [at |-> "closing", left |-> rest, then |-> then]
  OBVIOUS
<1> QED BY <1>1, Zenon DEF rest

LEMMA LibraryShape == ASSUME Shape, Library PROVE Shape'
<1> USE LifecycleAssumption
<1>1. /\ count \in 0 .. 3 /\ env \in {"parent", "ours"} /\ caught \subseteq Files
      /\ blocked \subseteq Signals /\ open \subseteq Files /\ list \in Seq(Files)
      /\ stack # <<>> => count < 3
  BY DEF Shape, Typed
<1>2. CASE _env_init \/ __main_fail \/ _clib_internalinit
  BY <1>2, StartShape
<1>3. CASE return
  BY <1>3, ReturnShape
<1>4. CASE abort_exit
  BY <1>1, <1>4, FinaliseShape
     DEF abort_exit, At, signalVars, fileVars, Counted, Endings
<1>5. CASE __atexit_trigger
  BY <1>5, TriggerShape
<1>6. CASE __io_final
  <2>1. stack # <<>> /\ Top.at = "trigger"
    BY <1>6 DEF __io_final, At
  <2>2. Top \in Activities
    BY <2>1, TopAlone DEF Inner
  <2>3. Top.then \in Endings
    BY <2>1, <2>2, Kinds
  <2> QED BY <1>1, <1>6, <2>1, <2>3, ClosingShape DEF __io_final
<1>7. CASE fclose
  <2>1. stack # <<>> /\ Top.at = "closing" /\ Top.left # <<>>
    BY <1>7 DEF fclose, At
  <2>2. Top \in Activities /\ Tail(stack) = <<>>
    BY <2>1, TopAlone DEF Inner
  <2>3. Top.then \in Endings /\ Top.left \in Seq(Files) /\ Tail(Top.left) \in Seq(Files)
    BY <2>1, <2>2, Kinds
  <2> DEFINE c == [at |-> "closing", left |-> Tail(Top.left), then |-> Top.then]
  <2>4. Top = [at |-> "closing", left |-> Top.left, then |-> Top.then]
    BY <2>1, <2>2 DEF Activities
  <2>5. [Top EXCEPT !.left = Tail(Top.left)] = c
    BY <2>4, OneClosed
  <2>6. c \in Activities
    BY <2>3, Kept
  <2>7. stack' = <<c>>
    <3>1. stack' = <<c>> \o <<>>
      BY <1>7, <2>2, <2>5 DEF fclose
    <3> HIDE DEF c
    <3>2. <<c>> \in Seq(Activities)
      BY <2>6
    <3> QED BY <3>1, <3>2
  <2> QED BY <1>1, <1>7, <2>1, <2>3, <2>7, ClosingShape DEF fclose
<1>8. CASE _Exit
  BY <1>1, <1>8, OverShape DEF _Exit, signalVars, fileVars, Counted
<1>9. CASE chain \/ link
  BY <1>9, ChainShape, LinkShape
<1> QED BY <1>2, <1>3, <1>4, <1>5, <1>6, <1>7, <1>8, <1>9 DEF Library

LEMMA NextShape == ASSUME Shape, [Next]_vars PROVE Shape'
<1>1. CASE _env_escape
  <2>1. caught' \subseteq Files
    <3>1. Top \in Activities /\ caught \subseteq Files /\ caught' = caught \cup Hand(Top)
      BY <1>1 DEF _env_escape, Top, Shape, Typed
    <3> QED BY <3>1, HandFiles
  <2>2. "SIGINT" \in Signals
    BY DEF Signals
  <2> QED BY <1>1, <2>1, <2>2, RaiseShape DEF _env_escape, Counted
<1>2. CASE UNCHANGED vars
  <2>1. Typed'
    BY <1>2 DEF vars, Shape, Typed
  <2> QED BY <1>2, <2>1 DEF vars, Shape, Progress
<1> QED BY <1>1, <1>2, LibraryShape, ProgramShape DEF Next

-----------------------------------------------------------------------------
(* Most steps touch neither the table nor the files; they begin the end, or *)
(* leave what of it is under way as it is.  What they break into is caught. *)

Plain(a) == a.at \in {"start", "main", "func", "signal", "abort"}

\* The stack as it was, with a plain activity more or less, or plain throughout.
StackStep ==
  \/ UNCHANGED stack
  \/ \E a \in Activities : Plain(a) /\ Push(a)
  \/ Len(stack) > 1 /\ stack' = Tail(stack) /\ Plain(Top)
  \/ \A j \in 1 .. Len(stack') : Plain(stack'[j])

Quiet ==
  /\ UNCHANGED <<atexit_funcs, ran, list, open>> /\ used'.registrations = used.registrations
  /\ stack # <<>> /\ (stack' = <<>> => count' = 3)
  /\ caught \cup Hand(Top) \subseteq caught'
  /\ \/ UNCHANGED early /\ StackStep
     \/ \E then \in Endings : Finalise(then)

LEMMA EmptyHanded ==
  ASSUME Shape, stack # <<>>, Plain(Top) \/ Top.at = "trigger"
  PROVE  Hand(Top) = {}
<1>1. Top \in Activities
  BY DEF Top, Shape, Typed
<1> QED BY <1>1, HandFiles DEF Plain

LEMMA FinaliseMove ==
  ASSUME NEW then \in Endings, Finalise(then)
  PROVE  /\ \E e \in Endings : Finalise(e)
         /\ stack' # <<>> /\ UNCHANGED <<atexit_funcs, ran>>
BY DEF Finalise

LEMMA OverStep == ASSUME stack' = <<>> PROVE StackStep
<1>1. Len(stack') = 0
  OBVIOUS
<1> QED BY <1>1 DEF StackStep

LEMMA EnvErrorMove ==
  ASSUME Shape, _env_error, stack # <<>>
  PROVE  /\ UNCHANGED <<atexit_funcs, ran, list, open>> /\ (stack' = <<>> => count' = 3)
         /\ \/ UNCHANGED early /\ StackStep
            \/ \E then \in Endings : Finalise(then)
<1>1. count \in 0 .. 2
  BY DEF Shape, Typed
<1>2. CASE count + 1 < 3
  BY <1>2, FinaliseMove DEF _env_error, Endings
<1>3. CASE ~(count + 1 < 3)
  BY <1>1, <1>3, OverStep DEF _env_error, exitVars
<1> QED BY <1>2, <1>3

LEMMA RaiseMove ==
  ASSUME Shape, NEW sig \in Signals, Raise(sig), stack # <<>>
  PROVE  /\ UNCHANGED <<atexit_funcs, ran, list, open>> /\ (stack' = <<>> => count' = 3)
         /\ \/ UNCHANGED early /\ StackStep
            \/ \E then \in Endings : Finalise(then)
<1>1. CASE UNCHANGED <<stack, env, count, exitVars, list, open, handlers>>
  BY <1>1 DEF exitVars, StackStep
<1>2. CASE Push([at |-> "signal", sig |-> sig])
           /\ UNCHANGED <<env, count, exitVars, list, open, handlers>>
  <2>1. PICK a \in Activities : Plain(a) /\ Push(a)
    BY <1>2, Kept DEF Plain
  <2>2. stack' # <<>>
    BY <2>1, PushedStack
  <2> QED BY <1>2, <2>1, <2>2 DEF exitVars, StackStep
<1>3. CASE _env_error
  BY <1>3, EnvErrorMove
<1>4. CASE Finalise("_Exit") /\ UNCHANGED <<env, count, list, open, handlers>>
  BY <1>4, FinaliseMove DEF Endings
<1> QED BY <1>1, <1>2, <1>3, <1>4, RaiseCases

LEMMA ProgramQuiet ==
  ASSUME Shape, Program, ~atexit, \A f \in Files : ~fopen(f)
  PROVE  Quiet
<1> USE LifecycleAssumption
<1>1. stack # <<>> /\ Plain(Top) /\ UNCHANGED caught
  BY DEF Program, atexit, exit, __assert_fail, error, abort, fopen, raise, signal, fileVars,
         UserCode, Plain
<1>2. caught \cup Hand(Top) \subseteq caught'
  BY <1>1, EmptyHanded
<1>3. CASE exit \/ __assert_fail
  BY <1>1, <1>2, <1>3, FinaliseMove
     DEF exit, __assert_fail, signalVars, fileVars, Quiet, Endings
<1>4. CASE error
  <2>1. used'.registrations = used.registrations
    BY <1>4, CountedShape DEF error, Counted
  <2> QED BY <1>1, <1>2, <1>4, <2>1, EnvErrorMove DEF error, Quiet
<1>5. CASE abort
  <2>1. used'.registrations = used.registrations
    BY <1>5, CountedShape DEF abort, Counted
  <2>2. CASE Chosen("SIGABRT") = "user"
    <3> DEFINE g == [at |-> "signal", sig |-> "SIGABRT"]
               b == [at |-> "abort"]
    <3>1. stack' = <<g, b>> /\ Plain(g) /\ Plain(b)
      BY <1>5, <2>2 DEF abort, Plain
    <3> HIDE DEF g, b
    <3>2. stack' # <<>> /\ StackStep
      BY <3>1 DEF StackStep
    <3> QED BY <1>1, <1>2, <1>5, <2>1, <2>2, <3>2 DEF abort, exitVars, fileVars, Quiet
  <2>3. CASE Chosen("SIGABRT") # "user"
    BY <1>1, <1>2, <1>5, <2>1, <2>3, FinaliseMove DEF abort, fileVars, Quiet, Endings
  <2> QED BY <2>2, <2>3
<1>6. ASSUME NEW sig \in Signals, raise(sig) PROVE Quiet
  <2>1. used'.registrations = used.registrations
    BY <1>6, CountedShape DEF raise, Counted
  <2> QED BY <1>1, <1>2, <1>6, <2>1, RaiseMove DEF raise, Quiet
<1>7. ASSUME NEW sig \in Signals, NEW func \in {"user", NULL}, signal(sig, func) PROVE Quiet
  BY <1>1, <1>2, <1>7 DEF signal, exitVars, fileVars, StackStep, Quiet
<1> QED BY <1>3, <1>4, <1>5, <1>6, <1>7 DEF Program

LEMMA LibraryQuiet ==
  ASSUME Shape, Library, ~chain, ~link, ~__atexit_trigger, ~__io_final, ~fclose, ~_Exit
  PROVE  Quiet
<1> USE LifecycleAssumption
<1>1. stack # <<>> /\ Plain(Top) /\ UNCHANGED caught
  <2>1. CASE return
    BY <2>1 DEF return, fileVars, Plain, Shape, Typed
  <2> QED BY <2>1 DEF Library, _env_init, __main_fail, _clib_internalinit, abort_exit, At,
                      fileVars, Plain
<1>2. caught \cup Hand(Top) \subseteq caught'
  BY <1>1, EmptyHanded
<1>3. CASE __main_fail \/ abort_exit
  BY <1>1, <1>2, <1>3, FinaliseMove
     DEF __main_fail, abort_exit, signalVars, fileVars, Quiet, Endings
<1>4. CASE _env_init
  BY <1>1, <1>2, <1>4 DEF _env_init, exitVars, fileVars, StackStep, Quiet
<1>5. CASE _clib_internalinit
  <2>1. stack' = <<[at |-> "main"]>>
    BY <1>5 DEF _clib_internalinit
  <2>2. stack' # <<>> /\ \A j \in 1 .. Len(stack') : stack'[j].at = "main"
    BY <2>1
  <2>3. StackStep
    BY <2>2 DEF StackStep, Plain
  <2> QED BY <1>1, <1>2, <1>5, <2>2, <2>3 DEF _clib_internalinit, exitVars, fileVars, Quiet
<1>6. CASE return
  <2>1. Len(stack) > 1 /\ stack' = Tail(stack) /\ Plain(Top)
    BY <1>6 DEF return, Plain
  <2>2. stack' # <<>>
    BY <2>1, PoppedStack
  <2>3. StackStep
    BY <2>1 DEF StackStep
  <2> QED BY <1>1, <1>2, <1>6, <2>2, <2>3 DEF return, exitVars, fileVars, Quiet
<1> QED BY <1>3, <1>4, <1>5, <1>6 DEF Library

LEMMA QuietSteps ==
  ASSUME Shape, [Next]_vars
  PROVE  \/ Quiet \/ atexit \/ chain \/ link \/ __atexit_trigger \/ __io_final \/ fclose
         \/ _Exit \/ UNCHANGED vars
         \/ \E f \in Files : fopen(f)
<1>1. CASE _env_escape
  <2>1. used'.registrations = used.registrations
    BY <1>1, CountedShape DEF _env_escape, Counted
  <2>2. "SIGINT" \in Signals
    BY DEF Signals
  <2>3. caught \cup Hand(Top) \subseteq caught' /\ stack # <<>> /\ Raise("SIGINT")
    BY <1>1 DEF _env_escape
  <2> QED BY <2>1, <2>2, <2>3, RaiseMove DEF Quiet
<1> QED BY <1>1, LibraryQuiet, ProgramQuiet DEF Next

-----------------------------------------------------------------------------
(* The files.                                                               *)

Distinct(s) == \A i, j \in 1 .. Len(s) : s[i] = s[j] => i = j

LEMMA ElementsIs ==
  ASSUME NEW S, NEW s \in Seq(S)
  PROVE  Elements(s) = {s[i] : i \in 1 .. Len(s)}
<1>1. DOMAIN s = 1 .. Len(s)
  OBVIOUS
<1> QED BY <1>1 DEF Elements

LEMMA Consed ==
  ASSUME NEW S, NEW s \in Seq(S), NEW a \in S
  PROVE  /\ Elements(<<a>> \o s) = {a} \cup Elements(s)
         /\ a \notin Elements(s) /\ Distinct(s) => Distinct(<<a>> \o s)
<1> DEFINE t == <<a>> \o s
<1>1. /\ t \in Seq(S) /\ Len(t) = Len(s) + 1 /\ Len(s) \in Nat /\ t[1] = a
      /\ \A i \in 1 .. Len(s) : t[i + 1] = s[i]
  BY Pushed
<1> HIDE DEF t
<1>2. \A j \in 1 .. Len(t) : j # 1 => j - 1 \in 1 .. Len(s) /\ t[j] = s[j - 1]
  <2> SUFFICES ASSUME NEW j \in 1 .. Len(t), j # 1
               PROVE  j - 1 \in 1 .. Len(s) /\ t[j] = s[j - 1]
    OBVIOUS
  <2>1. j - 1 \in 1 .. Len(s) /\ (j - 1) + 1 = j
    BY <1>1
  <2> QED BY <1>1, <2>1
<1>3. \A i \in 1 .. Len(s) : i + 1 \in 1 .. Len(t)
  BY <1>1
<1>4. 1 \in 1 .. Len(t)
  BY <1>1
<1>5. Elements(t) = {t[j] : j \in 1 .. Len(t)} /\ Elements(s) = {s[i] : i \in 1 .. Len(s)}
  BY <1>1, ElementsIs
<1>6. Elements(t) = {a} \cup Elements(s)
  <2>1. \A x \in Elements(t) : x = a \/ x \in Elements(s)
    BY <1>1, <1>2, <1>5
  <2>2. a \in Elements(t)
    BY <1>1, <1>4, <1>5
  <2>3. \A x \in Elements(s) : x \in Elements(t)
    BY <1>1, <1>3, <1>5
  <2> QED BY <2>1, <2>2, <2>3
<1>7. ASSUME a \notin Elements(s), Distinct(s) PROVE Distinct(t)
  <2> SUFFICES ASSUME NEW i \in 1 .. Len(t), NEW j \in 1 .. Len(t), t[i] = t[j] PROVE i = j
    BY DEF Distinct
  <2>1. \A k \in 1 .. Len(t) : k # 1 => t[k] # a
    BY <1>2, <1>5, <1>7
  <2>2. CASE i # 1 /\ j # 1
    <3>1. i - 1 \in 1 .. Len(s) /\ j - 1 \in 1 .. Len(s) /\ s[i - 1] = s[j - 1]
      BY <1>2, <2>2
    <3>2. i - 1 = j - 1
      BY <1>7, <3>1 DEF Distinct
    <3> QED BY <1>1, <3>2
  <2> QED BY <1>1, <2>1, <2>2
<1> QED BY <1>6, <1>7 DEF t

LEMMA Uncons ==
  ASSUME NEW S, NEW s \in Seq(S), s # <<>>
  PROVE  /\ Elements(s) = {Head(s)} \cup Elements(Tail(s)) /\ Tail(s) \in Seq(S) /\ Head(s) \in S
         /\ Distinct(s) => Distinct(Tail(s)) /\ Head(s) \notin Elements(Tail(s))
<1>1. /\ Head(s) = s[1] /\ Len(s) \in Nat \ {0}
      /\ Tail(s) \in Seq(S) /\ Len(Tail(s)) = Len(s) - 1
      /\ \A i \in 1 .. Len(s) - 1 : Tail(s)[i] = s[i + 1]
  BY Popped
<1> DEFINE t == Tail(s)
<1>2. Head(s) \in S
  BY <1>1
<1>3. s = <<Head(s)>> \o t
  OBVIOUS
<1>4. Elements(s) = {Head(s)} \cup Elements(t)
  BY <1>1, <1>2, <1>3, Consed
<1>5. ASSUME Distinct(s) PROVE Distinct(t) /\ Head(s) \notin Elements(t)
  <2>1. Elements(t) = {t[i] : i \in 1 .. Len(t)}
    BY <1>1, ElementsIs
  <2>2. \A i \in 1 .. Len(t) : i + 1 \in 1 .. Len(s) /\ t[i] = s[i + 1] /\ i + 1 # 1
    BY <1>1
  <2> HIDE DEF t
  <2>3. Distinct(t)
    <3> SUFFICES ASSUME NEW i \in 1 .. Len(t), NEW j \in 1 .. Len(t), t[i] = t[j] PROVE i = j
      BY DEF Distinct
    <3>1. i + 1 = j + 1
      BY <1>5, <2>2 DEF Distinct
    <3> QED BY <3>1
  <2>4. 1 \in 1 .. Len(s)
    BY <1>1
  <2>5. Head(s) \notin Elements(t)
    BY <1>1, <1>5, <2>1, <2>2, <2>4 DEF Distinct
  <2> QED BY <2>3, <2>5
<1> QED BY <1>1, <1>2, <1>4, <1>5

\* What an activity will put on the list, and what it has for itself.
News(a) == IF a.at = "opening" THEN {a.file}
           ELSE IF a.at = "linking" THEN {a.file} \cup Elements(a.chain) ELSE {}
Claim(a) == IF a.at = "opening" THEN {a.file}
            ELSE IF a.at = "closing" THEN Elements(a.left) ELSE {}

\* What the list will hold of what it held, after an activity over which a
\* handler changes the list.
Breaking(a) == a.at \in {"linking", "closing"}
Behind(a) == IF a.at = "linking" THEN Elements(a.chain) ELSE {}

Sound(a, files) ==
  /\ News(a) \subseteq files /\ Claim(a) \subseteq files
  /\ a.at = "linking" => Distinct(a.chain) /\ a.file \notin Elements(a.chain)
  /\ a.at = "closing" => Distinct(a.left)

(* The list holds each file once and only open ones; what is under way has  *)
(* files that are not on the list, nor will be by what is over it.          *)
ListInv ==
  /\ Distinct(list) /\ Elements(list) \subseteq open
  /\ \A j \in 1 .. Len(stack) : Sound(stack[j], open) /\ Claim(stack[j]) \cap Elements(list) = {}
  /\ \A i, j \in 1 .. Len(stack) : i < j => Claim(stack[j]) \cap News(stack[i]) = {}

(* An open file is on the list or in the innermost call's hand, unless it   *)
(* is caught; the others' files are caught, and so is what the list has     *)
(* beyond what it had, when a call that is changing or closing it goes on.  *)
OpenInv ==
  /\ stack # <<>> => open \subseteq caught \cup Elements(list) \cup Hand(stack[1])
  /\ \A i \in 1 .. Len(stack) : i # 1 => Hand(stack[i]) \subseteq caught
  /\ \A j \in 1 .. Len(stack) :
       Breaking(stack[j]) => Elements(list) \subseteq Behind(stack[j]) \cup caught
  /\ \A i, j \in 1 .. Len(stack) :
       i < j /\ Breaking(stack[j]) => News(stack[i]) \subseteq Behind(stack[j]) \cup caught
  /\ stack = <<>> /\ count < 3 => open \subseteq caught

FileInv == ListInv /\ OpenInv

LEMMA PlainFiles ==
  ASSUME NEW a \in Activities, Plain(a) \/ a.at = "trigger"
  PROVE  /\ News(a) = {} /\ Claim(a) = {} /\ Hand(a) = {} /\ ~Breaking(a) /\ Behind(a) = {}
         /\ Sound(a, open)
BY HandFiles DEF Plain, News, Claim, Breaking, Behind, Sound

LEMMA FirstIsTop ==
  ASSUME Shape, stack # <<>>
  PROVE  stack[1] = Top /\ 1 \in 1 .. Len(stack) /\ Top \in Activities
BY DEF Top, Shape, Typed

(* The stack is plain throughout, and what was in hand is caught.           *)
LEMMA FreshFiles ==
  ASSUME Shape, Shape', FileInv, UNCHANGED <<list, open>>, stack # <<>>,
         stack' = <<>> => count' = 3, caught \cup Hand(Top) \subseteq caught',
         \A j \in 1 .. Len(stack') : Plain(stack'[j]) \/ stack'[j].at = "trigger"
  PROVE  FileInv'
<1>1. \A j \in 1 .. Len(stack') : stack'[j] \in Activities
  BY DEF Shape, Typed
<1>2. \A j \in 1 .. Len(stack') :
        /\ News(stack'[j]) = {} /\ Claim(stack'[j]) = {} /\ Hand(stack'[j]) = {}
        /\ ~Breaking(stack'[j]) /\ Behind(stack'[j]) = {}
  BY <1>1, PlainFiles
<1>3. \A j \in 1 .. Len(stack') : Sound(stack'[j], open')
  BY <1>2 DEF Sound, Breaking
<1>4. ListInv'
  BY <1>2, <1>3 DEF FileInv, ListInv
<1>5. open \subseteq caught' \cup Elements(list)
  BY FirstIsTop DEF FileInv, OpenInv
<1>6. stack' = <<>> /\ count' < 3 => open' \subseteq caught'
  BY DEF Shape
<1>7. OpenInv'
  BY <1>2, <1>5, <1>6 DEF OpenInv
<1> QED BY <1>4, <1>7 DEF FileInv

(* The stack is as it was, and more is caught.                              *)
LEMMA SameFiles ==
  ASSUME Shape, FileInv, UNCHANGED <<stack, list, open>>, stack # <<>>, caught \subseteq caught'
  PROVE  FileInv'
<1>1. ListInv'
  BY DEF FileInv, ListInv, Sound
<1>2. OpenInv'
  BY DEF FileInv, OpenInv
<1> QED BY <1>1, <1>2 DEF FileInv

LEMMA PushFiles ==
  ASSUME Shape, FileInv, UNCHANGED <<list, open>>, stack # <<>>,
         caught \cup Hand(Top) \subseteq caught', NEW a \in Activities, Plain(a), Push(a)
  PROVE  FileInv'
<1>1. /\ stack' # <<>> /\ stack'[1] = a
      /\ \A j \in 1 .. Len(stack') :
           j # 1 => j - 1 \in 1 .. Len(stack) /\ stack'[j] = stack[j - 1]
  BY PushedStack
<1>2. News(a) = {} /\ Claim(a) = {} /\ Hand(a) = {} /\ ~Breaking(a) /\ Sound(a, open')
  BY PlainFiles DEF Sound, Plain
<1>3. stack[1] = Top /\ 1 \in 1 .. Len(stack)
  BY FirstIsTop
<1>4. ListInv'
  <2>1. \A j \in 1 .. Len(stack') :
          Sound(stack'[j], open') /\ Claim(stack'[j]) \cap Elements(list) = {}
    BY <1>1, <1>2 DEF FileInv, ListInv, Sound
  <2>2. ASSUME NEW i \in 1 .. Len(stack'), NEW j \in 1 .. Len(stack'), i < j
        PROVE  Claim(stack'[j]) \cap News(stack'[i]) = {}
    <3>1. CASE i = 1
      BY <1>1, <1>2, <3>1
    <3>2. CASE i # 1
      <4>1. /\ i - 1 \in 1 .. Len(stack) /\ j - 1 \in 1 .. Len(stack) /\ i - 1 < j - 1
            /\ stack'[i] = stack[i - 1] /\ stack'[j] = stack[j - 1]
        BY <1>1, <2>2, <3>2
      <4> QED BY <4>1 DEF FileInv, ListInv
    <3> QED BY <3>1, <3>2
  <2> QED BY <2>1, <2>2 DEF FileInv, ListInv
<1>5. OpenInv'
  <2>1. open' \subseteq caught' \cup Elements(list') \cup Hand(stack'[1])
    BY <1>3 DEF FileInv, OpenInv
  <2>2. \A i \in 1 .. Len(stack') : i # 1 => Hand(stack'[i]) \subseteq caught'
    BY <1>1, <1>3 DEF FileInv, OpenInv
  <2>3. \A j \in 1 .. Len(stack') :
          Breaking(stack'[j]) => Elements(list') \subseteq Behind(stack'[j]) \cup caught'
    BY <1>1, <1>2 DEF FileInv, OpenInv
  <2>4. ASSUME NEW i \in 1 .. Len(stack'), NEW j \in 1 .. Len(stack'), i < j, Breaking(stack'[j])
        PROVE  News(stack'[i]) \subseteq Behind(stack'[j]) \cup caught'
    <3>1. CASE i = 1
      BY <1>1, <1>2, <3>1
    <3>2. CASE i # 1
      <4>1. /\ i - 1 \in 1 .. Len(stack) /\ j - 1 \in 1 .. Len(stack) /\ i - 1 < j - 1
            /\ stack'[i] = stack[i - 1] /\ stack'[j] = stack[j - 1]
        BY <1>1, <2>4, <3>2
      <4> QED BY <2>4, <4>1 DEF FileInv, OpenInv
    <3> QED BY <3>1, <3>2
  <2> QED BY <1>1, <2>1, <2>2, <2>3, <2>4 DEF OpenInv
<1> QED BY <1>4, <1>5 DEF FileInv

(* What is popped has nothing in hand, or has put it on the list.           *)
LEMMA PopFiles ==
  ASSUME Shape, FileInv, Len(stack) > 1, stack' = Tail(stack), UNCHANGED open,
         caught \subseteq caught', Distinct(list'), Elements(list') \subseteq open,
         \A j \in 1 .. Len(stack) : j # 1 => Claim(stack[j]) \cap Elements(list') = {},
         Elements(list) \cup Hand(Top) \subseteq Elements(list') \cup caught',
         \A j \in 1 .. Len(stack) : j # 1 /\ Breaking(stack[j]) =>
           Elements(list') \subseteq Behind(stack[j]) \cup caught'
  PROVE  FileInv'
<1>1. /\ stack' # <<>> /\ stack # <<>> /\ Top = stack[1]
      /\ \A i \in 1 .. Len(stack') :
           i + 1 \in 1 .. Len(stack) /\ i + 1 # 1 /\ stack'[i] = stack[i + 1]
  BY PoppedStack
<1>2. \A i, j \in 1 .. Len(stack') : i < j => i + 1 < j + 1
  OBVIOUS
<1>3. 1 \in 1 .. Len(stack')
  BY <1>1, PoppedStack
<1>4. ListInv'
  <2>1. \A j \in 1 .. Len(stack') :
          Sound(stack'[j], open') /\ Claim(stack'[j]) \cap Elements(list') = {}
    BY <1>1 DEF FileInv, ListInv, Sound
  <2>2. \A i, j \in 1 .. Len(stack') : i < j => Claim(stack'[j]) \cap News(stack'[i]) = {}
    BY <1>1, <1>2 DEF FileInv, ListInv
  <2> QED BY <2>1, <2>2 DEF ListInv
<1>5. OpenInv'
  <2>1. open \subseteq caught' \cup Elements(list')
    BY <1>1 DEF FileInv, OpenInv
  <2>2. \A i \in 1 .. Len(stack') : Hand(stack'[i]) \subseteq caught'
    BY <1>1 DEF FileInv, OpenInv
  <2>3. \A j \in 1 .. Len(stack') :
          Breaking(stack'[j]) => Elements(list') \subseteq Behind(stack'[j]) \cup caught'
    BY <1>1
  <2>4. \A i, j \in 1 .. Len(stack') :
          i < j /\ Breaking(stack'[j]) => News(stack'[i]) \subseteq Behind(stack'[j]) \cup caught'
    BY <1>1, <1>2 DEF FileInv, OpenInv
  <2> QED BY <1>1, <2>1, <2>2, <2>3, <2>4 DEF OpenInv
<1> QED BY <1>4, <1>5 DEF FileInv

LEMMA PopPlain ==
  ASSUME Shape, FileInv, Len(stack) > 1, stack' = Tail(stack), UNCHANGED <<list, open>>,
         caught \subseteq caught', Plain(Top)
  PROVE  FileInv'
<1>1. stack # <<>>
  BY PoppedStack
<1>2. Hand(Top) = {}
  BY <1>1, EmptyHanded
<1>3. /\ Distinct(list) /\ Elements(list) \subseteq open
      /\ \A j \in 1 .. Len(stack) : Claim(stack[j]) \cap Elements(list) = {}
      /\ \A j \in 1 .. Len(stack) :
           Breaking(stack[j]) => Elements(list) \subseteq Behind(stack[j]) \cup caught
  BY DEF FileInv, ListInv, OpenInv
<1>4. \A j \in 1 .. Len(stack) : j # 1 /\ Breaking(stack[j]) =>
        Elements(list') \subseteq Behind(stack[j]) \cup caught'
  BY <1>3
<1> QED BY <1>2, <1>3, <1>4, PopFiles

LEMMA InitFiles == Init => FileInv
<1> SUFFICES ASSUME Init PROVE FileInv
  OBVIOUS
<1>1. list = <<>> /\ Len(list) = 0 /\ list \in Seq(Files)
  BY DEF Init
<1>2. Elements(list) = {}
  BY <1>1 DEF Elements
<1>3. stack = <<[at |-> "start"]>> /\ open = {}
  BY DEF Init
<1>4. stack # <<>> /\ \A i \in 1 .. Len(stack) : stack[i].at = "start" /\ stack[i] \in Activities
  BY <1>3, Kept
<1>5. \A i \in 1 .. Len(stack) :
        /\ News(stack[i]) = {} /\ Claim(stack[i]) = {} /\ Hand(stack[i]) = {}
        /\ ~Breaking(stack[i]) /\ Sound(stack[i], open)
  BY <1>4, PlainFiles DEF Plain
<1>6. ListInv
  BY <1>1, <1>2, <1>5 DEF ListInv, Distinct
<1>7. OpenInv
  BY <1>3, <1>4, <1>5 DEF OpenInv
<1> QED BY <1>6, <1>7 DEF FileInv

LEMMA QuietFiles == ASSUME Shape, Shape', FileInv, Quiet PROVE FileInv'
<1>1. /\ UNCHANGED <<list, open>> /\ stack # <<>> /\ (stack' = <<>> => count' = 3)
      /\ caught \cup Hand(Top) \subseteq caught'
  BY DEF Quiet
<1>2. ASSUME NEW then \in Endings, Finalise(then) PROVE FileInv'
  <2>1. stack' = <<[at |-> "trigger", i |-> ATEXIT_MAX, then |-> then]>>
    BY <1>2 DEF Finalise
  <2>2. \A j \in 1 .. Len(stack') : stack'[j].at = "trigger"
    BY <2>1
  <2> QED BY <1>1, <2>2, FreshFiles
<1>3. CASE UNCHANGED stack
  BY <1>1, <1>3, SameFiles
<1>4. ASSUME NEW a \in Activities, Plain(a), Push(a) PROVE FileInv'
  BY <1>1, <1>4, PushFiles
<1>5. CASE \A j \in 1 .. Len(stack') : Plain(stack'[j])
  BY <1>1, <1>5, FreshFiles
<1>6. CASE Len(stack) > 1 /\ stack' = Tail(stack) /\ Plain(Top)
  <2>1. caught \subseteq caught' /\ stack # <<>>
    BY <1>1
  <2> QED BY <1>1, <1>6, PopPlain
<1> QED BY <1>2, <1>3, <1>4, <1>5, <1>6 DEF Quiet, StackStep

(* The host opens a file: it is in hand, and caught if a handler opens it   *)
(* that broke into what changes the list.                                   *)
LEMMA FopenFiles == ASSUME Shape, FileInv, NEW f \in Files, fopen(f) PROVE FileInv'
<1> DEFINE a == [at |-> "opening", file |-> f]
<1>1. /\ a \in Activities /\ Push(a) /\ f \notin open /\ open' = open \cup {f}
      /\ UNCHANGED list /\ stack # <<>> /\ Plain(Top)
      /\ caught' = IF BrokeIn THEN caught \cup {f} ELSE caught
  BY Kept DEF fopen, UserCode, Plain
<1>2. /\ News(a) = {f} /\ Claim(a) = {f} /\ Hand(a) = {f} /\ ~Breaking(a) /\ Sound(a, open')
      /\ a.at = "opening"
  BY <1>1 DEF News, Claim, Hand, Breaking, Sound
<1> HIDE DEF a
<1>3. /\ stack' # <<>> /\ stack'[1] = a
      /\ \A j \in 1 .. Len(stack') :
           j # 1 => j - 1 \in 1 .. Len(stack) /\ stack'[j] = stack[j - 1]
  BY <1>1, PushedStack
<1>4. stack[1] = Top /\ 1 \in 1 .. Len(stack) /\ Hand(Top) = {}
  BY <1>1, FirstIsTop, EmptyHanded
<1>5. \A j \in 1 .. Len(stack) : Breaking(stack[j]) => f \in caught'
  BY <1>1 DEF BrokeIn, Breaking, Shape, Typed
<1>6. caught \subseteq caught'
  BY <1>1
<1>7. ListInv'
  <2>1. \A j \in 1 .. Len(stack) : Sound(stack[j], open') /\ f \notin Claim(stack[j])
    BY <1>1 DEF FileInv, ListInv, Sound
  <2>2. f \notin Elements(list)
    BY <1>1 DEF FileInv, ListInv
  <2>3. \A j \in 1 .. Len(stack') :
          Sound(stack'[j], open') /\ Claim(stack'[j]) \cap Elements(list) = {}
    BY <1>2, <1>3, <2>1, <2>2 DEF FileInv, ListInv
  <2>4. ASSUME NEW i \in 1 .. Len(stack'), NEW j \in 1 .. Len(stack'), i < j
        PROVE  Claim(stack'[j]) \cap News(stack'[i]) = {}
    <3>1. j # 1 /\ j - 1 \in 1 .. Len(stack) /\ stack'[j] = stack[j - 1]
      BY <1>3, <2>4
    <3>2. CASE i = 1
      BY <1>2, <1>3, <2>1, <3>1, <3>2
    <3>3. CASE i # 1
      <4>1. i - 1 \in 1 .. Len(stack) /\ i - 1 < j - 1 /\ stack'[i] = stack[i - 1]
        BY <1>3, <2>4, <3>3
      <4> QED BY <3>1, <4>1 DEF FileInv, ListInv
    <3> QED BY <3>2, <3>3
  <2> QED BY <1>1, <2>3, <2>4 DEF FileInv, ListInv
<1>8. OpenInv'
  <2>1. open' \subseteq caught' \cup Elements(list') \cup Hand(stack'[1])
    BY <1>1, <1>2, <1>3, <1>4, <1>6 DEF FileInv, OpenInv
  <2>2. \A i \in 1 .. Len(stack') : i # 1 => Hand(stack'[i]) \subseteq caught'
    BY <1>3, <1>4, <1>6 DEF FileInv, OpenInv
  <2>3. \A j \in 1 .. Len(stack') :
          Breaking(stack'[j]) => Elements(list') \subseteq Behind(stack'[j]) \cup caught'
    BY <1>1, <1>2, <1>3, <1>6 DEF FileInv, OpenInv
  <2>4. ASSUME NEW i \in 1 .. Len(stack'), NEW j \in 1 .. Len(stack'), i < j, Breaking(stack'[j])
        PROVE  News(stack'[i]) \subseteq Behind(stack'[j]) \cup caught'
    <3>1. j # 1 /\ j - 1 \in 1 .. Len(stack) /\ stack'[j] = stack[j - 1]
      BY <1>3, <2>4
    <3>2. CASE i = 1
      BY <1>2, <1>3, <1>5, <2>4, <3>1, <3>2
    <3>3. CASE i # 1
      <4>1. i - 1 \in 1 .. Len(stack) /\ i - 1 < j - 1 /\ stack'[i] = stack[i - 1]
        BY <1>3, <2>4, <3>3
      <4> QED BY <1>6, <2>4, <3>1, <4>1 DEF FileInv, OpenInv
    <3> QED BY <3>2, <3>3
  <2> QED BY <1>3, <2>1, <2>2, <2>3, <2>4 DEF OpenInv
<1> QED BY <1>7, <1>8 DEF FileInv

(* The list is read: the file in hand is not on it.                         *)
LEMMA ChainFiles == ASSUME Shape, FileInv, chain PROVE FileInv'
<1> DEFINE a == [at |-> "linking", file |-> Top.file, chain |-> list]
<1>1. /\ a \in Activities /\ stack # <<>> /\ Top.at = "opening" /\ stack' = <<a>> \o Tail(stack)
      /\ UNCHANGED <<list, open, caught>>
  BY ChainStep DEF chain, fileVars
<1>2. stack[1] = Top /\ 1 \in 1 .. Len(stack)
  BY <1>1, FirstIsTop
<1>3. /\ News(Top) = {Top.file} /\ Claim(Top) = {Top.file} /\ Hand(Top) = {Top.file}
  BY <1>1 DEF News, Claim, Hand
<1>4. /\ News(a) = {Top.file} \cup Elements(list) /\ Claim(a) = {} /\ Hand(a) = {Top.file}
      /\ Behind(a) = Elements(list)
  BY DEF News, Claim, Hand, Behind
<1>5. Sound(Top, open) /\ Top.file \notin Elements(list)
  BY <1>2, <1>3 DEF FileInv, ListInv
<1>6. Sound(a, open')
  BY <1>1, <1>3, <1>4, <1>5 DEF Sound, FileInv, ListInv
<1> HIDE DEF a
<1>7. /\ stack' # <<>> /\ stack'[1] = a /\ Len(stack') = Len(stack)
      /\ \A i \in 1 .. Len(stack) : i # 1 => stack'[i] = stack[i]
  BY <1>1, SwappedStack
<1>8. ListInv'
  <2>1. \A j \in 1 .. Len(stack') :
          Sound(stack'[j], open') /\ Claim(stack'[j]) \cap Elements(list) = {}
    BY <1>1, <1>4, <1>6, <1>7 DEF FileInv, ListInv, Sound
  <2>2. ASSUME NEW i \in 1 .. Len(stack'), NEW j \in 1 .. Len(stack'), i < j
        PROVE  Claim(stack'[j]) \cap News(stack'[i]) = {}
    <3>1. j \in 1 .. Len(stack) /\ j # 1 /\ stack'[j] = stack[j]
      BY <1>7, <2>2
    <3>2. CASE i = 1
      BY <1>2, <1>3, <1>4, <1>7, <2>2, <3>1, <3>2 DEF FileInv, ListInv
    <3>3. CASE i # 1
      BY <1>7, <2>2, <3>1, <3>3 DEF FileInv, ListInv
    <3> QED BY <3>2, <3>3
  <2> QED BY <1>1, <2>1, <2>2 DEF FileInv, ListInv
<1>9. OpenInv'
  <2>1. open \subseteq caught \cup Elements(list) \cup Hand(stack'[1])
    BY <1>2, <1>3, <1>4, <1>7 DEF FileInv, OpenInv
  <2>2. \A i \in 1 .. Len(stack') : i # 1 => Hand(stack'[i]) \subseteq caught
    BY <1>7 DEF FileInv, OpenInv
  <2>3. \A j \in 1 .. Len(stack') :
          Breaking(stack'[j]) => Elements(list) \subseteq Behind(stack'[j]) \cup caught
    BY <1>4, <1>7 DEF FileInv, OpenInv
  <2>4. ASSUME NEW i \in 1 .. Len(stack'), NEW j \in 1 .. Len(stack'), i < j, Breaking(stack'[j])
        PROVE  News(stack'[i]) \subseteq Behind(stack'[j]) \cup caught
    <3>1. j \in 1 .. Len(stack) /\ j # 1 /\ stack'[j] = stack[j]
      BY <1>7, <2>4
    <3>2. CASE i = 1
      <4>1. {Top.file} \subseteq Behind(stack[j]) \cup caught
        BY <1>2, <1>3, <2>4, <3>1, <3>2 DEF FileInv, OpenInv
      <4>2. Elements(list) \subseteq Behind(stack[j]) \cup caught
        BY <2>4, <3>1 DEF FileInv, OpenInv
      <4> QED BY <1>4, <1>7, <3>1, <3>2, <4>1, <4>2
    <3>3. CASE i # 1
      BY <1>7, <2>4, <3>1, <3>3 DEF FileInv, OpenInv
    <3> QED BY <3>2, <3>3
  <2> QED BY <1>1, <1>7, <2>1, <2>2, <2>3, <2>4 DEF OpenInv
<1> QED BY <1>8, <1>9 DEF FileInv

(* The file is linked, with what the list was when it was read behind it.   *)
LEMMA LinkFiles == ASSUME Shape, FileInv, link PROVE FileInv'
<1>1. /\ stack # <<>> /\ Top.at = "linking" /\ Top.file \in Files /\ Top.chain \in Seq(Files)
      /\ Len(stack) > 1 /\ stack' = Tail(stack) /\ list' = <<Top.file>> \o Top.chain
      /\ UNCHANGED <<open, caught>>
  BY LinkStep DEF link
<1>2. stack[1] = Top /\ 1 \in 1 .. Len(stack) /\ \A j \in 1 .. Len(stack) : j # 1 => 1 < j
  BY <1>1, FirstIsTop
<1>3. /\ News(Top) = {Top.file} \cup Elements(Top.chain) /\ Hand(Top) = {Top.file}
      /\ Behind(Top) = Elements(Top.chain) /\ Breaking(Top)
  BY <1>1 DEF News, Hand, Behind, Breaking
<1>4. Sound(Top, open)
  BY <1>2 DEF FileInv, ListInv
<1>5. Elements(list') = News(Top) /\ Distinct(list')
  BY <1>1, <1>3, <1>4, Consed DEF Sound
<1>6. Elements(list') \subseteq open
  BY <1>4, <1>5 DEF Sound
<1>7. \A j \in 1 .. Len(stack) : j # 1 => Claim(stack[j]) \cap Elements(list') = {}
  BY <1>2, <1>5 DEF FileInv, ListInv
<1>8. Elements(list) \subseteq Elements(Top.chain) \cup caught
  BY <1>2, <1>3 DEF FileInv, OpenInv
<1>9. Elements(list) \cup Hand(Top) \subseteq Elements(list') \cup caught
  BY <1>3, <1>5, <1>8
<1>10. \A j \in 1 .. Len(stack) : j # 1 /\ Breaking(stack[j]) =>
         Elements(list') \subseteq Behind(stack[j]) \cup caught
  BY <1>2, <1>5 DEF FileInv, OpenInv
<1> QED BY <1>1, <1>5, <1>6, <1>7, <1>9, <1>10, PopFiles

(* Nothing is under the closing, nor over it but what Escape began.         *)
LEMMA ClosingAlone ==
  ASSUME NEW c, c.at = "closing", stack' = <<c>>,
         Distinct(list'), Elements(list') \subseteq open' \cap caught',
         Distinct(c.left), Elements(c.left) \subseteq open',
         Elements(c.left) \cap Elements(list') = {}, open' \subseteq caught' \cup Elements(c.left)
  PROVE  FileInv'
<1>1. Len(stack') = 1 /\ stack'[1] = c /\ stack' # <<>> /\ \A i \in 1 .. Len(stack') : i = 1
  OBVIOUS
<1>2. /\ News(c) = {} /\ Claim(c) = Elements(c.left) /\ Hand(c) = Elements(c.left)
      /\ Behind(c) = {} /\ Sound(c, open')
  BY DEF News, Claim, Hand, Behind, Sound
<1>3. ListInv'
  BY <1>1, <1>2 DEF ListInv
<1>4. OpenInv'
  BY <1>1, <1>2 DEF OpenInv
<1> QED BY <1>3, <1>4 DEF FileInv

LEMMA ClosingFiles == ASSUME Shape, FileInv, __io_final \/ fclose \/ _Exit PROVE FileInv'
<1>1. /\ stack # <<>> /\ Top.at \in {"trigger", "closing"}
      /\ list \in Seq(Files) /\ UNCHANGED caught
  BY DEF __io_final, fclose, _Exit, At, fileVars, Shape, Typed
<1>2. Len(stack) = 1 /\ stack[1] = Top /\ Top \in Activities /\ Tail(stack) = <<>>
  BY <1>1, TopAlone DEF Inner
<1>3. /\ Distinct(list) /\ Elements(list) \subseteq open
      /\ open \subseteq caught \cup Elements(list) \cup Hand(Top)
      /\ Sound(Top, open) /\ Claim(Top) \cap Elements(list) = {}
      /\ Breaking(Top) => Elements(list) \subseteq Behind(Top) \cup caught
  BY <1>1, <1>2 DEF FileInv, ListInv, OpenInv
<1>4. CASE __io_final
  <2> DEFINE c == [at |-> "closing", left |-> list, then |-> Top.then]
  <2>1. stack' = <<c>> /\ c.left = list /\ c.at = "closing" /\ list' = <<>> /\ UNCHANGED open
    BY <1>4 DEF __io_final
  <2> HIDE DEF c
  <2>2. Elements(list') = {} /\ Distinct(list')
    BY <2>1 DEF Elements, Distinct
  <2>3. Hand(Top) = {}
    BY <1>1, <1>4, EmptyHanded DEF __io_final, At
  <2> QED BY <1>1, <1>3, <2>1, <2>2, <2>3, ClosingAlone
<1>5. CASE fclose \/ _Exit
  <2>1. Top.at = "closing"
    BY <1>5 DEF fclose, _Exit, At
  <2> DEFINE l == Top.left
  <2>2. l \in Seq(Files)
    BY <1>2, <2>1, Kinds
  <2>3. /\ Hand(Top) = Elements(l) /\ Claim(Top) = Elements(l) /\ Breaking(Top) /\ Behind(Top) = {}
    BY <2>1 DEF Hand, Claim, Breaking, Behind
  <2>4. /\ Distinct(l) /\ Elements(l) \subseteq open /\ Elements(l) \cap Elements(list) = {}
        /\ Elements(list) \subseteq caught /\ open \subseteq caught \cup Elements(l)
    BY <1>3, <2>1, <2>3 DEF Sound
  <2>5. CASE fclose
    <3> DEFINE c == [at |-> "closing", left |-> Tail(l), then |-> Top.then]
    <3>1. l # <<>> /\ open' = open \ {Head(l)} /\ UNCHANGED list
      BY <2>5 DEF fclose
    <3>2. /\ Elements(l) = {Head(l)} \cup Elements(Tail(l)) /\ Tail(l) \in Seq(Files)
          /\ Distinct(Tail(l)) /\ Head(l) \notin Elements(Tail(l))
      BY <2>2, <2>4, <3>1, Uncons
    <3>3. stack' = <<c>> /\ c.at = "closing" /\ c.left = Tail(l)
      <4>1. stack' = <<[Top EXCEPT !.left = Tail(@)]>> \o <<>>
        BY <1>2, <2>5 DEF fclose
      <4>2. Top = [at |-> "closing", left |-> Top.left, then |-> Top.then]
        BY <1>2, <2>1 DEF Activities
      <4>3. [Top EXCEPT !.left = Tail(Top.left)] = c
        BY <4>2, OneClosed
      <4>4. c.at = "closing" /\ c.left = Tail(l)
        OBVIOUS
      <4>5. stack' = <<c>> \o <<>>
        BY <4>1, <4>3
      <4> HIDE DEF c
      <4>6. stack' = <<c>>
        BY <4>5
      <4> QED BY <4>4, <4>6
    <3> HIDE DEF c, l
    <3> QED BY <1>1, <1>3, <2>4, <3>1, <3>2, <3>3, ClosingAlone
  <2>6. CASE _Exit
    <3>1. l = <<>> /\ stack' = <<>> /\ UNCHANGED <<list, open>>
      BY <2>6 DEF _Exit, fileVars
    <3>2. Elements(l) = {} /\ Len(stack') = 0
      BY <3>1 DEF Elements
    <3> HIDE DEF l
    <3>3. open \subseteq caught
      BY <2>4, <3>2
    <3> QED BY <1>1, <1>3, <3>1, <3>2, <3>3 DEF FileInv, ListInv, OpenInv
  <2> QED BY <1>5, <2>5, <2>6
<1> QED BY <1>4, <1>5

LEMMA NextFiles == ASSUME Shape, FileInv, [Next]_vars PROVE FileInv'
<1>1. Shape'
  BY NextShape
<1>2. CASE Quiet
  BY <1>1, <1>2, QuietFiles
<1>3. CASE atexit
  BY <1>3, SameFiles DEF atexit, fileVars, UserCode
<1>4. CASE __atexit_trigger
  <2>1. /\ Top.at = "trigger" /\ stack # <<>> /\ UNCHANGED <<list, open, caught, count>>
    BY <1>4 DEF __atexit_trigger, At, fileVars
  <2>2. Len(stack) = 1 /\ stack[1] = Top /\ Tail(stack) = <<>> /\ Top \in Activities
    BY <2>1, TopAlone DEF Inner
  <2> DEFINE f == [at |-> "func"]
             t == [Top EXCEPT !.i = NextSlot]
  <2>3. Top = [at |-> "trigger", i |-> Top.i, then |-> Top.then]
    BY <2>1, <2>2 DEF Activities
  <2>4. Plain(f) /\ t.at = "trigger"
    BY <2>3 DEF Plain
  <2>5. stack' = <<f, t>> \o <<>>
    BY <1>4, <2>2 DEF __atexit_trigger
  <2> HIDE DEF f, t
  <2>6. stack' = <<f, t>>
    BY <2>5
  <2>7. stack' # <<>> /\ \A i \in 1 .. Len(stack') : Plain(stack'[i]) \/ stack'[i].at = "trigger"
    BY <2>4, <2>6
  <2>8. Hand(Top) = {}
    BY <2>1, EmptyHanded
  <2> QED BY <1>1, <2>1, <2>7, <2>8, FreshFiles
<1>5. CASE __io_final \/ fclose \/ _Exit
  BY <1>5, ClosingFiles
<1>6. CASE chain \/ link
  BY <1>6, ChainFiles, LinkFiles
<1>7. CASE UNCHANGED vars
  <2>1. ListInv'
    BY <1>7 DEF vars, FileInv, ListInv, Sound
  <2>2. OpenInv'
    BY <1>7 DEF vars, FileInv, OpenInv
  <2> QED BY <2>1, <2>2 DEF FileInv
<1>8. ASSUME NEW f \in Files, fopen(f) PROVE FileInv'
  BY <1>8, FopenFiles
<1> QED BY <1>2, <1>3, <1>4, <1>5, <1>6, <1>7, <1>8, QuietSteps

-----------------------------------------------------------------------------
(* The exit handlers.  Every handler is in one slot or has run once; until  *)
(* the end begins they fill the table from the bottom; and after that the   *)
(* handlers of that time that have not run, m of them, still do.            *)

Registered == used.registrations

TableInv ==
  /\ \A i \in Slots : atexit_funcs[i] # NULL => atexit_funcs[i] <= Registered
  /\ \A i, j \in Slots : atexit_funcs[i] # NULL /\ atexit_funcs[i] = atexit_funcs[j] => i = j
  /\ \A j \in 1 .. Len(ran) : ran[j] <= Registered
  /\ \A i, j \in 1 .. Len(ran) : ran[i] = ran[j] => i = j
  /\ \A i \in Slots, j \in 1 .. Len(ran) : atexit_funcs[i] # ran[j]

Before ==
  /\ ran = <<>> /\ Registered <= ATEXIT_MAX
  /\ \A i \in Slots : atexit_funcs[i] = IF i < Registered THEN i + 1 ELSE NULL

InTable(m) ==
  /\ early \in Nat /\ early <= Registered /\ m <= early /\ m <= ATEXIT_MAX
  /\ \A i \in Slots : i < m => atexit_funcs[i] = i + 1
  /\ \A i \in Slots : i >= m => atexit_funcs[i] = NULL \/ atexit_funcs[i] > early

HaveRun(m) ==
  /\ \A k \in 1 .. early : k > m => \E j \in 1 .. Len(ran) : ran[j] = k
  /\ \A j \in 1 .. Len(ran) : ran[j] > m
  /\ \A i, j \in 1 .. Len(ran) : i < j /\ ran[i] <= early /\ ran[j] <= early => ran[i] > ran[j]

WillRun(m) ==
  /\ \A i \in 1 .. Len(stack) : stack[i].at = "trigger" => stack[i].i >= m
  /\ \A i \in 1 .. Len(stack) : stack[i].at = "closing" => m = 0
  /\ stack = <<>> /\ count < 3 => m = 0

ExitInv ==
  /\ TableInv
  /\ early = NULL => Before
  /\ early # NULL => \E m \in Nat : InTable(m) /\ HaveRun(m) /\ WillRun(m)

LEMMA InitExit == Init => ExitInv
<1> SUFFICES ASSUME Init PROVE ExitInv
  OBVIOUS
<1>1. ran = <<>> /\ Len(ran) = 0 /\ early = NULL /\ Registered = 0
  BY DEF Init, Registered
<1>2. \A i \in Slots : atexit_funcs[i] = NULL /\ i >= 0
  BY LifecycleAssumption DEF Init, Slots
<1>3. \A i \in Slots : ~(i < 0)
  BY DEF Slots
<1> QED BY <1>1, <1>2, <1>3, LifecycleAssumption DEF ExitInv, TableInv, Before

LEMMA Numbers ==
  ASSUME Shape
  PROVE  /\ \A i \in Slots : atexit_funcs[i] = NULL \/ atexit_funcs[i] \in Nat \ {0}
         /\ \A j \in 1 .. Len(ran) : ran[j] \in Nat \ {0}
         /\ ran \in Seq(1 .. REGISTRATIONS) /\ Len(ran) \in Nat
         /\ Registered \in Nat /\ ATEXIT_MAX \in Nat \ {0}
         /\ \A i \in Slots : i \in Nat /\ i < ATEXIT_MAX
<1>1. /\ atexit_funcs \in [Slots -> 1 .. REGISTRATIONS \cup {NULL}]
      /\ ran \in Seq(1 .. REGISTRATIONS) /\ used.registrations \in 0 .. REGISTRATIONS
      /\ REGISTRATIONS \in Nat /\ ATEXIT_MAX \in Nat \ {0}
  BY LifecycleAssumption DEF Shape, Typed
<1>2. \A i \in Slots : atexit_funcs[i] \in 1 .. REGISTRATIONS \cup {NULL}
  BY <1>1
<1>3. Len(ran) \in Nat /\ \A j \in 1 .. Len(ran) : ran[j] \in 1 .. REGISTRATIONS
  BY <1>1
<1>4. \A i \in Slots : i \in Nat /\ i < ATEXIT_MAX
  BY <1>1 DEF Slots
<1> QED BY <1>1, <1>2, <1>3, <1>4 DEF Registered

(* The table is left alone, and so is what there is of the end's beginning. *)
KeptEndings ==
  \A j \in 1 .. Len(stack') : stack'[j].at \in {"trigger", "closing"} =>
    \E i \in 1 .. Len(stack) : stack[i] = stack'[j]

StillExit ==
  /\ UNCHANGED <<atexit_funcs, ran>> /\ used'.registrations = used.registrations
  /\ stack' = <<>> => count' = 3
  /\ \/ UNCHANGED early /\ KeptEndings
     \/ \E then \in Endings : Finalise(then)

LEMMA PushKeeps ==
  ASSUME Shape, NEW a \in Activities, a.at \notin {"trigger", "closing"}, Push(a)
  PROVE  KeptEndings /\ stack' # <<>>
<1>1. /\ stack' # <<>> /\ stack'[1] = a
      /\ \A j \in 1 .. Len(stack') :
           j # 1 => j - 1 \in 1 .. Len(stack) /\ stack'[j] = stack[j - 1]
  BY PushedStack
<1> QED BY <1>1 DEF KeptEndings

LEMMA PopKeeps ==
  ASSUME Shape, Len(stack) > 1, stack' = Tail(stack)
  PROVE  KeptEndings /\ stack' # <<>>
<1>1. /\ stack' # <<>>
      /\ \A i \in 1 .. Len(stack') : i + 1 \in 1 .. Len(stack) /\ stack'[i] = stack[i + 1]
  BY PoppedStack
<1> QED BY <1>1 DEF KeptEndings

LEMMA QuietStill == ASSUME Shape, Quiet PROVE StillExit
<1>1. ASSUME StackStep PROVE KeptEndings
  <2>1. CASE UNCHANGED stack
    BY <2>1 DEF KeptEndings
  <2>2. ASSUME NEW a \in Activities, Plain(a), Push(a) PROVE KeptEndings
    BY <2>2, PushKeeps DEF Plain
  <2>3. CASE Len(stack) > 1 /\ stack' = Tail(stack)
    BY <2>3, PopKeeps
  <2>4. CASE \A j \in 1 .. Len(stack') : Plain(stack'[j])
    BY <2>4 DEF Plain, KeptEndings
  <2> QED BY <1>1, <2>1, <2>2, <2>3, <2>4 DEF StackStep
<1> QED BY <1>1 DEF Quiet, StillExit

LEMMA FopenStill ==
  ASSUME Shape, chain \/ link \/ \E f \in Files : fopen(f)
  PROVE  StillExit
<1>1. ASSUME NEW f \in Files, fopen(f) PROVE StillExit
  <2> DEFINE a == [at |-> "opening", file |-> f]
  <2>1. a \in Activities /\ a.at = "opening" /\ Push(a)
    BY <1>1, Kept DEF fopen
  <2> HIDE DEF a
  <2>2. KeptEndings /\ stack' # <<>>
    BY <2>1, PushKeeps
  <2> QED BY <1>1, <2>2 DEF fopen, exitVars, StillExit
<1>2. CASE chain
  <2> DEFINE a == [at |-> "linking", file |-> Top.file, chain |-> list]
  <2>1. a \in Activities /\ a.at = "linking" /\ stack # <<>> /\ stack' = <<a>> \o Tail(stack)
    BY <1>2, ChainStep
  <2> HIDE DEF a
  <2>2. /\ stack' # <<>> /\ stack'[1] = a /\ Len(stack') = Len(stack)
        /\ \A i \in 1 .. Len(stack) : i # 1 => stack'[i] = stack[i]
    BY <2>1, SwappedStack
  <2>3. KeptEndings
    BY <2>1, <2>2 DEF KeptEndings
  <2> QED BY <1>2, <2>2, <2>3 DEF chain, exitVars, StillExit
<1>3. CASE link
  <2>1. Len(stack) > 1 /\ stack' = Tail(stack)
    BY <1>3, LinkStep
  <2>2. KeptEndings /\ stack' # <<>>
    BY <2>1, PopKeeps
  <2> QED BY <1>3, <2>2 DEF link, exitVars, StillExit
<1> QED BY <1>1, <1>2, <1>3

LEMMA StillExits == ASSUME Shape, Shape', ExitInv, StillExit PROVE ExitInv'
<1> USE LifecycleAssumption
<1>1. UNCHANGED <<atexit_funcs, ran, Registered>> /\ (stack' = <<>> => count' = 3)
  BY DEF StillExit, Registered
<1>2. TableInv'
  BY <1>1 DEF ExitInv, TableInv
<1>3. ASSUME UNCHANGED early, KeptEndings PROVE ExitInv'
  <2>1. CASE early = NULL
    BY <1>1, <1>2, <1>3, <2>1 DEF ExitInv, Before
  <2>2. CASE early # NULL
    <3>1. PICK m \in Nat : InTable(m) /\ HaveRun(m) /\ WillRun(m)
      BY <2>2 DEF ExitInv
    <3>2. InTable(m)' /\ HaveRun(m)'
      BY <1>1, <1>3, <3>1 DEF InTable, HaveRun
    <3>3. WillRun(m)'
      BY <1>1, <1>3, <3>1 DEF WillRun, KeptEndings
    <3> QED BY <1>2, <1>3, <2>2, <3>2, <3>3 DEF ExitInv
  <2> QED BY <2>1, <2>2
<1>4. ASSUME NEW then \in Endings, Finalise(then) PROVE ExitInv'
  <2>1. /\ stack' = <<[at |-> "trigger", i |-> ATEXIT_MAX, then |-> then]>>
        /\ early' = IF early = NULL THEN Registered ELSE early
    BY <1>4 DEF Finalise, Registered
  <2>2. stack' # <<>> /\ \A i \in 1 .. Len(stack') : stack'[i].at = "trigger" /\ stack'[i].i = ATEXIT_MAX
    BY <2>1
  <2>3. CASE early = NULL
    <3>1. Before /\ early' = Registered
      BY <2>1, <2>3 DEF ExitInv
    <3>2. InTable(Registered)'
      BY <1>1, <3>1, Numbers DEF Before, InTable
    <3>3. HaveRun(Registered)'
      <4>1. ran' = <<>> /\ Len(ran') = 0
        BY <1>1, <3>1 DEF Before
      <4>2. \A k \in 1 .. Registered : ~(k > Registered)
        BY Numbers
      <4> QED BY <1>1, <3>1, <4>1, <4>2 DEF HaveRun
    <3>4. WillRun(Registered)'
      BY <1>1, <2>2, <3>1, Numbers DEF Before, WillRun
    <3>5. Registered \in Nat /\ early' # NULL
      BY <3>1, Numbers
    <3> QED BY <1>1, <1>2, <3>2, <3>3, <3>4, <3>5 DEF ExitInv
  <2>4. CASE early # NULL
    <3>1. PICK m \in Nat : InTable(m) /\ HaveRun(m) /\ WillRun(m)
      BY <2>4 DEF ExitInv
    <3>2. InTable(m)' /\ HaveRun(m)'
      BY <1>1, <2>1, <2>4, <3>1 DEF InTable, HaveRun
    <3>3. WillRun(m)'
      BY <2>2, <3>1 DEF WillRun, InTable
    <3> QED BY <1>2, <2>1, <2>4, <3>2, <3>3 DEF ExitInv
  <2> QED BY <2>3, <2>4
<1> QED BY <1>3, <1>4 DEF StillExit

LEMMA AtexitExit == ASSUME Shape, ExitInv, atexit PROVE ExitInv'
<1> USE LifecycleAssumption
<1> DEFINE n == Registered
           s == FirstFree
<1>1. /\ atexit_funcs' = [atexit_funcs EXCEPT ![s] = n + 1] /\ n \in Nat
      /\ FreeSlots # {} /\ UNCHANGED <<stack, count, early, ran>>
  BY Numbers DEF atexit, Registered
<1>2. Registered' = n + 1
  BY CountedShape DEF atexit, Registered, Shape
<1>3. s \in Slots /\ atexit_funcs[s] = NULL /\ \A j \in Slots : atexit_funcs[j] = NULL => s <= j
  BY <1>1, FreeFacts
<1>4. \A i \in Slots : atexit_funcs'[i] = IF i = s THEN n + 1 ELSE atexit_funcs[i]
  BY <1>1 DEF Shape, Typed
<1> HIDE DEF n, s
<1>5. n + 1 # NULL /\ n + 1 > n
  BY <1>1
<1>6. n = Registered
  BY DEF n
<1>7. TableInv'
  <2>1. \A i \in Slots : atexit_funcs'[i] # NULL => atexit_funcs'[i] <= n + 1
    BY <1>1, <1>4, <1>5, <1>6, Numbers DEF ExitInv, TableInv
  <2>2. \A i, j \in Slots : atexit_funcs'[i] # NULL /\ atexit_funcs'[i] = atexit_funcs'[j] => i = j
    BY <1>1, <1>4, <1>5, <1>6, Numbers DEF ExitInv, TableInv
  <2>3. \A j \in 1 .. Len(ran) : ran[j] <= n + 1 /\ ran[j] # n + 1
    BY <1>1, <1>6, Numbers DEF ExitInv, TableInv
  <2>4. \A i \in Slots, j \in 1 .. Len(ran) : atexit_funcs'[i] # ran[j]
    BY <1>4, <2>3 DEF ExitInv, TableInv
  <2> QED BY <1>1, <1>2, <2>1, <2>2, <2>3, <2>4 DEF ExitInv, TableInv
<1>8. CASE early = NULL
  <2>1. Before
    BY <1>8 DEF ExitInv
  <2>2. s = n /\ n < ATEXIT_MAX
    <3>1. ~(s < n)
      BY <1>1, <1>3, <1>6, <2>1, Numbers DEF Before
    <3>2. s \in Nat /\ s < ATEXIT_MAX
      BY <1>3, Numbers
    <3>3. n \in Slots
      BY <1>1, <3>1, <3>2 DEF Slots
    <3>4. atexit_funcs[n] = NULL
      BY <1>1, <1>6, <2>1, <3>3 DEF Before
    <3>5. s <= n
      BY <1>3, <3>3, <3>4
    <3> QED BY <1>1, <3>1, <3>2, <3>5
  <2>3. \A i \in Slots : atexit_funcs'[i] = IF i < n + 1 THEN i + 1 ELSE NULL
    BY <1>1, <1>4, <1>6, <2>1, <2>2, Numbers DEF Before
  <2>4. Before'
    BY <1>1, <1>2, <2>1, <2>2, <2>3, Numbers DEF Before
  <2> QED BY <1>1, <1>7, <1>8, <2>4 DEF ExitInv
<1>9. CASE early # NULL
  <2>1. PICK m \in Nat : InTable(m) /\ HaveRun(m) /\ WillRun(m)
    BY <1>9 DEF ExitInv
  <2>2. ~(s < m)
    BY <1>3, <2>1, Numbers DEF InTable
  <2>3. InTable(m)'
    BY <1>1, <1>2, <1>4, <1>6, <2>1, <2>2, Numbers DEF InTable
  <2>4. HaveRun(m)' /\ WillRun(m)'
    BY <1>1, <2>1 DEF HaveRun, WillRun
  <2> QED BY <1>1, <1>7, <1>9, <2>3, <2>4 DEF ExitInv
<1> QED BY <1>8, <1>9

(* The loop comes to a slot: of the handlers that were there before the end *)
(* began it can only be the last.                                           *)
LEMMA TriggerExit == ASSUME Shape, Shape', ExitInv, __atexit_trigger PROVE ExitInv'
<1> USE LifecycleAssumption
<1> DEFINE s == NextSlot
           v == atexit_funcs[s]
<1>1. stack # <<>> /\ Top.at = "trigger" /\ Pending # {} /\ UNCHANGED <<count, early, used>>
  BY DEF __atexit_trigger, At
<1>2. Len(stack) = 1 /\ stack[1] = Top /\ Tail(stack) = <<>> /\ Top \in Activities
  BY <1>1, TopAlone DEF Inner
<1>3. /\ s \in Slots /\ s < Top.i /\ v # NULL /\ s \in Nat /\ Top.i \in Nat
      /\ \A j \in Slots : j < Top.i /\ atexit_funcs[j] # NULL => j <= s
  BY <1>1, <1>2, SlotFacts, Kinds, Numbers DEF At
<1>4. /\ \A i \in Slots : atexit_funcs'[i] = IF i = s THEN NULL ELSE atexit_funcs[i]
      /\ v \in 1 .. REGISTRATIONS
  BY <1>3 DEF __atexit_trigger, Shape, Typed
<1>5. /\ ran \in Seq(1 .. REGISTRATIONS) /\ ran' = Append(ran, v)
      /\ Len(ran') = Len(ran) + 1 /\ Len(ran) \in Nat /\ ran'[Len(ran) + 1] = v
      /\ \A j \in 1 .. Len(ran) : ran'[j] = ran[j]
  BY <1>4, SMTT(40) DEF __atexit_trigger, Shape, Typed
<1>6. \A j \in 1 .. Len(ran') : \/ j = Len(ran) + 1 /\ ran'[j] = v
                                \/ j \in 1 .. Len(ran) /\ ran'[j] = ran[j]
  BY <1>5
<1>7. early # NULL
  BY <1>1, <1>2 DEF Shape, Progress
<1>8. PICK m \in Nat : InTable(m) /\ HaveRun(m) /\ WillRun(m)
  BY <1>7 DEF ExitInv
<1>9. Top.i >= m
  BY <1>1, <1>2, <1>8 DEF WillRun
<1>10. stack' # <<>> /\ \A i \in 1 .. Len(stack') :
         stack'[i].at # "closing" /\ (stack'[i].at = "trigger" => stack'[i].i = s)
  <2> DEFINE f == [at |-> "func"]
             t == [Top EXCEPT !.i = NextSlot]
  <2>1. Top = [at |-> "trigger", i |-> Top.i, then |-> Top.then]
    BY <1>1, <1>2 DEF Activities
  <2>2. f.at = "func" /\ t.at = "trigger" /\ t.i = s
    BY <2>1
  <2>3. stack' = <<f, t>> \o <<>>
    BY <1>2 DEF __atexit_trigger
  <2> HIDE DEF f, t
  <2>4. stack' = <<f, t>>
    BY <2>3
  <2> HIDE DEF s
  <2> QED BY <2>2, <2>4
<1>11. Registered' = Registered
  BY <1>1 DEF Registered
<1> HIDE DEF s
<1>12. TableInv'
  <2>1. \A i \in Slots : atexit_funcs'[i] # NULL => atexit_funcs'[i] <= Registered
    BY <1>4 DEF ExitInv, TableInv
  <2>2. \A i, j \in Slots : atexit_funcs'[i] # NULL /\ atexit_funcs'[i] = atexit_funcs'[j] => i = j
    BY <1>4 DEF ExitInv, TableInv
  <2>3. \A j \in 1 .. Len(ran) : ran[j] # v /\ v <= Registered
    BY <1>3 DEF ExitInv, TableInv
  <2>4. v <= Registered
    BY <1>3 DEF ExitInv, TableInv
  <2>5. \A i \in Slots : atexit_funcs'[i] # v
    BY <1>3, <1>4 DEF ExitInv, TableInv
  <2>6. \A i \in Slots, j \in 1 .. Len(ran) : atexit_funcs'[i] # ran[j]
    BY <1>4, Numbers DEF ExitInv, TableInv
  <2> HIDE DEF v
  <2>7. \A j \in 1 .. Len(ran') : ran'[j] <= Registered
    BY <1>6, <2>4 DEF ExitInv, TableInv
  <2>8. \A i, j \in 1 .. Len(ran') : ran'[i] = ran'[j] => i = j
    BY <1>6, <2>3 DEF ExitInv, TableInv
  <2>9. \A i \in Slots, j \in 1 .. Len(ran') : atexit_funcs'[i] # ran'[j]
    BY <1>6, <2>5, <2>6
  <2> QED BY <1>11, <2>1, <2>2, <2>7, <2>8, <2>9 DEF TableInv
<1>13. v \in Nat /\ early \in Nat /\ m \in Nat /\ m <= ATEXIT_MAX /\ ATEXIT_MAX \in Nat
  BY <1>4, <1>8 DEF InTable
<1>14. CASE s >= m
  <2>1. v > early
    BY <1>3, <1>8, <1>14 DEF InTable
  <2>2. v > m
    BY <1>8, <1>13, <2>1 DEF InTable
  <2>3. InTable(m)'
    <3>1. \A i \in Slots : i < m => atexit_funcs'[i] = i + 1
      <4> SUFFICES ASSUME NEW i \in Slots, i < m PROVE atexit_funcs'[i] = i + 1
        OBVIOUS
      <4>1. i # s
        BY <1>3, <1>14, Numbers
      <4> QED BY <1>4, <1>8, <4>1 DEF InTable
    <3>2. \A i \in Slots : i >= m => atexit_funcs'[i] = NULL \/ atexit_funcs'[i] > early
      BY <1>4, <1>8 DEF InTable
    <3> QED BY <1>1, <1>8, <1>11, <3>1, <3>2 DEF InTable
  <2> HIDE DEF v
  <2>4. \A k \in 1 .. early : k > m => \E j \in 1 .. Len(ran') : ran'[j] = k
    <3> SUFFICES ASSUME NEW k \in 1 .. early, k > m PROVE \E j \in 1 .. Len(ran') : ran'[j] = k
      OBVIOUS
    <3>1. PICK j \in 1 .. Len(ran) : ran[j] = k
      BY <1>8 DEF HaveRun
    <3> QED BY <1>5, <3>1
  <2>5. \A j \in 1 .. Len(ran') : ran'[j] > m
    BY <1>6, <1>8, <2>2 DEF HaveRun
  <2>6. \A j \in 1 .. Len(ran') : ran'[j] <= early => j \in 1 .. Len(ran) /\ ran'[j] = ran[j]
    BY <1>6, <1>13, <2>1
  <2>7. \A i, j \in 1 .. Len(ran') :
          i < j /\ ran'[i] <= early /\ ran'[j] <= early => ran'[i] > ran'[j]
    BY <1>8, <2>6 DEF HaveRun
  <2>8. HaveRun(m)'
    BY <1>1, <2>4, <2>5, <2>7 DEF HaveRun
  <2>9. WillRun(m)'
    BY <1>10, <1>14 DEF WillRun
  <2> QED BY <1>1, <1>7, <1>12, <2>3, <2>8, <2>9 DEF ExitInv
<1>15. CASE ~(s >= m)
  <2> DEFINE l == m - 1
  <2>1. l \in Nat /\ l \in Slots /\ l < Top.i /\ s <= l
    BY <1>3, <1>9, <1>13, <1>15 DEF Slots
  <2>2. atexit_funcs[l] = l + 1 /\ l + 1 # NULL
    BY <1>8, <1>13, <2>1 DEF InTable
  <2>3. s = l /\ v = m
    <3>1. l <= s
      BY <1>3, <2>1, <2>2
    <3>2. s = l
      BY <1>3, <2>1, <3>1
    <3> QED BY <1>13, <2>2, <3>2
  <2> HIDE DEF v
  <2>4. m <= early
    BY <1>8 DEF InTable
  <2>5. InTable(l)'
    <3>1. \A i \in Slots : i < l => atexit_funcs'[i] = i + 1
      <4> SUFFICES ASSUME NEW i \in Slots, i < l PROVE atexit_funcs'[i] = i + 1
        OBVIOUS
      <4>1. i < m /\ i # s
        BY <1>13, <2>3, Numbers
      <4> QED BY <1>4, <1>8, <4>1 DEF InTable
    <3>2. \A i \in Slots : i >= l => atexit_funcs'[i] = NULL \/ atexit_funcs'[i] > early
      <4> SUFFICES ASSUME NEW i \in Slots, i >= l, i # l
                   PROVE  atexit_funcs'[i] = NULL \/ atexit_funcs'[i] > early
        BY <1>4, <2>3
      <4>1. i >= m
        BY <1>13, Numbers
      <4> QED BY <1>4, <1>8, <2>3, <4>1 DEF InTable
    <3> QED BY <1>1, <1>8, <1>11, <1>13, <2>4, <3>1, <3>2 DEF InTable
  <2>6. \A k \in 1 .. early : k > l => \E j \in 1 .. Len(ran') : ran'[j] = k
    <3> SUFFICES ASSUME NEW k \in 1 .. early, k > l PROVE \E j \in 1 .. Len(ran') : ran'[j] = k
      OBVIOUS
    <3>1. CASE k = m
      BY <1>5, <2>3, <3>1
    <3>2. CASE k # m
      <4>1. k > m
        BY <1>13, <3>2
      <4>2. PICK j \in 1 .. Len(ran) : ran[j] = k
        BY <1>8, <4>1 DEF HaveRun
      <4> QED BY <1>5, <4>2
    <3> QED BY <3>1, <3>2
  <2>7. \A j \in 1 .. Len(ran') : ran'[j] > l
    <3>1. \A j \in 1 .. Len(ran) : ran[j] > m /\ ran[j] \in Nat
      BY <1>8, Numbers DEF HaveRun
    <3>2. \A x \in Nat : x > m => x > l
      BY <1>13
    <3>3. m > l
      BY <1>13
    <3> HIDE DEF l
    <3> QED BY <1>6, <2>3, <3>1, <3>2, <3>3
  <2>8. \A i, j \in 1 .. Len(ran') :
          i < j /\ ran'[i] <= early /\ ran'[j] <= early => ran'[i] > ran'[j]
    <3> SUFFICES ASSUME NEW i \in 1 .. Len(ran'), NEW j \in 1 .. Len(ran'), i < j,
                        ran'[i] <= early, ran'[j] <= early
                 PROVE  ran'[i] > ran'[j]
      OBVIOUS
    <3>1. i \in 1 .. Len(ran) /\ ran'[i] = ran[i]
      BY <1>5, <1>6
    <3>2. CASE j = Len(ran) + 1
      BY <1>5, <1>8, <2>3, <3>1, <3>2 DEF HaveRun
    <3>3. CASE j # Len(ran) + 1
      BY <1>6, <1>8, <3>1, <3>3 DEF HaveRun
    <3> QED BY <3>2, <3>3
  <2>9. HaveRun(l)'
    BY <1>1, <2>6, <2>7, <2>8 DEF HaveRun
  <2>10. WillRun(l)'
    BY <1>10, <2>1, <2>3 DEF WillRun
  <2> HIDE DEF l
  <2> QED BY <1>1, <1>7, <1>12, <2>1, <2>5, <2>9, <2>10 DEF ExitInv
<1> QED BY <1>14, <1>15

LEMMA ClosingExit == ASSUME Shape, ExitInv, __io_final \/ fclose \/ _Exit PROVE ExitInv'
<1> USE LifecycleAssumption
<1>1. /\ stack # <<>> /\ Top.at \in {"trigger", "closing"}
      /\ UNCHANGED <<exitVars, count, used>>
  BY DEF __io_final, fclose, _Exit, At
<1>2. Len(stack) = 1 /\ stack[1] = Top /\ Tail(stack) = <<>> /\ Top \in Activities
  BY <1>1, TopAlone DEF Inner
<1>3. UNCHANGED <<atexit_funcs, early, ran, Registered>>
  BY <1>1 DEF exitVars, Registered
<1>4. early # NULL
  BY <1>1, <1>2 DEF Shape, Progress
<1>5. PICK m \in Nat : InTable(m) /\ HaveRun(m) /\ WillRun(m)
  BY <1>4 DEF ExitInv
<1>6. m = 0
  <2>1. CASE Top.at = "closing"
    BY <1>2, <1>5, <2>1 DEF WillRun
  <2>2. CASE Top.at = "trigger"
    <3>1. Pending = {}
      BY <2>2 DEF __io_final, fclose, _Exit, At
    <3>2. Top.i >= m /\ Top.i \in Nat
      BY <1>2, <1>5, <2>2, Kinds DEF WillRun
    <3> SUFFICES ASSUME m # 0 PROVE FALSE
      OBVIOUS
    <3>3. m - 1 \in Slots /\ m - 1 < Top.i
      BY <1>5, <3>2 DEF InTable, Slots
    <3>4. atexit_funcs[m - 1] = m
      BY <1>5, <3>3 DEF InTable
    <3> QED BY <3>1, <3>3, <3>4 DEF Pending
  <2> QED BY <1>1, <2>1, <2>2
<1>7. TableInv' /\ InTable(0)' /\ HaveRun(0)'
  BY <1>3, <1>5, <1>6 DEF ExitInv, TableInv, InTable, HaveRun
<1>8. WillRun(0)'
  <2>1. CASE stack' = <<>>
    BY <2>1 DEF WillRun
  <2>2. CASE __io_final
    <3> DEFINE c == [at |-> "closing", left |-> list, then |-> Top.then]
    <3>1. stack' = <<c>> /\ c.at = "closing"
      BY <2>2 DEF __io_final
    <3> HIDE DEF c
    <3> QED BY <3>1 DEF WillRun
  <2>3. CASE fclose
    <3> DEFINE c == [at |-> "closing", left |-> Tail(Top.left), then |-> Top.then]
    <3>1. Top.at = "closing"
      BY <2>3 DEF fclose, At
    <3>2. Top = [at |-> "closing", left |-> Top.left, then |-> Top.then]
      BY <1>2, <3>1 DEF Activities
    <3>3. [Top EXCEPT !.left = Tail(Top.left)] = c
      BY <3>2, OneClosed
    <3>4. stack' = <<c>> \o <<>> /\ c.at = "closing"
      BY <1>2, <2>3, <3>3 DEF fclose
    <3> HIDE DEF c
    <3>5. stack' = <<c>>
      BY <3>4
    <3> QED BY <3>4, <3>5 DEF WillRun
  <2> QED BY <2>1, <2>2, <2>3 DEF _Exit
<1> QED BY <1>3, <1>4, <1>7, <1>8 DEF ExitInv

LEMMA NextExit == ASSUME Shape, ExitInv, [Next]_vars PROVE ExitInv'
<1>1. Shape'
  BY NextShape
<1>2. CASE Quiet
  BY <1>1, <1>2, QuietStill, StillExits
<1>3. CASE atexit
  BY <1>3, AtexitExit
<1>4. CASE __atexit_trigger
  BY <1>1, <1>4, TriggerExit
<1>5. CASE __io_final \/ fclose \/ _Exit
  BY <1>5, ClosingExit
<1>6. ASSUME UNCHANGED <<stack, atexit_funcs, early, ran, count, used>> PROVE ExitInv'
  <2>1. UNCHANGED Registered
    BY <1>6 DEF Registered
  <2> QED BY <1>6, <2>1 DEF ExitInv, TableInv, Before, InTable, HaveRun, WillRun
<1>7. CASE UNCHANGED vars
  BY <1>6, <1>7 DEF vars
<1>8. CASE chain \/ link \/ \E f \in Files : fopen(f)
  BY <1>1, <1>8, FopenStill, StillExits
<1> QED BY <1>2, <1>3, <1>4, <1>5, <1>7, <1>8, QuietSteps

-----------------------------------------------------------------------------
(* The signals.  What is being handled is blocked, so that its handler is   *)
(* not called; SIGILL alone, which is ignored by default, is unblocked when *)
(* it comes while blocked.                                                  *)

Handles(i) == stack[i].at = "signal"

SignalInv ==
  /\ \A i \in 1 .. Len(stack) : Handles(i) /\ stack[i].sig # "SIGILL" => stack[i].sig \in blocked
  /\ \A i, j \in 1 .. Len(stack) :
       Handles(i) /\ stack[i] = stack[j] /\ stack[i].sig # "SIGILL" => i = j
  /\ stack # <<>> /\ stack[Len(stack)].at = "main" =>
       \A sig \in blocked : \E i \in 1 .. Len(stack) : stack[i] = [at |-> "signal", sig |-> sig]

LEMMA SignalsFollow == ASSUME Shape, SignalInv PROVE SignalsHandled
<1>1. DOMAIN stack = 1 .. Len(stack)
  BY DEF Shape, Typed
<1> QED BY <1>1 DEF SignalInv, SignalsHandled, NotReentered, BlockedWhileHandled, Handles

LEMMA InitSignals == Init => SignalInv
<1> SUFFICES ASSUME Init PROVE SignalInv
  OBVIOUS
<1>1. stack = <<[at |-> "start"]>>
  BY DEF Init
<1>2. \A i \in 1 .. Len(stack) : stack[i].at = "start"
  BY <1>1
<1>3. Len(stack) \in 1 .. Len(stack)
  BY <1>1
<1> QED BY <1>2, <1>3 DEF SignalInv, Handles

(* The stack is begun afresh, and the program proper is over.               *)
LEMMA FreshSignals ==
  ASSUME Shape', \A i \in 1 .. Len(stack') : stack'[i].at \notin {"signal", "main"}
  PROVE  SignalInv'
<1>1. stack' \in Seq(Activities)
  BY DEF Shape, Typed
<1>2. stack' # <<>> => Len(stack') \in 1 .. Len(stack')
  BY <1>1
<1> QED BY <1>2 DEF SignalInv, Handles

LEMMA FinaliseSignals ==
  ASSUME Shape', NEW then \in Endings, Finalise(then)
  PROVE  SignalInv'
<1>1. stack' = <<[at |-> "trigger", i |-> ATEXIT_MAX, then |-> then]>>
  BY DEF Finalise
<1>2. \A i \in 1 .. Len(stack') : stack'[i].at = "trigger"
  BY <1>1
<1> QED BY <1>2, FreshSignals

LEMMA EnvErrorSignals == ASSUME Shape, Shape', _env_error PROVE SignalInv'
<1>1. CASE count + 1 < 3
  BY <1>1, FinaliseSignals DEF _env_error, Endings
<1>2. CASE ~(count + 1 < 3)
  <2>1. stack' = <<>>
    BY <1>2 DEF _env_error
  <2>2. Len(stack') = 0
    BY <2>1
  <2> QED BY <2>2, FreshSignals
<1> QED BY <1>1, <1>2

LEMMA PushSignals ==
  ASSUME Shape, Shape', SignalInv, stack # <<>>, NEW sig \in Signals,
         Chosen(sig) = "user", Push([at |-> "signal", sig |-> sig]),
         blocked' = blocked \cup {sig}
  PROVE  SignalInv'
<1> DEFINE a == [at |-> "signal", sig |-> sig]
<1>1. stack \in Seq(Activities) /\ a \in Activities /\ a.at = "signal" /\ a.sig = sig
  BY Kept DEF Shape, Typed
<1>2. /\ Len(stack') = Len(stack) + 1 /\ Len(stack) \in Nat \ {0} /\ stack'[1] = a
      /\ \A i \in 1 .. Len(stack) : stack'[i + 1] = stack[i]
  BY <1>1, Pushed DEF Push
<1>3. sig \notin blocked
  BY LifecycleAssumption DEF Chosen, Default
<1>4. \A i \in 1 .. Len(stack) : Handles(i) /\ stack[i].sig # "SIGILL" => stack[i] # a
  BY <1>1, <1>3 DEF SignalInv
<1> HIDE DEF a
<1>5. \A j \in 1 .. Len(stack') : j # 1 => j - 1 \in 1 .. Len(stack) /\ stack'[j] = stack[j - 1]
  <2> SUFFICES ASSUME NEW j \in 1 .. Len(stack'), j # 1
               PROVE  j - 1 \in 1 .. Len(stack) /\ stack'[j] = stack[j - 1]
    OBVIOUS
  <2>1. j - 1 \in 1 .. Len(stack) /\ (j - 1) + 1 = j
    BY <1>2
  <2> QED BY <1>2, <2>1
<1>6. \A i \in 1 .. Len(stack') : Handles(i)' /\ stack'[i].sig # "SIGILL" => stack'[i].sig \in blocked'
  BY <1>1, <1>2, <1>5 DEF SignalInv, Handles
<1>7. \A i, j \in 1 .. Len(stack') :
        Handles(i)' /\ stack'[i] = stack'[j] /\ stack'[i].sig # "SIGILL" => i = j
  <2> SUFFICES ASSUME NEW i \in 1 .. Len(stack'), NEW j \in 1 .. Len(stack'),
                      Handles(i)', stack'[i] = stack'[j], stack'[i].sig # "SIGILL"
               PROVE  i = j
    OBVIOUS
  <2>1. CASE i = 1 \/ j = 1
    BY <1>1, <1>2, <1>4, <1>5, <2>1 DEF Handles
  <2>2. CASE i # 1 /\ j # 1
    <3>1. /\ i - 1 \in 1 .. Len(stack) /\ stack'[i] = stack[i - 1]
          /\ j - 1 \in 1 .. Len(stack) /\ stack'[j] = stack[j - 1]
      BY <1>5, <2>2
    <3>2. i - 1 = j - 1
      BY <3>1, ZenonT(40) DEF SignalInv, Handles
    <3> QED BY <3>2
  <2> QED BY <2>1, <2>2
<1>8. ASSUME stack'[Len(stack')].at = "main", NEW s \in blocked'
      PROVE  \E i \in 1 .. Len(stack') : stack'[i] = [at |-> "signal", sig |-> s]
  <2>1. CASE s = sig
    BY <1>2, <2>1 DEF a
  <2>2. CASE s # sig
    <3>1. stack[Len(stack)].at = "main" /\ s \in blocked
      BY <1>2, <1>8, <2>2
    <3>2. PICK i \in 1 .. Len(stack) : stack[i] = [at |-> "signal", sig |-> s]
      BY <3>1 DEF SignalInv
    <3>3. i + 1 \in 1 .. Len(stack')
      BY <1>2
    <3> QED BY <1>2, <3>2, <3>3
  <2> QED BY <2>1, <2>2
<1> QED BY <1>6, <1>7, <1>8 DEF SignalInv

LEMMA RaiseSignals ==
  ASSUME Shape, Shape', SignalInv, stack # <<>>, NEW sig \in Signals, Raise(sig)
  PROVE  SignalInv'
<1>1. CASE /\ Chosen(sig) = NULL /\ blocked' = blocked \ {sig}
           /\ UNCHANGED <<stack, env, count, exitVars, list, open, handlers>>
  <2>1. sig = "SIGILL" \/ sig \notin blocked
    BY <1>1, LifecycleAssumption DEF Chosen, Default, Signals
  <2> QED BY <1>1, <2>1 DEF SignalInv, Handles
<1>2. CASE Chosen(sig) = "user" /\ Push([at |-> "signal", sig |-> sig])
           /\ blocked' = blocked \cup {sig}
  BY <1>2, PushSignals
<1>3. CASE _env_error
  BY <1>3, EnvErrorSignals
<1>4. CASE Finalise("_Exit")
  BY <1>4, FinaliseSignals DEF Endings
<1> QED BY <1>1, <1>2, <1>3, <1>4, RaiseCases

LEMMA PopSignals ==
  ASSUME Shape, Shape', SignalInv, Len(stack) > 1, stack' = Tail(stack),
         blocked' = IF Top.at = "signal" THEN blocked \ {Top.sig} ELSE blocked
  PROVE  SignalInv'
<1>1. /\ stack \in Seq(Activities) /\ stack # <<>> /\ stack' = Tail(stack) /\ Len(stack) > 1
      /\ Top = stack[1] /\ blocked' = IF Top.at = "signal" THEN blocked \ {Top.sig} ELSE blocked
  BY DEF Shape, Typed, Top
<1>2. /\ Len(stack') = Len(stack) - 1 /\ Len(stack) \in Nat \ {0, 1}
      /\ \A i \in 1 .. Len(stack') : i + 1 \in 1 .. Len(stack) /\ stack'[i] = stack[i + 1]
  BY <1>1, Popped
<1>3. \A i \in 1 .. Len(stack') : Handles(i)' /\ stack'[i].sig # "SIGILL" => stack'[i].sig \in blocked'
  <2> SUFFICES ASSUME NEW i \in 1 .. Len(stack'), Handles(i)', stack'[i].sig # "SIGILL"
               PROVE  stack'[i].sig \in blocked'
    OBVIOUS
  <2>1. i + 1 \in 1 .. Len(stack) /\ stack'[i] = stack[i + 1] /\ i + 1 # 1 /\ 1 \in 1 .. Len(stack)
    BY <1>2
  <2>2. stack[i + 1].sig \in blocked
    BY <2>1 DEF SignalInv, Handles
  <2>3. CASE Top.at = "signal" /\ Top.sig = stack[i + 1].sig
    <3>1. Top = stack[i + 1]
      BY <1>1, <2>1, <2>3, Kinds DEF Handles
    <3> QED BY <1>1, <2>1, <3>1 DEF SignalInv, Handles
  <2>4. CASE ~(Top.at = "signal" /\ Top.sig = stack[i + 1].sig)
    BY <1>1, <2>1, <2>2, <2>4
  <2> QED BY <2>3, <2>4
<1>4. \A i, j \in 1 .. Len(stack') :
        Handles(i)' /\ stack'[i] = stack'[j] /\ stack'[i].sig # "SIGILL" => i = j
  <2> SUFFICES ASSUME NEW i \in 1 .. Len(stack'), NEW j \in 1 .. Len(stack'),
                      Handles(i)', stack'[i] = stack'[j], stack'[i].sig # "SIGILL"
               PROVE  i = j
    OBVIOUS
  <2>1. i + 1 = j + 1
    BY <1>2 DEF SignalInv, Handles
  <2> QED BY <2>1
<1>5. ASSUME stack'[Len(stack')].at = "main", NEW s \in blocked'
      PROVE  \E i \in 1 .. Len(stack') : stack'[i] = [at |-> "signal", sig |-> s]
  <2>1. Len(stack') \in 1 .. Len(stack') /\ Len(stack') + 1 = Len(stack)
    BY <1>2
  <2>2. stack[Len(stack)].at = "main" /\ s \in blocked
    BY <1>1, <1>2, <1>5, <2>1
  <2>3. PICK i \in 1 .. Len(stack) : stack[i] = [at |-> "signal", sig |-> s]
    BY <1>1, <2>2 DEF SignalInv
  <2>4. i # 1
    BY <1>1, <1>5, <2>3
  <2>5. i - 1 \in 1 .. Len(stack') /\ (i - 1) + 1 = i
    BY <1>2, <2>4
  <2> QED BY <1>2, <2>3, <2>5
<1> QED BY <1>3, <1>4, <1>5 DEF SignalInv

(* A call of fopen handles no signal.                                       *)
LEMMA FopenSignals ==
  ASSUME Shape, Shape', SignalInv, chain \/ link \/ \E f \in Files : fopen(f)
  PROVE  SignalInv'
<1>1. ASSUME NEW f \in Files, fopen(f) PROVE SignalInv'
  <2> DEFINE a == [at |-> "opening", file |-> f]
  <2>1. a \in Activities /\ a.at = "opening" /\ Push(a) /\ blocked' = blocked /\ stack # <<>>
    BY <1>1, Kept DEF fopen, signalVars, UserCode
  <2> HIDE DEF a
  <2>2. /\ stack' # <<>> /\ stack'[1] = a /\ Len(stack') = Len(stack) + 1 /\ Len(stack) \in Nat \ {0}
        /\ \A i \in 1 .. Len(stack) : i + 1 \in 1 .. Len(stack') /\ stack'[i + 1] = stack[i]
        /\ \A j \in 1 .. Len(stack') :
             j # 1 => j - 1 \in 1 .. Len(stack) /\ stack'[j] = stack[j - 1]
    BY <2>1, PushedStack DEF Shape, Typed
  <2>3. \A i \in 1 .. Len(stack') :
          Handles(i)' => i # 1 /\ i - 1 \in 1 .. Len(stack) /\ Handles(i - 1)
                         /\ stack'[i] = stack[i - 1]
    BY <2>1, <2>2 DEF Handles
  <2>4. \A i \in 1 .. Len(stack') : Handles(i)' /\ stack'[i].sig # "SIGILL" => stack'[i].sig \in blocked
    BY <2>3 DEF SignalInv
  <2>5. ASSUME NEW i \in 1 .. Len(stack'), NEW j \in 1 .. Len(stack'),
               Handles(i)', stack'[i] = stack'[j], stack'[i].sig # "SIGILL"
        PROVE  i = j
    <3>1. Handles(j)'
      BY <2>5 DEF Handles
    <3>2. i - 1 = j - 1
      BY <2>3, <2>5, <3>1 DEF SignalInv
    <3> QED BY <3>2
  <2>6. stack'[Len(stack')] = stack[Len(stack)]
    BY <2>2
  <2>7. ASSUME stack'[Len(stack')].at = "main", NEW sig \in blocked
        PROVE  \E i \in 1 .. Len(stack') : stack'[i] = [at |-> "signal", sig |-> sig]
    <3>1. PICK i \in 1 .. Len(stack) : stack[i] = [at |-> "signal", sig |-> sig]
      BY <2>1, <2>6, <2>7 DEF SignalInv
    <3> QED BY <2>2, <3>1
  <2> QED BY <2>1, <2>4, <2>5, <2>7 DEF SignalInv
<1>2. CASE chain
  <2> DEFINE a == [at |-> "linking", file |-> Top.file, chain |-> list]
  <2>1. /\ a \in Activities /\ a.at = "linking" /\ stack # <<>> /\ stack' = <<a>> \o Tail(stack)
        /\ Top.at = "opening" /\ blocked' = blocked
    BY <1>2, ChainStep DEF chain, signalVars
  <2> HIDE DEF a
  <2>2. /\ stack' # <<>> /\ stack'[1] = a /\ Top = stack[1] /\ Len(stack') = Len(stack)
        /\ Len(stack) \in Nat \ {0}
        /\ \A i \in 1 .. Len(stack) : i # 1 => stack'[i] = stack[i]
    BY <2>1, SwappedStack
  <2>3. \A i \in 1 .. Len(stack) : /\ Handles(i)' <=> Handles(i)
                                   /\ Handles(i) => stack'[i] = stack[i]
    BY <2>1, <2>2 DEF Handles
  <2>4. \A i \in 1 .. Len(stack) : Handles(i)' /\ stack'[i].sig # "SIGILL" => stack'[i].sig \in blocked
    BY <2>3 DEF SignalInv
  <2>5. ASSUME NEW i \in 1 .. Len(stack), NEW j \in 1 .. Len(stack),
               Handles(i)', stack'[i] = stack'[j], stack'[i].sig # "SIGILL"
        PROVE  i = j
    <3>1. Handles(j)'
      BY <2>5 DEF Handles
    <3> QED BY <2>3, <2>5, <3>1 DEF SignalInv
  <2>6. ASSUME stack'[Len(stack)].at = "main", NEW sig \in blocked
        PROVE  \E i \in 1 .. Len(stack) : stack'[i] = [at |-> "signal", sig |-> sig]
    <3>1. stack[Len(stack)].at = "main"
      BY <2>1, <2>2, <2>6
    <3>2. PICK i \in 1 .. Len(stack) : stack[i] = [at |-> "signal", sig |-> sig]
      BY <2>1, <2>6, <3>1 DEF SignalInv
    <3>3. i # 1
      BY <2>1, <2>2, <3>2
    <3> QED BY <2>2, <3>2, <3>3
  <2> QED BY <2>1, <2>2, <2>4, <2>5, <2>6 DEF SignalInv
<1>3. CASE link
  BY <1>3, LinkStep, PopSignals DEF link, signalVars
<1> QED BY <1>1, <1>2, <1>3

LEMMA ProgramSignals == ASSUME Shape, Shape', SignalInv, Program PROVE SignalInv'
<1>1. CASE exit \/ __assert_fail
  BY <1>1, FinaliseSignals DEF exit, __assert_fail, Endings
<1>2. CASE error
  BY <1>2, EnvErrorSignals DEF error
<1>3. CASE abort
  <2>1. CASE Chosen("SIGABRT") = "user"
    <3> DEFINE g == [at |-> "signal", sig |-> "SIGABRT"]
               b == [at |-> "abort"]
    <3>1. stack' = <<g, b>> /\ blocked' = blocked \cup {"SIGABRT"}
      BY <1>3, <2>1 DEF abort
    <3>2. g.at = "signal" /\ g.sig = "SIGABRT" /\ b.at = "abort" /\ g # b
      OBVIOUS
    <3> HIDE DEF g, b
    <3>3. Len(stack') = 2 /\ stack'[1] = g /\ stack'[2] = b /\ \A i \in 1 .. Len(stack') : i \in {1, 2}
      BY <3>1
    <3> QED BY <3>1, <3>2, <3>3 DEF SignalInv, Handles
  <2>2. CASE Chosen("SIGABRT") # "user"
    BY <1>3, <2>2, FinaliseSignals DEF abort, Endings
  <2> QED BY <2>1, <2>2
<1>4. ASSUME NEW sig \in Signals, raise(sig) PROVE SignalInv'
  BY <1>4, RaiseSignals DEF raise, UserCode
<1>5. ASSUME UNCHANGED <<stack, blocked>> PROVE SignalInv'
  BY <1>5 DEF SignalInv, Handles
<1>6. ASSUME NEW sig \in Signals, NEW func \in {"user", NULL}, signal(sig, func) PROVE SignalInv'
  BY <1>5, <1>6 DEF signal
<1>7. ASSUME NEW f \in Files, fopen(f) PROVE SignalInv'
  BY <1>7, FopenSignals
<1>8. CASE atexit
  BY <1>5, <1>8 DEF atexit, signalVars
<1> QED BY <1>1, <1>2, <1>3, <1>4, <1>6, <1>7, <1>8 DEF Program

LEMMA LibrarySignals == ASSUME Shape, Shape', SignalInv, Library PROVE SignalInv'
<1>1. CASE _env_init
  BY <1>1 DEF _env_init, signalVars, SignalInv, Handles
<1>2. CASE __main_fail \/ abort_exit
  BY <1>2, FinaliseSignals DEF __main_fail, abort_exit, Endings
<1>3. CASE _clib_internalinit
  <2>1. stack' = <<[at |-> "main"]>> /\ blocked' = {}
    BY <1>3 DEF _clib_internalinit
  <2>2. \A i \in 1 .. Len(stack') : stack'[i].at = "main"
    BY <2>1
  <2> QED BY <2>1, <2>2 DEF SignalInv, Handles
<1>4. CASE return
  BY <1>4, PopSignals DEF return
<1>5. CASE __atexit_trigger
  <2>1. Top.at = "trigger" /\ stack # <<>>
    BY <1>5 DEF __atexit_trigger, At
  <2>2. Top \in Activities /\ Tail(stack) = <<>>
    BY <2>1, TopAlone DEF Inner
  <2> DEFINE f == [at |-> "func"]
             t == [Top EXCEPT !.i = NextSlot]
  <2>3. Top = [at |-> "trigger", i |-> Top.i, then |-> Top.then]
    BY <2>1, <2>2 DEF Activities
  <2>4. f.at = "func" /\ t.at = "trigger"
    BY <2>3
  <2>5. stack' = <<f, t>> \o <<>>
    BY <1>5, <2>2 DEF __atexit_trigger
  <2> HIDE DEF f, t
  <2>6. stack' = <<f, t>>
    BY <2>5
  <2>7. \A i \in 1 .. Len(stack') : stack'[i].at \in {"func", "trigger"}
    BY <2>4, <2>6
  <2> QED BY <2>7, FreshSignals
<1>6. CASE __io_final \/ fclose \/ _Exit
  <2>1. stack # <<>> /\ Top.at \in {"trigger", "closing"}
    BY <1>6 DEF __io_final, fclose, _Exit, At
  <2>2. Top \in Activities /\ Tail(stack) = <<>>
    BY <2>1, TopAlone DEF Inner
  <2>3. \A i \in 1 .. Len(stack') : stack'[i].at = "closing"
    <3>1. CASE __io_final
      <4> DEFINE c == [at |-> "closing", left |-> list, then |-> Top.then]
      <4>1. stack' = <<c>> /\ c.at = "closing"
        BY <3>1 DEF __io_final
      <4> HIDE DEF c
      <4> QED BY <4>1
    <3>2. CASE fclose
      <4> DEFINE c == [at |-> "closing", left |-> Tail(Top.left), then |-> Top.then]
      <4>1. Top.at = "closing"
        BY <3>2 DEF fclose, At
      <4>2. Top = [at |-> "closing", left |-> Top.left, then |-> Top.then]
        BY <2>2, <4>1 DEF Activities
      <4>3. [Top EXCEPT !.left = Tail(Top.left)] = c
        BY <4>2, OneClosed, SMTT(40)
      <4>4. stack' = <<c>> \o <<>> /\ c.at = "closing"
        BY <2>2, <3>2, <4>3 DEF fclose
      <4> HIDE DEF c
      <4>5. stack' = <<c>>
        BY <4>4
      <4> QED BY <4>4, <4>5
    <3>3. CASE _Exit
      <4>1. stack' = <<>>
        BY <3>3 DEF _Exit
      <4>2. Len(stack') = 0
        BY <4>1
      <4> QED BY <4>2
    <3> QED BY <1>6, <3>1, <3>2, <3>3
  <2> QED BY <2>3, FreshSignals
<1>7. CASE chain \/ link
  BY <1>7, FopenSignals
<1> QED BY <1>1, <1>2, <1>3, <1>4, <1>5, <1>6, <1>7 DEF Library

LEMMA NextSignals == ASSUME Shape, SignalInv, [Next]_vars PROVE SignalInv'
<1>1. Shape'
  BY NextShape
<1>2. CASE _env_escape
  <2>1. "SIGINT" \in Signals
    BY DEF Signals
  <2> QED BY <1>1, <1>2, <2>1, RaiseSignals DEF _env_escape
<1>3. CASE UNCHANGED vars
  BY <1>3 DEF vars, SignalInv, Handles
<1> QED BY <1>1, <1>2, <1>3, ProgramSignals, LibrarySignals DEF Next

-----------------------------------------------------------------------------
(* The invariant, and what follows from it.                                 *)

IInv == Shape /\ FileInv /\ ExitInv /\ SignalInv

LEMMA Inductive == Spec => []IInv
<1>1. Init => IInv
  BY InitShape, InitFiles, InitExit, InitSignals DEF IInv
<1>2. IInv /\ [Next]_vars => IInv'
  <2> SUFFICES ASSUME IInv, [Next]_vars PROVE IInv'
    OBVIOUS
  <2>1. Shape /\ FileInv /\ ExitInv /\ SignalInv
    BY DEF IInv
  <2>2. Shape' /\ FileInv' /\ ExitInv' /\ SignalInv'
    BY <2>1, NextShape, NextFiles, NextExit, NextSignals
  <2> QED BY <2>2 DEF IInv
<1> QED BY <1>1, <1>2, PTL DEF Spec

(* Every variable keeps its shape, and __file_list holds only files that    *)
(* are open, whatever handlers and signals do while the program ends.       *)
THEOREM TypeCorrect == Spec => []TypeOK
<1>1. IInv => TypeOK
  <2> SUFFICES ASSUME IInv PROVE TypeOK
    OBVIOUS
  <2>1. Typed /\ Len(stack) <= DEPTH + 1 /\ Elements(list) \subseteq open
    BY DEF IInv, Shape, FileInv, ListInv
  <2> QED BY <2>1 DEF Typed, TypeOK
<1> QED BY <1>1, Inductive, PTL

(* However the program ends, the files it opened are closed, those opened   *)
(* by exit and signal handlers included, unless _env_error gave up or       *)
(* Escape came between a file's opening and its linking, or its closing, or *)
(* between the two statements of another's linking (fopen, __io_final).     *)
THEOREM AlwaysClosed == Spec => []FilesClosed
<1>1. IInv => FilesClosed
  BY DEF IInv, FileInv, OpenInv, FilesClosed, Over
<1> QED BY <1>1, Inductive, PTL

(* The exit handlers registered before the end began run in the reverse of  *)
(* their order, and no handler runs twice.                                  *)
THEOREM AlwaysReverse == Spec => []RunInReverse
<1>1. IInv => RunInReverse
  <2> SUFFICES ASSUME IInv PROVE RunInReverse
    OBVIOUS
  <2>1. Shape /\ ExitInv /\ ran \in Seq(1 .. REGISTRATIONS)
    BY DEF IInv, Shape, Typed
  <2>2. DOMAIN ran = 1 .. Len(ran) /\ Elements(ran) = {ran[i] : i \in 1 .. Len(ran)}
    BY <2>1, ElementsIs
  <2>3. \A i, j \in 1 .. Len(ran) :
          i < j /\ ran[i] <= early /\ ran[j] <= early => ran[i] > ran[j]
    <3>1. CASE early = NULL
      <4>1. ran = <<>>
        BY <2>1, <3>1 DEF ExitInv, Before
      <4>2. Len(ran) = 0
        BY <4>1
      <4> QED BY <4>2
    <3>2. CASE early # NULL
      BY <2>1, <3>2 DEF ExitInv, HaveRun
    <3> QED BY <3>1, <3>2
  <2>4. \A i, j \in 1 .. Len(ran) : ran[i] = ran[j] => i = j
    BY <2>1 DEF ExitInv, TableInv
  <2>5. \A i \in Slots : atexit_funcs[i] \notin Elements(ran)
    BY <2>1, <2>2 DEF ExitInv, TableInv
  <2> QED BY <2>2, <2>3, <2>4, <2>5 DEF RunInReverse
<1> QED BY <1>1, Inductive, PTL

(* However the program ends, the handlers registered before the end began   *)
(* have all run, unless _env_error gave up.                                 *)
THEOREM AlwaysEarly == Spec => []EarlyHandlersRun
<1>1. IInv => EarlyHandlersRun
  <2> SUFFICES ASSUME IInv, stack = <<>>, early # NULL, count < 3, NEW k \in 1 .. early
               PROVE  k \in Elements(ran)
    BY DEF EarlyHandlersRun, Over
  <2>1. PICK m \in Nat : InTable(m) /\ HaveRun(m) /\ WillRun(m)
    BY DEF IInv, ExitInv
  <2>2. m = 0 /\ early \in Nat /\ ran \in Seq(1 .. REGISTRATIONS)
    BY <2>1 DEF WillRun, InTable, IInv, Shape, Typed
  <2>3. \E j \in 1 .. Len(ran) : ran[j] = k
    BY <2>1, <2>2 DEF HaveRun
  <2>4. Elements(ran) = {ran[i] : i \in 1 .. Len(ran)}
    BY <2>2, ElementsIs
  <2> QED BY <2>3, <2>4
<1> QED BY <1>1, Inductive, PTL

(* A signal's handler is not entered again while it runs, and no sequence   *)
(* of raises leaves a signal blocked for good.                              *)
THEOREM AlwaysHandled == Spec => []SignalsHandled
<1>1. IInv => SignalsHandled
  BY SignalsFollow DEF IInv
<1> QED BY <1>1, Inductive, PTL
=============================================================================
