-------------------------- MODULE CommandLineProofs --------------------------
(***************************************************************************)
(* The words that main is given, for every command line: the decoding in   *)
(* place never writes over what is yet to be read, argv gets the words     *)
(* typed, and the list function leaves those that are no redirections.     *)
(*                                                                         *)
(* Both walks do what Walk says, a function of how much of the line has    *)
(* been read; what Walk says is then compared with the reference           *)
(* definitions of words.  The list function keeps an invariant of its own: *)
(* the words kept so far, and what the reference leaves of those to come,  *)
(* are what the reference leaves of all.                                   *)
(***************************************************************************)
EXTENDS CommandLine, TLAPS, FiniteSetTheorems, SequenceTheorems, WellFoundedInduction

(* An escape writes two characters, so it is not enough that the output is *)
(* not ahead of the input: behind an escape it is one character back.      *)
AtType == [spaces : BOOLEAN, quotes : BOOLEAN, escape : BOOLEAN]
Walking == pc \in {"count", "build"}

IInv ==
  /\ cli \in Commands
  /\ pc = "count" => arg = Copied
  /\ Walking => /\ p \in 0..Len(cli) /\ argout \in Nat /\ DOMAIN arg = 0..Len(cli)
                /\ argout <= p /\ at \in AtType
                /\ \A o \in p..Len(cli) : arg[o] = Copied[o]
  /\ pc = "count" => argout = 0
  /\ pc = "build" /\ at.escape => argout < p

LEMMA LenNat == ASSUME cli \in Commands PROVE Len(cli) \in Nat
BY CommandLineAssumption

\* What a character writes: two characters behind an escape only.
LEMMA WritesLength ==
  ASSUME NEW c
  PROVE  Len(Writes(c)) \in 0..2 /\ (~at.escape \/ c = Slash => Len(Writes(c)) \in 0..1)
         /\ (c = Slash => Len(Writes(c)) = 0)
<1>1. CASE c = Slash
  <2>1. Writes(c) = <<>>
    BY <1>1 DEF Writes
  <2> QED BY <1>1, <2>1
<1>2. CASE c # Slash /\ at.escape
  <2>1. Writes(c) = <<c>> \/ Writes(c) = <<Slash, c>>
    BY <1>2 DEF Writes
  <2>2. Len(Writes(c)) = 1 \/ Len(Writes(c)) = 2
    BY <2>1
  <2> QED BY <1>2, <2>2
<1>3. CASE c # Slash /\ ~at.escape
  <2>1. Writes(c) = <<>> \/ Writes(c) = <<c>> \/ Writes(c) = <<NUL>>
    BY <1>3 DEF Writes
  <2>2. Len(Writes(c)) = 0 \/ Len(Writes(c)) = 1
    BY <2>1
  <2> QED BY <1>3, <2>2
<1> QED BY <1>1, <1>2, <1>3

LEMMA CopyEnds == ASSUME cli \in Commands PROVE Copied[Len(cli)] = NUL
BY LenNat DEF Copied

LEMMA InitInv == Init => IInv
<1> SUFFICES ASSUME Init PROVE IInv
  OBVIOUS
<1>1. Len(cli) \in Nat
  BY LenNat DEF Init
<1> QED BY <1>1 DEF Init, IInv, Walking, AtStart, AtType, Copied

LEMMA CountStep == ASSUME IInv, Count PROVE IInv'
<1>1. /\ pc = "count" /\ arg[p] # NUL /\ p' = p + 1 /\ at' = CountState(arg[p])
      /\ UNCHANGED <<pc, cli, arg, argout>>
  BY DEF Count
<1>2. /\ Len(cli) \in Nat /\ p \in 0..Len(cli) /\ arg = Copied /\ argout = 0
      /\ at \in AtType
  BY <1>1, LenNat DEF IInv, Walking
<1>3. p # Len(cli)
  BY <1>1, <1>2 DEF Copied
<1>4. at' \in AtType
  BY <1>1, <1>2 DEF CountState, AtType
<1>5. Copied' = Copied
  BY <1>1 DEF Copied
<1> QED BY <1>1, <1>2, <1>3, <1>4, <1>5 DEF IInv, Walking

LEMMA CountedStep == ASSUME IInv, Counted PROVE IInv'
<1>1. /\ pc = "count" /\ pc' \in {"build", "failed"} /\ p' = 0 /\ at' = AtStart
      /\ UNCHANGED <<cli, arg, argout>>
  BY DEF Counted
<1>2. Len(cli) \in Nat /\ arg = Copied /\ argout = 0
  BY <1>1, LenNat DEF IInv
<1>3. Copied' = Copied
  BY <1>1 DEF Copied
<1> QED BY <1>1, <1>2, <1>3 DEF IInv, Walking, AtStart, AtType, Copied

LEMMA BuildStep == ASSUME IInv, Build PROVE IInv'
<1> DEFINE c == arg[p]
           n == Len(Writes(c))
<1>1. /\ pc = "build" /\ c # NUL /\ at' = BuildState(c) /\ p' = p + 1
      /\ argout' = argout + n /\ UNCHANGED <<pc, cli>>
      /\ arg' = [o \in DOMAIN arg |->
                   IF argout < o + 1 /\ o < argout + n
                   THEN Writes(c)[o + 1 - argout] ELSE arg[o]]
  BY DEF Build
<1>2. /\ Len(cli) \in Nat /\ p \in 0..Len(cli) /\ argout \in Nat /\ argout <= p
      /\ DOMAIN arg = 0..Len(cli) /\ \A o \in p..Len(cli) : arg[o] = Copied[o]
      /\ at \in AtType /\ (at.escape => argout < p) /\ cli \in Commands
  BY <1>1, LenNat DEF IInv, Walking
<1>3. p # Len(cli)
  BY <1>1, <1>2, CopyEnds
<1>4. n \in 0..2 /\ (~at.escape \/ c = Slash => n \in 0..1) /\ (c = Slash => n = 0)
  BY WritesLength
<1> HIDE DEF c
<1>5. at' \in AtType /\ (at'.escape => c = Slash)
  <2>1. at' = BuildState(c) /\ at \in AtType
    BY <1>1, <1>2
  <2>2. BuildState(c) \in AtType
    BY <2>1 DEF BuildState, AtType
  <2>3. CASE c # Slash
    BY <2>1, <2>3 DEF BuildState, AtType
  <2> QED BY <2>1, <2>2, <2>3
<1> HIDE DEF n
<1>6. argout + n <= p + 1 /\ argout + n \in Nat
  BY <1>2, <1>4
<1>7. \A o \in (p + 1)..Len(cli) : arg'[o] = arg[o]
  BY <1>1, <1>2, <1>6
<1>8. Copied' = Copied
  BY <1>1 DEF Copied
<1>9. at'.escape => argout' < p'
  BY <1>1, <1>2, <1>4, <1>5
<1>10. \A o \in p'..Len(cli') : arg'[o] = Copied'[o]
  <2>1. p' = p + 1 /\ cli' = cli
    BY <1>1
  <2>2. \A o \in (p + 1)..Len(cli) : o \in p..Len(cli)
    BY <1>2
  <2>3. \A o \in (p + 1)..Len(cli) : arg'[o] = Copied[o]
    BY <1>2, <1>7, <2>2
  <2> QED BY <1>8, <2>1, <2>3
<1>11. DOMAIN arg' = 0..Len(cli') /\ p' \in 0..Len(cli')
  BY <1>1, <1>2, <1>3
<1> QED BY <1>1, <1>5, <1>6, <1>9, <1>10, <1>11 DEF IInv, Walking

LEMMA StepKeeps == ASSUME IInv, [Next]_vars PROVE IInv'
<1>1. CASE UNCHANGED vars
  BY <1>1 DEF vars, IInv, Walking, Copied
<1>2. CASE Count
  BY <1>2, CountStep
<1>3. CASE Counted
  BY <1>3, CountedStep
<1>4. CASE Build
  BY <1>4, BuildStep
<1>5. CASE Built \/ NotRedirection \/ Redirect \/ RedirectFails \/ main
  BY <1>5 DEF Built, NotRedirection, Redirect, RedirectFails, main, IInv, Walking
<1> QED BY <1>1, <1>2, <1>3, <1>4, <1>5 DEF Next

(* However long the command line and wherever its escapes and quotes, the  *)
(* decoding of __main never writes over what it has yet to read.           *)
THEOREM AlwaysBehind == Spec => []WritesBehind
<1>1. IInv => WritesBehind
  <2> SUFFICES ASSUME IInv, pc = "build" PROVE WritesBehind
    BY DEF WritesBehind
  <2>1. /\ p \in Nat /\ argout \in Nat /\ argout <= p /\ at \in AtType
        /\ (at.escape => argout < p)
        /\ \A o \in p..Len(cli) : arg[o] = Copied[o]
    BY LenNat DEF IInv, Walking
  <2>2. /\ Len(Writes(arg[p])) \in 0..2
        /\ ~at.escape => Len(Writes(arg[p])) \in 0..1
    BY WritesLength
  <2> DEFINE n == Len(Writes(arg[p]))
  <2>3. at.escape \in BOOLEAN
    BY <2>1 DEF AtType
  <2>4. n \in 0..2 /\ (~at.escape => n \in 0..1)
    BY <2>2
  <2> HIDE DEF n
  <2>5. argout + n <= p + 1
    <3>1. ASSUME at.escape PROVE argout + n <= p + 1
      BY <2>1, <2>4, <3>1
    <3>2. ASSUME ~at.escape PROVE argout + n <= p + 1
      BY <2>1, <2>4, <3>2
    <3> QED BY <3>1, <3>2
  <2> QED BY <2>1, <2>5 DEF WritesBehind, n
<1>2. IInv /\ [Next]_vars => IInv'
  BY StepKeeps
<1> QED BY <1>1, <1>2, InitInv, PTL DEF Spec

-----------------------------------------------------------------------------
(* Recursion over the numbers up to n.                                      *)

(* The least-number principle, from the well-foundedness of < on Nat.       *)
LEMMA NatMin ==
  ASSUME NEW T, T \subseteq Nat, T # {}
  PROVE  \E x \in T : \A y \in T : x <= y
<1> DEFINE R == OpToRel(<, Nat)
<1>1. IsWellFoundedOn(R, Nat)
  BY NatLessThanWellFounded
<1>2. \A x, y \in Nat : x < y => <<x, y>> \in R
  BY DEF OpToRel
<1> HIDE DEF R
<1>3. PICK x \in T : \A y \in T : ~(<<y, x>> \in R)
  BY <1>1, WFMin
<1>4. ASSUME NEW y \in T PROVE x <= y
  <2>1. x \in Nat /\ y \in Nat /\ ~(<<y, x>> \in R)
    BY <1>3
  <2>2. ~(y < x)
    BY <2>1, <1>2
  <2> QED BY <2>1, <2>2
<1> QED BY <1>4

(* What holds of 0 and, with a number, of its successor holds up to n.      *)
LEMMA UpTo0 ==
  ASSUME NEW n \in Nat, NEW H, 0 \in H,
         \A k \in 0..n : k \in H /\ k < n => k + 1 \in H
  PROVE  \A k \in 0..n : k \in H
<1> DEFINE Bad == {k \in 0..n : k \notin H}
<1>1. SUFFICES ASSUME Bad # {} PROVE FALSE
  OBVIOUS
<1>2. Bad \subseteq Nat
  OBVIOUS
<1>3. PICK m \in Bad : \A k \in Bad : m <= k
  BY <1>1, <1>2, NatMin
<1>4. m # 0 /\ m \in 0..n /\ m \notin H
  OBVIOUS
<1>5. m - 1 \in 0..n /\ m - 1 < n /\ m - 1 \notin Bad
  BY <1>3, <1>4
<1>6. m - 1 \in H
  BY <1>5
<1>7. (m - 1) + 1 \in H
  BY <1>5, <1>6
<1> QED BY <1>4, <1>7

IsChain(g, n, V, base, step) ==
  /\ g \in [0..n -> V] /\ g[0] = base
  /\ \A k \in 1..n : g[k] = step[k][g[k - 1]]

LEMMA ChainExists ==
  ASSUME NEW n \in Nat, NEW V, NEW base \in V, NEW step \in [1..n -> [V -> V]]
  PROVE  \E g : IsChain(g, n, V, base, step)
<1> DEFINE H == {k \in 0..n : \E g : IsChain(g, k, V, base, step)}
<1>1. 0 \in H
  <2> DEFINE g == [k \in 0..0 |-> base]
  <2>1. IsChain(g, 0, V, base, step)
    BY DEF IsChain
  <2> QED BY <2>1
<1>2. ASSUME NEW k \in 0..n, k \in H, k < n PROVE k + 1 \in H
  <2>1. PICK g : IsChain(g, k, V, base, step)
    BY <1>2
  <2> DEFINE u == [j \in 0..(k + 1) |-> IF j <= k THEN g[j] ELSE step[k + 1][g[k]]]
  <2>2. /\ g \in [0..k -> V] /\ g[0] = base
        /\ \A j \in 1..k : g[j] = step[j][g[j - 1]]
    BY <2>1 DEF IsChain
  <2>3. k \in Nat /\ k + 1 \in 1..n /\ g[k] \in V
    BY <1>2, <2>2
  <2>4. step[k + 1][g[k]] \in V
    BY <2>3
  <2>5. u \in [0..(k + 1) -> V]
    BY <2>2, <2>3, <2>4
  <2>6. u[0] = base
    BY <2>2, <2>3
  <2>7. ASSUME NEW j \in 1..(k + 1) PROVE u[j] = step[j][u[j - 1]]
    <3>1. CASE j = k + 1
      BY <3>1, <2>3
    <3>2. CASE j # k + 1
      <4>1. j \in 1..k /\ j - 1 \in 0..(k + 1) /\ j - 1 <= k /\ j \in 0..(k + 1) /\ j <= k
        BY <3>2, <2>3
      <4>2. u[j] = g[j] /\ u[j - 1] = g[j - 1]
        BY <4>1
      <4> QED BY <4>1, <4>2, <2>2
    <3> QED BY <3>1, <3>2
  <2> HIDE DEF u
  <2>8. IsChain(u, k + 1, V, base, step)
    BY <2>5, <2>6, <2>7 DEF IsChain
  <2> QED BY <2>3, <2>8
<1>3. \A k \in 0..n : k \in H
  <2> HIDE DEF H
  <2> QED BY <1>1, <1>2, UpTo0
<1>4. n \in H
  BY <1>3
<1> QED BY <1>4

-----------------------------------------------------------------------------
(* What the walks do, as a function of how far they have got: the state,    *)
(* what has been written, and where the words start in that.                *)
Text == Characters \cup {NUL}

NextAt(a, c) ==
  IF c = Slash THEN [a EXCEPT !.escape = TRUE]
  ELSE IF a.escape THEN [a EXCEPT !.escape = FALSE]
  ELSE IF a.quotes THEN [a EXCEPT !.quotes = (c # Quote)]
  ELSE [a EXCEPT !.spaces = (c = " "), !.quotes = (c = Quote)]
StartsAt(a, c) == c \notin {Slash, " "} /\ ~a.escape /\ ~a.quotes /\ a.spaces
WritesAt(a, c) ==
  IF c = Slash THEN <<>>
  ELSE IF a.escape THEN IF c = Quote THEN <<c>> ELSE <<Slash, c>>
  ELSE IF c = Quote THEN <<>>
  ELSE IF c # " " \/ a.quotes THEN <<c>>
  ELSE IF a.spaces THEN <<>> ELSE <<NUL>>

LEMMA AsWalked ==
  ASSUME NEW c
  PROVE  /\ CountState(c) = NextAt(at, c) /\ BuildState(c) = NextAt(at, c)
         /\ CountStarts(c) <=> StartsAt(at, c)
         /\ BuildStarts(c) <=> StartsAt(at, c)
         /\ Writes(c) = WritesAt(at, c)
BY DEF CountState, BuildState, NextAt, CountStarts, BuildStarts, StartsAt, Writes, WritesAt

Progress == [at : AtType, out : Seq(Text), starts : Seq(Nat)]
Advance(v, c) ==
  [at     |-> NextAt(v.at, c),
   out    |-> v.out \o WritesAt(v.at, c),
   starts |-> IF StartsAt(v.at, c) THEN Append(v.starts, Len(v.out)) ELSE v.starts]
Outset == [at |-> AtStart, out |-> <<>>, starts |-> <<>>]

IsWalk(W, c) ==
  /\ W \in [0..Len(c) -> Progress] /\ W[0] = Outset
  /\ \A k \in 1..Len(c) : W[k] = Advance(W[k - 1], c[k])
Walk(c) == CHOOSE W : IsWalk(W, c)

LEMMA CharactersFact ==
  /\ Slash \in Characters
  /\ \A c \in Commands : /\ Len(c) \in Nat /\ DOMAIN c = 1..Len(c)
                         /\ \A k \in 1..Len(c) : c[k] \in Characters
  /\ NUL \notin Characters
<1>1. Slash \in Characters
  BY DEF Characters, Special
<1>2. \A c \in Commands : \A k \in DOMAIN c : c[k] \in Characters
  BY DEF Characters
<1> QED BY <1>1, <1>2, CommandLineAssumption

LEMMA WritesType ==
  ASSUME NEW a \in AtType, NEW c \in Characters
  PROVE  WritesAt(a, c) \in Seq(Text)
<1>1. c \in Text /\ Slash \in Text /\ NUL \in Text
  BY CharactersFact DEF Text
<1>2. /\ <<>> \in Seq(Text) /\ <<c>> \in Seq(Text) /\ <<Slash, c>> \in Seq(Text)
      /\ <<NUL>> \in Seq(Text)
  BY <1>1
<1>3. WritesAt(a, c) \in {<<>>, <<c>>, <<Slash, c>>, <<NUL>>}
  BY Zenon DEF WritesAt
<1> QED BY <1>2, <1>3

LEMMA AdvanceType ==
  ASSUME NEW v \in Progress, NEW c \in Characters
  PROVE  Advance(v, c) \in Progress
<1>1. v.at \in AtType /\ v.out \in Seq(Text) /\ v.starts \in Seq(Nat)
  BY DEF Progress
<1>2. NextAt(v.at, c) \in AtType
  BY <1>1 DEF NextAt, AtType
<1>3. v.out \o WritesAt(v.at, c) \in Seq(Text)
  BY <1>1, WritesType, ConcatProperties
<1>4. Append(v.starts, Len(v.out)) \in Seq(Nat)
  BY <1>1, AppendProperties, LenProperties
<1> QED BY <1>1, <1>2, <1>3, <1>4 DEF Advance, Progress

LEMMA WalkFact ==
  ASSUME NEW c \in Commands
  PROVE  IsWalk(Walk(c), c)
<1> DEFINE step == [k \in 1..Len(c) |-> [v \in Progress |-> Advance(v, c[k])]]
<1>1. /\ Len(c) \in Nat /\ DOMAIN c = 1..Len(c)
      /\ \A k \in 1..Len(c) : c[k] \in Characters
  BY CharactersFact
<1>2. step \in [1..Len(c) -> [Progress -> Progress]]
  BY <1>1, AdvanceType
<1>3. Outset \in Progress
  <2>1. <<>> \in Seq(Text) /\ <<>> \in Seq(Nat)
    OBVIOUS
  <2> QED BY <2>1 DEF Outset, Progress, AtStart, AtType
<1>4. PICK W : IsChain(W, Len(c), Progress, Outset, step)
  <2> HIDE DEF step
  <2> QED BY <1>1, <1>2, <1>3, ChainExists
<1>5. /\ W \in [0..Len(c) -> Progress] /\ W[0] = Outset
      /\ \A k \in 1..Len(c) : W[k] = step[k][W[k - 1]]
  BY <1>4 DEF IsChain
<1>6. ASSUME NEW k \in 1..Len(c) PROVE W[k] = Advance(W[k - 1], c[k])
  <2>1. k - 1 \in 0..Len(c)
    BY <1>1
  <2>2. W[k - 1] \in Progress
    BY <1>5, <2>1
  <2> QED BY <1>5, <2>2
<1>7. IsWalk(W, c)
  BY <1>5, <1>6 DEF IsWalk
<1> QED BY <1>7 DEF Walk

(* One character further.                                                   *)
LEMMA WalkStep ==
  ASSUME NEW c \in Commands, NEW k \in 0..Len(c)
  PROVE  /\ Len(c) \in Nat /\ Walk(c)[k] \in Progress /\ Walk(c)[0] = Outset
         /\ k < Len(c) => /\ c[k + 1] \in Characters /\ c[k + 1] # NUL
                          /\ Walk(c)[k + 1] = Advance(Walk(c)[k], c[k + 1])
<1>1. /\ Len(c) \in Nat /\ DOMAIN c = 1..Len(c)
      /\ \A j \in 1..Len(c) : c[j] \in Characters
  BY CharactersFact
<1>2. NUL \notin Characters
  BY CharactersFact
<1>3. /\ Walk(c) \in [0..Len(c) -> Progress] /\ Walk(c)[0] = Outset
      /\ \A j \in 1..Len(c) : Walk(c)[j] = Advance(Walk(c)[j - 1], c[j])
  BY WalkFact DEF IsWalk
<1>4. k < Len(c) => /\ k + 1 \in 1..Len(c) /\ (k + 1) - 1 = k
  BY <1>1
<1> QED BY <1>1, <1>2, <1>3, <1>4

LEMMA WalkBounds ==
  ASSUME NEW c \in Commands
  PROVE  \A k \in 0..Len(c) :
           /\ \A j \in DOMAIN Walk(c)[k].starts : Walk(c)[k].starts[j] \in 0..Len(Walk(c)[k].out)
           /\ \A m \in 0..k : Len(Walk(c)[m].starts) <= Len(Walk(c)[k].starts)
<1> DEFINE W == Walk(c)
           H == {k \in 0..Len(c) :
                  /\ \A j \in DOMAIN W[k].starts : W[k].starts[j] \in 0..Len(W[k].out)
                  /\ \A m \in 0..k : Len(W[m].starts) <= Len(W[k].starts)}
<1>1. Len(c) \in Nat /\ W[0] = Outset /\ 0 \in 0..Len(c)
  BY WalkStep, CharactersFact
<1>2. 0 \in H
  <2>1. W[0].starts = <<>> /\ Len(<<>>) = 0 /\ DOMAIN (<<>>) = {}
    BY <1>1 DEF Outset
  <2> HIDE DEF W
  <2> QED BY <1>1, <2>1
<1>3. ASSUME NEW k \in 0..Len(c), k \in H, k < Len(c) PROVE k + 1 \in H
  <2> DEFINE v == W[k]
             u == W[k + 1]
             x == c[k + 1]
  <2>1. v \in Progress /\ x \in Characters /\ u = Advance(v, x) /\ k \in Nat
    BY <1>1, <1>3, WalkStep
  <2>2. /\ \A j \in DOMAIN v.starts : v.starts[j] \in 0..Len(v.out)
        /\ \A m \in 0..k : Len(W[m].starts) <= Len(v.starts)
    BY <1>3
  <2>3. \A m \in 0..k : Len(W[m].starts) \in Nat
    <3>1. \A m \in 0..k : W[m] \in Progress
      BY <1>1, <1>3, WalkStep
    <3> QED BY <3>1, LenProperties DEF Progress
  <2> HIDE DEF W, v, u, x
  <2>4. /\ v.at \in AtType /\ v.out \in Seq(Text) /\ v.starts \in Seq(Nat)
        /\ WritesAt(v.at, x) \in Seq(Text)
    BY <2>1, WritesType DEF Progress
  <2>5. Len(v.out) \in Nat /\ Len(u.out) \in Nat /\ Len(v.out) <= Len(u.out)
    <3>1. u.out = v.out \o WritesAt(v.at, x)
      BY <2>1 DEF Advance
    <3>2. Len(u.out) = Len(v.out) + Len(WritesAt(v.at, x))
      BY <3>1, <2>4, ConcatProperties
    <3>3. Len(v.out) \in Nat /\ Len(WritesAt(v.at, x)) \in Nat
      BY <2>4, LenProperties
    <3> DEFINE lv == Len(v.out)
               lu == Len(u.out)
               lw == Len(WritesAt(v.at, x))
    <3> HIDE DEF lv, lu, lw
    <3>4. lu = lv + lw /\ lv \in Nat /\ lw \in Nat
      BY <3>2, <3>3 DEF lv, lu, lw
    <3>5. lv \in Nat /\ lu \in Nat /\ lv <= lu
      BY <3>4
    <3> QED BY <3>5 DEF lv, lu
  <2>6. u.starts = v.starts \/ u.starts = Append(v.starts, Len(v.out))
    BY <2>1 DEF Advance
  <2>7. /\ Len(v.starts) \in Nat /\ DOMAIN v.starts = 1..Len(v.starts)
        /\ Len(v.starts) <= Len(u.starts) /\ Len(u.starts) \in Nat
        /\ \A j \in DOMAIN u.starts : u.starts[j] \in 0..Len(u.out)
    <3>1. CASE u.starts = v.starts
      BY <3>1, <2>2, <2>4, <2>5, LenProperties
    <3>2. CASE u.starts = Append(v.starts, Len(v.out))
      <4>1. /\ u.starts \in Seq(Nat) /\ Len(u.starts) = Len(v.starts) + 1
            /\ \A j \in 1..Len(v.starts) : u.starts[j] = v.starts[j]
            /\ u.starts[Len(v.starts) + 1] = Len(v.out)
        BY <3>2, <2>4, <2>5, AppendProperties
      <4>2. /\ Len(v.starts) \in Nat /\ DOMAIN v.starts = 1..Len(v.starts)
            /\ DOMAIN u.starts = 1..(Len(v.starts) + 1)
        BY <4>1, <2>4, LenProperties
      <4>3. ASSUME NEW j \in DOMAIN u.starts PROVE u.starts[j] \in 0..Len(u.out)
        <5>1. j \in 1..Len(v.starts) \/ j = Len(v.starts) + 1
          BY <4>2
        <5>2. CASE j \in 1..Len(v.starts)
          <6>1. u.starts[j] = v.starts[j] /\ v.starts[j] \in 0..Len(v.out)
            BY <5>2, <4>1, <4>2, <2>2
          <6> QED BY <6>1, <2>5
        <5>3. CASE j = Len(v.starts) + 1
          <6>1. u.starts[j] = Len(v.out)
            BY <5>3, <4>1
          <6> QED BY <6>1, <2>5
        <5> QED BY <5>1, <5>2, <5>3
      <4> QED BY <4>1, <4>2, <4>3
    <3> QED BY <2>6, <3>1, <3>2
  <2>8. ASSUME NEW m \in 0..(k + 1) PROVE Len(W[m].starts) <= Len(u.starts)
    <3>1. CASE m = k + 1
      BY <3>1, <2>7 DEF u
    <3>2. CASE m # k + 1
      <4>1. m \in 0..k
        BY <3>2, <2>1
      <4> QED BY <4>1, <2>2, <2>3, <2>7
    <3> QED BY <3>1, <3>2
  <2>9. k + 1 \in 0..Len(c)
    BY <1>1, <1>3
  <2> QED BY <2>7, <2>8, <2>9 DEF u
<1>4. \A k \in 0..Len(c) : k \in H
  <2> HIDE DEF H
  <2> QED BY <1>1, <1>2, <1>3, UpTo0
<1> QED BY <1>4

-----------------------------------------------------------------------------
(* Both walks do what Walk says; the decoded words lie in arg as if they    *)
(* had been written elsewhere.                                              *)
Written(a, s, n, w) ==
  s = w.starts /\ n = Len(w.out) /\ \A o \in 0..(n - 1) : a[o] = w.out[o + 1]

Ends == Walk(cli)[Len(cli)]

WInv ==
  /\ IInv
  /\ p \in 0..Len(cli) /\ argout \in 0..Len(cli) /\ DOMAIN arg = 0..Len(cli)
  /\ arg[Len(cli)] = NUL /\ \A o \in 0..Len(cli) : arg[o] \in Text
  /\ starts \in Seq(Nat) /\ \A k \in DOMAIN starts : starts[k] \in 0..argout
  /\ Walking => at = Walk(cli)[p].at /\ argc = Len(Walk(cli)[p].starts)
  /\ pc = "count" => starts = <<>> /\ argout = 0
  /\ pc = "build" => /\ Written(arg, starts, argout, Walk(cli)[p])
                     /\ slots = Len(Ends.starts) + 1
  /\ pc \in {"redirect", "main"} => /\ Written(arg, starts, argout, Ends)
                                    /\ argc = Len(starts) /\ slots = argc + 1

LEMMA CopiedText ==
  ASSUME cli \in Commands
  PROVE  /\ DOMAIN Copied = 0..Len(cli) /\ \A o \in 0..Len(cli) : Copied[o] \in Text
         /\ \A o \in 0..Len(cli) : o < Len(cli) <=> Copied[o] # NUL
         /\ \A o \in 0..Len(cli) : o < Len(cli) => Copied[o] = cli[o + 1]
         /\ Len(cli) \in Nat
<1>1. /\ Len(cli) \in Nat /\ NUL \in Text /\ NUL \notin Characters
      /\ \A k \in 1..Len(cli) : cli[k] \in Text /\ cli[k] \in Characters
  BY CharactersFact DEF Text
<1> QED BY <1>1 DEF Copied

LEMMA InitW == Init => WInv
<1> SUFFICES ASSUME Init PROVE WInv
  OBVIOUS
<1>1. IInv /\ cli \in Commands /\ Len(cli) \in Nat
  BY InitInv, CopiedText DEF Init
<1>2. /\ arg = Copied /\ p = 0 /\ argout = 0 /\ starts = <<>> /\ at = AtStart /\ argc = 0
      /\ pc = "count"
  BY DEF Init
<1>3. Walk(cli)[0].at = AtStart /\ Walk(cli)[0].starts = <<>>
  BY <1>1, WalkStep DEF Outset
<1>4. <<>> \in Seq(Nat) /\ Len(<<>>) = 0 /\ DOMAIN (<<>>) = {}
  OBVIOUS
<1>5. /\ DOMAIN arg = 0..Len(cli) /\ arg[Len(cli)] = NUL
      /\ \A o \in 0..Len(cli) : arg[o] \in Text
  BY <1>1, <1>2, CopiedText, CopyEnds
<1> QED BY <1>1, <1>2, <1>3, <1>4, <1>5 DEF WInv

LEMMA CountW == ASSUME WInv, Count PROVE WInv'
<1>1. /\ pc = "count" /\ arg[p] # NUL /\ p' = p + 1 /\ at' = CountState(arg[p])
      /\ argc' = IF CountStarts(arg[p]) THEN argc + 1 ELSE argc
      /\ UNCHANGED <<pc, cli, arg, argout, starts>>
  BY DEF Count
<1>2. /\ IInv /\ cli \in Commands /\ p \in 0..Len(cli) /\ arg = Copied
      /\ at = Walk(cli)[p].at /\ argc = Len(Walk(cli)[p].starts)
      /\ starts = <<>> /\ argout = 0
  BY <1>1 DEF WInv, Walking, IInv
<1>3. p < Len(cli) /\ Len(cli) \in Nat /\ arg[p] = cli[p + 1]
  BY <1>1, <1>2, CopiedText
<1> DEFINE v == Walk(cli)[p]
           x == cli[p + 1]
<1>4. v \in Progress /\ Walk(cli)[p + 1] = Advance(v, x)
  BY <1>2, <1>3, WalkStep
<1>5. at' = NextAt(v.at, x) /\ (CountStarts(x) <=> StartsAt(v.at, x))
  BY <1>1, <1>2, <1>3, AsWalked
<1> HIDE DEF v, x
<1>6. at' = Walk(cli)[p + 1].at
  BY <1>4, <1>5 DEF Advance
<1>7. argc' = Len(Walk(cli)[p + 1].starts)
  <2>1. v.starts \in Seq(Nat) /\ Len(v.out) \in Nat
    BY <1>4, LenProperties DEF Progress
  <2>2. argc' = IF StartsAt(v.at, x) THEN Len(v.starts) + 1 ELSE Len(v.starts)
    BY <1>1, <1>2, <1>3, <1>5 DEF v, x
  <2>3. Walk(cli)[p + 1].starts = IF StartsAt(v.at, x) THEN Append(v.starts, Len(v.out))
                                  ELSE v.starts
    BY <1>4 DEF Advance
  <2>4. Len(Append(v.starts, Len(v.out))) = Len(v.starts) + 1
    BY <2>1, AppendProperties
  <2> QED BY <2>2, <2>3, <2>4
<1>8. IInv'
  BY <1>2, CountStep
<1>9. Walk(cli)'[p'] = Walk(cli)[p + 1] /\ p' \in 0..Len(cli)
  BY <1>1, <1>2, <1>3
<1> QED BY <1>1, <1>2, <1>6, <1>7, <1>8, <1>9 DEF WInv

LEMMA CountedW == ASSUME WInv, Counted PROVE WInv'
<1>1. /\ pc = "count" /\ arg[p] = NUL /\ pc' \in {"build", "failed"} /\ slots' = argc + 1
      /\ p' = 0 /\ at' = AtStart /\ argc' = 0 /\ UNCHANGED <<cli, arg, argout, starts>>
  BY DEF Counted
<1>2. /\ IInv /\ cli \in Commands /\ p \in 0..Len(cli) /\ arg = Copied
      /\ argc = Len(Walk(cli)[p].starts) /\ starts = <<>> /\ argout = 0
  BY <1>1 DEF WInv, Walking, IInv
<1>3. p = Len(cli) /\ Len(cli) \in Nat
  BY <1>1, <1>2, CopiedText
<1>4. slots' = Len(Ends.starts) + 1
  BY <1>1, <1>2, <1>3 DEF Ends
<1>5. Walk(cli)[0] = Outset /\ Outset.at = AtStart /\ Outset.starts = <<>>
      /\ Outset.out = <<>> /\ Len(<<>>) = 0
  BY <1>2, <1>3, WalkStep DEF Outset
<1>6. Written(arg, starts, argout, Walk(cli)[0])
  BY <1>2, <1>5 DEF Written
<1>7. IInv'
  BY <1>2, CountedStep
<1>8. Ends' = Ends /\ Walk(cli)'[0] = Walk(cli)[0]
  BY <1>1 DEF Ends
<1> QED BY <1>1, <1>2, <1>3, <1>4, <1>5, <1>6, <1>7, <1>8 DEF WInv

LEMMA BuildW == ASSUME WInv, Build PROVE WInv'
<1> DEFINE x == arg[p]
           w == Writes(x)
           v == Walk(cli)[p]
           u == Walk(cli)[p + 1]
<1>1. /\ pc = "build" /\ x # NUL /\ at' = BuildState(x) /\ p' = p + 1
      /\ argc' = IF BuildStarts(x) THEN argc + 1 ELSE argc
      /\ starts' = IF BuildStarts(x) THEN Append(starts, argout) ELSE starts
      /\ argout' = argout + Len(w) /\ UNCHANGED <<pc, cli, slots>>
      /\ arg' = [o \in DOMAIN arg |->
                   IF argout < o + 1 /\ o < argout + Len(w)
                   THEN w[o + 1 - argout] ELSE arg[o]]
  BY DEF Build
<1>2. /\ IInv /\ cli \in Commands /\ p \in 0..Len(cli) /\ argout \in 0..Len(cli)
      /\ DOMAIN arg = 0..Len(cli) /\ \A o \in 0..Len(cli) : arg[o] \in Text
      /\ arg[Len(cli)] = NUL /\ arg[p] = Copied[p] /\ argout <= p
      /\ at = v.at /\ argc = Len(v.starts) /\ Written(arg, starts, argout, v)
      /\ slots = Len(Ends.starts) + 1 /\ Len(cli) \in Nat
  BY <1>1, LenNat DEF WInv, Walking, IInv
<1>3. p < Len(cli) /\ x = cli[p + 1]
  BY <1>1, <1>2, CopiedText
<1>4. v \in Progress /\ u = Advance(v, x) /\ x \in Characters
  BY <1>2, <1>3, WalkStep
<1>5. /\ at' = NextAt(v.at, x) /\ w = WritesAt(v.at, x)
      /\ BuildStarts(x) <=> StartsAt(v.at, x)
  BY <1>1, <1>2, AsWalked
<1>6. IInv'
  BY <1>2, BuildStep
<1> HIDE DEF x, w, v, u
<1>7. /\ v.out \in Seq(Text) /\ v.starts \in Seq(Nat) /\ w \in Seq(Text)
      /\ Len(v.out) \in Nat /\ Len(w) \in Nat
  BY <1>4, <1>5, WritesType, LenProperties DEF Progress
<1>8. starts = v.starts /\ argout = Len(v.out) /\ \A o \in 0..(argout - 1) : arg[o] = v.out[o + 1]
  BY <1>2 DEF Written
<1>9. u.at = NextAt(v.at, x) /\ u.out = v.out \o w
      /\ u.starts = IF StartsAt(v.at, x) THEN Append(v.starts, Len(v.out)) ELSE v.starts
  BY <1>4, <1>5 DEF Advance
<1>10. starts' = u.starts /\ at' = u.at
  BY <1>1, <1>5, <1>8, <1>9
<1>11. argc' = Len(u.starts)
  <2>1. Len(Append(v.starts, Len(v.out))) = Len(v.starts) + 1
    BY <1>7, AppendProperties
  <2> QED BY <2>1, <1>1, <1>2, <1>5, <1>9
<1>12. /\ u.out \in Seq(Text) /\ Len(u.out) = Len(v.out) + Len(w)
       /\ \A j \in 1..(Len(v.out) + Len(w)) :
            u.out[j] = IF j <= Len(v.out) THEN v.out[j] ELSE w[j - Len(v.out)]
  BY <1>7, <1>9, ConcatProperties
<1>13. argout' = Len(u.out) /\ argout' <= p + 1
  <2>1. argout' <= p'
    BY <1>1, <1>6 DEF IInv, Walking
  <2> QED BY <2>1, <1>1, <1>8, <1>12
<1>14. ASSUME NEW o \in 0..(argout' - 1) PROVE arg'[o] = u.out[o + 1]
  <2>1. o \in 0..Len(cli) /\ o + 1 \in 1..(Len(v.out) + Len(w))
    BY <1>2, <1>3, <1>7, <1>12, <1>13
  <2>2. arg'[o] = IF argout < o + 1 /\ o < argout + Len(w) THEN w[o + 1 - argout] ELSE arg[o]
    BY <1>1, <1>2, <2>1
  <2>3. CASE o < argout
    <3>1. ~(argout < o + 1) /\ o \in 0..(argout - 1) /\ o + 1 <= Len(v.out)
      BY <2>1, <2>3, <1>2, <1>8
    <3>2. arg'[o] = arg[o] /\ arg[o] = v.out[o + 1]
      BY <3>1, <2>2, <1>8
    <3>3. u.out[o + 1] = v.out[o + 1]
      BY <3>1, <2>1, <1>12
    <3> QED BY <3>2, <3>3
  <2>4. CASE ~(o < argout)
    <3>1. /\ argout < o + 1 /\ o < argout + Len(w) /\ ~(o + 1 <= Len(v.out))
          /\ o + 1 - argout = o + 1 - Len(v.out)
      BY <2>1, <2>4, <1>2, <1>7, <1>8
    <3>2. arg'[o] = w[o + 1 - argout]
      BY <3>1, <2>2
    <3>3. u.out[o + 1] = w[o + 1 - Len(v.out)]
      BY <3>1, <2>1, <1>12
    <3> QED BY <3>1, <3>2, <3>3
  <2> QED BY <2>3, <2>4
<1>15. Written(arg', starts', argout', u)
  BY <1>10, <1>13, <1>14 DEF Written
<1>16. DOMAIN arg' = 0..Len(cli) /\ arg'[Len(cli)] = NUL
       /\ \A o \in 0..Len(cli) : arg'[o] \in Text
  <2>1. DOMAIN arg' = 0..Len(cli)
    BY <1>1, <1>2
  <2>2. ASSUME NEW o \in 0..Len(cli) PROVE arg'[o] \in Text
    <3>1. o < argout' => o \in 0..(argout' - 1) /\ o + 1 \in 1..Len(u.out)
      BY <1>2, <1>7, <1>12, <1>13
    <3>2. ~(o < argout') => arg'[o] = arg[o]
      BY <1>1, <1>2
    <3> QED BY <3>1, <3>2, <1>2, <1>12, <1>14, ElementOfSeq
  <2>3. arg'[Len(cli)] = NUL
    <3>1. Len(cli) \in DOMAIN arg /\ ~(Len(cli) < argout + Len(w))
      BY <1>1, <1>2, <1>3, <1>13
    <3> QED BY <3>1, <1>1, <1>2
  <2> QED BY <2>1, <2>2, <2>3
<1>17. starts' \in Seq(Nat) /\ \A k \in DOMAIN starts' : starts'[k] \in 0..argout'
  <2>1. p + 1 \in 0..Len(cli)
    BY <1>2, <1>3
  <2>2. u \in Progress
    BY <2>1, <1>2, WalkStep DEF u
  <2>3. \A k \in DOMAIN u.starts : u.starts[k] \in 0..Len(u.out)
    BY <2>1, <1>2, WalkBounds DEF u
  <2> QED BY <2>2, <2>3, <1>10, <1>13 DEF Progress
<1>18. p' \in 0..Len(cli) /\ argout' \in 0..Len(cli)
  <2>1. Len(cli) \in Nat /\ p \in Nat /\ p' = p + 1 /\ p < Len(cli)
    BY <1>1, <1>2, <1>3
  <2>2. argout' \in Nat
    BY <1>7, <1>12, <1>13
  <2> QED BY <2>1, <2>2, <1>13
<1>19. Ends' = Ends /\ Walk(cli)'[p'] = u /\ Len(cli)' = Len(cli)
  BY <1>1 DEF Ends, u
<1> QED BY <1>1, <1>2, <1>6, <1>10, <1>11, <1>15, <1>16, <1>17, <1>18, <1>19 DEF WInv

LEMMA BuiltW == ASSUME WInv, Built PROVE WInv'
<1>1. /\ pc = "build" /\ arg[p] = NUL /\ pc' = "redirect"
      /\ UNCHANGED <<cli, argc, arg, p, slots, argout, starts>>
  BY DEF Built, parsing
<1>2. /\ IInv /\ cli \in Commands /\ p \in 0..Len(cli) /\ arg[p] = Copied[p]
      /\ argc = Len(Walk(cli)[p].starts) /\ Written(arg, starts, argout, Walk(cli)[p])
      /\ slots = Len(Ends.starts) + 1 /\ Len(cli) \in Nat
  BY <1>1, LenNat DEF WInv, Walking, IInv
<1>3. p = Len(cli)
  BY <1>1, <1>2, CopiedText
<1>4. Written(arg, starts, argout, Ends) /\ argc = Len(starts) /\ slots = argc + 1
  BY <1>2, <1>3 DEF Ends, Written
<1>5. IInv' /\ Ends' = Ends
  BY <1>1, <1>2 DEF IInv, Walking, Ends
<1> QED BY <1>1, <1>2, <1>4, <1>5 DEF WInv, Walking

LEMMA StepW == ASSUME WInv, [Next]_vars PROVE WInv'
<1>1. CASE UNCHANGED vars
  <2>1. IInv'
    BY StepKeeps DEF WInv
  <2> QED BY <1>1, <2>1 DEF vars, WInv, Walking, Ends
<1>2. CASE Count
  BY <1>2, CountW
<1>3. CASE Counted
  BY <1>3, CountedW
<1>4. CASE Build
  BY <1>4, BuildW
<1>5. CASE Built
  BY <1>5, BuiltW
<1>6. CASE NotRedirection \/ Redirect \/ RedirectFails \/ main
  <2>1. /\ pc = "redirect" /\ pc' \in {"redirect", "main", "failed"}
        /\ UNCHANGED <<cli, argc, arg, p, slots, argout, starts>>
    BY <1>6 DEF NotRedirection, Redirect, RedirectFails, main, parsing
  <2>2. IInv'
    BY StepKeeps DEF WInv
  <2>3. Ends' = Ends
    BY <2>1 DEF Ends
  <2> QED BY <2>1, <2>2, <2>3 DEF WInv, Walking
<1> QED BY <1>1, <1>2, <1>3, <1>4, <1>5, <1>6 DEF Next

-----------------------------------------------------------------------------
(* The strings in arg.                                                      *)
Lines(c) == UNION {[1..n -> Characters] : n \in 0..Len(c)}

LEMMA LinesFact ==
  ASSUME NEW c \in Commands
  PROVE  /\ NULL \notin Lines(c)
         /\ \A w \in Lines(c) : w \in Seq(Characters) /\ Len(w) \in 0..Len(c)
         /\ \A w \in Seq(Characters) : Len(w) <= Len(c) => w \in Lines(c)
<1>1. Len(c) \in Nat /\ \A n \in 0..Len(c) : NULL \notin [1..n -> Characters]
  BY CommandLineAssumption
<1>2. ASSUME NEW w \in Lines(c) PROVE w \in Seq(Characters) /\ Len(w) \in 0..Len(c)
  <2>1. PICK n \in 0..Len(c) : w \in [1..n -> Characters]
    BY DEF Lines
  <2>2. n \in Nat
    BY <1>1, <2>1
  <2>3. w \in Seq(Characters) /\ Len(w) = n
    BY <2>1, <2>2
  <2> QED BY <2>1, <2>3
<1>3. ASSUME NEW w \in Seq(Characters), Len(w) <= Len(c) PROVE w \in Lines(c)
  <2>1. Len(w) \in 0..Len(c) /\ w \in [1..Len(w) -> Characters]
    BY <1>1, <1>3, LenProperties
  <2> QED BY <2>1 DEF Lines
<1>4. NULL \notin Lines(c)
  BY <1>1 DEF Lines
<1> QED BY <1>2, <1>3, <1>4

StrAt(a, o) ==
  LET ends == CHOOSE e \in DOMAIN a :
                /\ o <= e /\ a[e] = NUL
                /\ \A j \in DOMAIN a : o <= j /\ j < e => a[j] # NUL
  IN  [k \in 1..(ends - o) |-> a[o + k - 1]]
StringsOf(a, s) == [k \in DOMAIN s |-> StrAt(a, s[k])]

LEMMA AsStrings == Strings = StringsOf(arg, starts)
BY DEF Strings, StringsOf, StringAt, StrAt

LEMMA StringsAt ==
  ASSUME NEW a, NEW s, NEW n \in DOMAIN s
  PROVE  StringsOf(a, s)[n] = StrAt(a, s[n])
BY DEF StringsOf

LEMMA StrFact ==
  ASSUME NEW n \in Nat, NEW a, DOMAIN a = 0..n, a[n] = NUL, NEW o \in 0..n
  PROVE  \E e \in o..n : /\ a[e] = NUL /\ \A j \in o..(e - 1) : a[j] # NUL
                         /\ StrAt(a, o) = [k \in 1..(e - o) |-> a[o + k - 1]]
<1> DEFINE T == {e \in o..n : a[e] = NUL}
           Fits(e) == /\ o <= e /\ a[e] = NUL
                      /\ \A j \in DOMAIN a : o <= j /\ j < e => a[j] # NUL
<1>1. n \in T /\ T \subseteq Nat
  OBVIOUS
<1>2. PICK e \in T : \A j \in T : e <= j
  <2> HIDE DEF T
  <2> QED BY <1>1, NatMin
<1>3. e \in DOMAIN a /\ Fits(e)
  BY <1>2
<1> DEFINE last == CHOOSE x \in DOMAIN a : Fits(x)
<1>4. last \in DOMAIN a /\ Fits(last)
  <2> HIDE DEF Fits
  <2> QED BY <1>3
<1>5. StrAt(a, o) = [k \in 1..(last - o) |-> a[o + k - 1]]
  BY DEF StrAt
<1> HIDE DEF last
<1>6. last \in o..n /\ \A j \in o..(last - 1) : j \in DOMAIN a /\ o <= j /\ j < last
  BY <1>4
<1> QED BY <1>4, <1>5, <1>6

LEMMA StrType ==
  ASSUME NEW n \in Nat, NEW a, DOMAIN a = 0..n, a[n] = NUL, NEW o \in 0..n,
         \A x \in 0..n : a[x] \in Text
  PROVE  StrAt(a, o) \in Seq(Characters) /\ Len(StrAt(a, o)) <= n
<1>1. PICK e \in o..n : /\ a[e] = NUL /\ \A j \in o..(e - 1) : a[j] # NUL
                        /\ StrAt(a, o) = [k \in 1..(e - o) |-> a[o + k - 1]]
  BY StrFact
<1>2. e - o \in Nat /\ e - o <= n
  BY <1>1
<1>3. ASSUME NEW k \in 1..(e - o) PROVE a[o + k - 1] \in Characters
  <2>1. o + k - 1 \in o..(e - 1) /\ o + k - 1 \in 0..n
    BY <1>1, <1>2
  <2> QED BY <2>1, <1>1 DEF Text
<1>4. StrAt(a, o) \in [1..(e - o) -> Characters]
  BY <1>1, <1>3
<1>5. StrAt(a, o) \in Seq(Characters) /\ Len(StrAt(a, o)) = e - o
  BY <1>2, <1>4
<1> QED BY <1>2, <1>5

Ws == StringsOf(arg, starts)

LEMMA WordsType ==
  ASSUME WInv
  PROVE  /\ cli \in Commands /\ Ws \in Seq(Lines(cli)) /\ Len(Ws) = Len(starts)
         /\ Len(starts) \in Nat /\ DOMAIN Ws = DOMAIN starts /\ DOMAIN starts = 1..Len(starts)
<1>1. /\ cli \in Commands /\ argout \in 0..Len(cli) /\ DOMAIN arg = 0..Len(cli)
      /\ arg[Len(cli)] = NUL /\ \A o \in 0..Len(cli) : arg[o] \in Text
      /\ starts \in Seq(Nat) /\ \A k \in DOMAIN starts : starts[k] \in 0..argout
      /\ Len(cli) \in Nat
  BY LenNat DEF WInv, IInv
<1>2. Len(starts) \in Nat /\ DOMAIN starts = 1..Len(starts)
  BY <1>1, LenProperties
<1>3. ASSUME NEW k \in DOMAIN starts PROVE StrAt(arg, starts[k]) \in Lines(cli)
  <2>1. starts[k] \in 0..Len(cli)
    BY <1>1
  <2>2. StrAt(arg, starts[k]) \in Seq(Characters) /\ Len(StrAt(arg, starts[k])) <= Len(cli)
    BY <1>1, <2>1, StrType
  <2> QED BY <1>1, <2>2, LinesFact
<1>4. Ws \in [1..Len(starts) -> Lines(cli)] /\ DOMAIN Ws = 1..Len(starts)
  BY <1>2, <1>3 DEF Ws, StringsOf
<1>5. Ws \in Seq(Lines(cli)) /\ Len(Ws) = Len(starts)
  BY <1>2, <1>4
<1> QED BY <1>1, <1>2, <1>4, <1>5

-----------------------------------------------------------------------------
(* What a word asks for names a file in the word, or none.                  *)
LEMMA OutputFact ==
  ASSUME NEW fd, NEW w \in Seq(Characters)
  PROVE  \/ Output(fd, w).mode \notin {"r", "w", "a"}
         \/ /\ Output(fd, w).fd = fd
            /\ \/ Output(fd, w).file = w
               \/ w # <<>> /\ Output(fd, w).file = Tail(w)
<1>1. "<" \in Characters /\ ">" \in Characters
  BY DEF Characters, Special
<1>2. First(w) = ">" => w # <<>>
  BY <1>1, CharactersFact DEF First
<1> DEFINE append == First(w) = ">"
           file == IF append THEN Tail(w) ELSE w
           R == [fd |-> fd, mode |-> IF append THEN "a" ELSE "w", file |-> file]
<1>3. Output(fd, w) = Refused \/ Output(fd, w) = Plain \/ Output(fd, w) = R
  BY Zenon DEF Output
<1>4. R.fd = fd /\ (R.file = w \/ (w # <<>> /\ R.file = Tail(w)))
  <2>1. file = w \/ (w # <<>> /\ file = Tail(w))
    BY <1>2
  <2> HIDE DEF append, file
  <2> QED BY <2>1
<1>5. Refused.mode \notin {"r", "w", "a"} /\ Plain.mode \notin {"r", "w", "a"}
  BY DEF Refused, Plain
<1> HIDE DEF R
<1> QED BY <1>3, <1>4, <1>5

LEMMA RedirectionFact ==
  ASSUME NEW c \in Commands, NEW w \in Lines(c), Redirection(w).mode \in {"r", "w", "a"}
  PROVE  Redirection(w).fd \in 0..2 /\ Redirection(w).file \in Lines(c) /\ Redirection(w) # Plain
<1> DEFINE Named == Redirection(w).fd \in 0..2 /\ Redirection(w).file \in Lines(c)
<1>1. "<" \in Characters /\ ">" \in Characters
  BY DEF Characters, Special
<1>2. w \in Seq(Characters) /\ Len(w) \in 0..Len(c) /\ Len(c) \in Nat
  BY LinesFact, CharactersFact
<1>3. First(w) \in {"<", ">"} => w # <<>>
  BY <1>1, CharactersFact DEF First
<1>4. ASSUME NEW x \in Seq(Characters), x # <<>>, Len(x) <= Len(c)
      PROVE  Tail(x) \in Seq(Characters) /\ Len(Tail(x)) <= Len(c) /\ Tail(x) \in Lines(c)
  <2>1. Tail(x) \in Seq(Characters) /\ Len(Tail(x)) = Len(x) - 1 /\ Len(x) \in Nat
    BY <1>4, HeadTailProperties, LenProperties
  <2>2. Len(Tail(x)) <= Len(c)
    BY <1>2, <1>4, <2>1
  <2> QED BY <2>1, <2>2, LinesFact
<1>5. ASSUME NEW x \in Seq(Characters), NEW fd \in 0..2, Len(x) <= Len(c),
             Redirection(w) = Output(fd, x)
      PROVE  Named
  <2>1. /\ Output(fd, x).fd = fd
        /\ \/ Output(fd, x).file = x
           \/ x # <<>> /\ Output(fd, x).file = Tail(x)
    BY <1>5, OutputFact
  <2>2. x \in Lines(c)
    BY <1>5, LinesFact
  <2> QED BY <2>1, <2>2, <1>4, <1>5
<1> HIDE DEF Named
<1>6. ASSUME Redirection(w) = [fd |-> 0, mode |-> "r", file |-> Tail(w)] /\ First(w) = "<"
      PROVE  Named
  <2>1. Tail(w) \in Lines(c) /\ Redirection(w).file = Tail(w) /\ Redirection(w).fd = 0
    BY <1>2, <1>3, <1>4, <1>6
  <2> QED BY <2>1 DEF Named
<1>7. ASSUME \E fd \in {1, 2} : Redirection(w) = Output(fd, Tail(Tail(w))) /\ Len(w) > 1
      PROVE  Named
  <2>1. PICK fd \in {1, 2} : Redirection(w) = Output(fd, Tail(Tail(w)))
    BY <1>7
  <2>2. w # <<>> /\ Len(w) > 1
    BY <1>7
  <2>3. Tail(w) \in Seq(Characters) /\ Len(Tail(w)) = Len(w) - 1
    BY <1>2, <2>2, HeadTailProperties
  <2>4. Tail(w) # <<>> /\ Len(Tail(w)) <= Len(c)
    <3> DEFINE lw == Len(w)
               lt == Len(Tail(w))
               n == Len(c)
    <3>3. lw \in 0..n /\ n \in Nat /\ lw > 1 /\ lt = lw - 1
      BY <1>2, <2>2, <2>3
    <3>1. Len(Tail(w)) # 0 /\ Len(Tail(w)) <= Len(c)
      <4> HIDE DEF lw, lt, n
      <4>1. lt # 0 /\ lt <= n
        BY <3>3
      <4> QED BY <4>1 DEF lt, n
    <3>2. Tail(w) # <<>>
      BY ONLY <3>1, EmptySeq
    <3> QED BY <3>1, <3>2
  <2>5. Tail(Tail(w)) \in Seq(Characters) /\ Len(Tail(Tail(w))) <= Len(c)
    BY <2>3, <2>4, <1>4
  <2>6. fd \in 0..2
    OBVIOUS
  <2> QED BY <2>1, <2>5, <2>6, <1>5
<1>8. ASSUME Redirection(w) = Output(1, Tail(w)) /\ First(w) = ">"
      PROVE  Named
  <2>1. Tail(w) \in Seq(Characters) /\ Len(Tail(w)) <= Len(c)
    BY <1>2, <1>3, <1>4, <1>8
  <2>2. 1 \in 0..2
    OBVIOUS
  <2> QED BY <2>1, <2>2, <1>5, <1>8
<1>9. Plain.mode \notin {"r", "w", "a"}
  BY DEF Plain
<1>10. \/ Redirection(w) = [fd |-> 0, mode |-> "r", file |-> Tail(w)] /\ First(w) = "<"
       \/ \E fd \in {1, 2} : Redirection(w) = Output(fd, Tail(Tail(w))) /\ Len(w) > 1
       \/ Redirection(w) = Output(1, Tail(w)) /\ First(w) = ">"
       \/ Redirection(w) = Plain
  BY Zenon DEF Redirection
<1>11. Named
  BY <1>6, <1>7, <1>8, <1>9, <1>10
<1> QED BY <1>9, <1>11 DEF Named

-----------------------------------------------------------------------------
(* Recursion from the end of a list, one or more places at a time.          *)
IsJump(next, L) == next \in [1..L -> 1..(L + 2)] /\ \A k \in 1..L : next[k] > k
RightAt(f, L, pre, next, k) == /\ k > L => f[k] = <<>>
                               /\ ~(k > L) => f[k] = pre[k] \o f[next[k]]

LEMMA DownExists ==
  ASSUME NEW L \in Nat, NEW V, NEW pre \in [1..L -> Seq(V)], NEW next, IsJump(next, L)
  PROVE  \E f \in [1..(L + 2) -> Seq(V)] :
           \A k \in 1..(L + 2) : RightAt(f, L, pre, next, k)
<1> DEFINE Right(f, k) == RightAt(f, L, pre, next, k)
           F == [1..(L + 2) -> Seq(V)]
           H == {j \in 0..L : \E f \in F : \A k \in 1..(L + 2) : k > L - j => Right(f, k)}
<1>0. next \in [1..L -> 1..(L + 2)] /\ \A k \in 1..L : next[k] > k
  BY DEF IsJump
<1>1. 0 \in H
  <2> DEFINE f == [k \in 1..(L + 2) |-> <<>>]
  <2>1. f \in F
    OBVIOUS
  <2>2. ASSUME NEW k \in 1..(L + 2), k > L - 0 PROVE Right(f, k)
    <3>1. k > L /\ f[k] = <<>>
      BY <2>2
    <3> HIDE DEF f
    <3> QED BY <3>1 DEF RightAt
  <2> HIDE DEF Right, F, f
  <2> QED BY <2>1, <2>2
<1>2. ASSUME NEW j \in 0..L, j \in H, j < L PROVE j + 1 \in H
  <2>1. PICK f \in F : \A k \in 1..(L + 2) : k > L - j => Right(f, k)
    BY <1>2
  <2> DEFINE m == L - j
             g == [f EXCEPT ![m] = pre[m] \o f[next[m]]]
  <2>2. /\ m \in 1..L /\ m \in 1..(L + 2) /\ next[m] \in 1..(L + 2) /\ next[m] # m
        /\ pre[m] \in Seq(V) /\ L - (j + 1) = m - 1
    BY <1>0, <1>2
  <2>3. f[next[m]] \in Seq(V)
    BY <2>1, <2>2
  <2>4. pre[m] \o f[next[m]] \in Seq(V)
    BY <2>2, <2>3, ConcatProperties
  <2> HIDE DEF m
  <2>5. g \in F
    BY <2>1, <2>4
  <2>6. /\ g[m] = pre[m] \o f[next[m]]
        /\ \A k \in 1..(L + 2) : k # m => g[k] = f[k]
    BY <2>1, <2>2
  <2> HIDE DEF g
  <2>7. ASSUME NEW k \in 1..(L + 2), k > L - (j + 1) PROVE Right(g, k)
    <3>1. CASE k = m
      <4>1. g[next[m]] = f[next[m]] /\ ~(m > L)
        BY <2>2, <2>6
      <4> QED BY <3>1, <4>1, <2>6 DEF RightAt
    <3>2. CASE k # m
      <4>1. k > L - j /\ g[k] = f[k]
        BY <3>2, <2>2, <2>6, <2>7 DEF m
      <4>2. Right(f, k)
        BY <4>1, <2>1
      <4>3. CASE k > L
        BY <4>1, <4>2, <4>3 DEF RightAt
      <4>4. CASE ~(k > L)
        <5>1. k \in 1..L /\ next[k] \in 1..(L + 2) /\ next[k] > k /\ k > m
          BY <1>0, <4>1, <4>4 DEF m
        <5>2. next[k] # m /\ g[next[k]] = f[next[k]]
          BY <5>1, <2>2, <2>6
        <5> QED BY <4>1, <4>2, <4>4, <5>2 DEF RightAt
      <4> QED BY <4>3, <4>4
    <3> QED BY <3>1, <3>2
  <2>8. j + 1 \in 0..L
    BY <1>2
  <2> HIDE DEF Right, F
  <2> QED BY <2>5, <2>7, <2>8
<1>3. \A j \in 0..L : j \in H
  <2> HIDE DEF H
  <2> QED BY <1>1, <1>2, UpTo0
<1>4. PICK f \in F : \A k \in 1..(L + 2) : k > L - L => Right(f, k)
  <2>1. L \in H
    <3> HIDE DEF H
    <3> QED BY <1>3
  <2> HIDE DEF F, Right
  <2> QED BY <2>1
<1>5. \A k \in 1..(L + 2) : Right(f, k)
  <2> HIDE DEF F, Right
  <2> QED BY <1>4
<1> QED BY <1>4, <1>5

LEMMA DownAll ==
  ASSUME NEW L \in Nat, NEW S, NEW f,
         \A k \in 1..(L + 2) : k > L => f[k] \in S,
         \A k \in 1..L : (\A j \in (k + 1)..(L + 2) : f[j] \in S) => f[k] \in S
  PROVE  \A k \in 1..(L + 2) : f[k] \in S
<1> DEFINE Bad == {d \in 0..(L + 1) : f[L + 2 - d] \notin S}
<1>1. ASSUME Bad # {} PROVE FALSE
  <2>1. PICK d \in Bad : \A e \in Bad : d <= e
    <3>1. Bad \subseteq Nat
      OBVIOUS
    <3> HIDE DEF Bad
    <3> QED BY <1>1, <3>1, NatMin
  <2> DEFINE k == L + 2 - d
  <2>2. k \in 1..(L + 2) /\ f[k] \notin S
    OBVIOUS
  <2>3. k \in 1..L
    BY <2>2
  <2>4. ASSUME NEW j \in (k + 1)..(L + 2) PROVE f[j] \in S
    <3>1. L + 2 - j \in 0..(L + 1) /\ L + 2 - j < d /\ L + 2 - (L + 2 - j) = j
      BY <2>3
    <3>2. L + 2 - j \notin Bad
      BY <3>1, <2>1
    <3> QED BY <3>1, <3>2
  <2> QED BY <2>2, <2>3, <2>4
<1>2. ASSUME NEW k \in 1..(L + 2) PROVE f[k] \in S
  <2>1. L + 2 - k \in 0..(L + 1) /\ L + 2 - (L + 2 - k) = k
    OBVIOUS
  <2>2. L + 2 - k \notin Bad
    BY <1>1
  <2> QED BY <2>1, <2>2
<1> QED BY <1>2

LeftFrom(ws) ==
  LET f[k \in 1..(Len(ws) + 2)] ==
        IF k > Len(ws) THEN <<>>
        ELSE IF Redirection(ws[k]) = Plain THEN <<ws[k]>> \o f[k + 1]
        ELSE f[Skip(ws, k)]
  IN  f
FileAt(ws, k) ==
  LET r == Redirection(ws[k])
  IN  [fd |-> r.fd, file |-> IF r.file = <<>> THEN ws[k + 1] ELSE r.file,
       mode |-> r.mode]
FileSet(ws) == {FileAt(ws, k) : k \in 1..Len(ws)}
FilesFrom(ws) ==
  LET f[k \in 1..(Len(ws) + 2)] ==
        IF k > Len(ws) THEN <<>>
        ELSE IF Redirection(ws[k]) = Plain THEN f[k + 1]
        ELSE LET r == Redirection(ws[k])
             IN  <<[fd |-> r.fd, file |-> IF r.file = <<>> THEN ws[k + 1] ELSE r.file,
                    mode |-> r.mode]>> \o f[Skip(ws, k)]
  IN  f

LEMMA AsLeft == ASSUME NEW ws PROVE Left(ws) = LeftFrom(ws)[1] /\ Files(ws) = FilesFrom(ws)[1]
BY DEF Left, LeftFrom, Files, FilesFrom

LEMMA LeftLaw ==
  ASSUME NEW V, NEW ws \in Seq(V)
  PROVE  /\ LeftFrom(ws) \in [1..(Len(ws) + 2) -> Seq(V)]
         /\ \A k \in 1..(Len(ws) + 2) :
              /\ k > Len(ws) => LeftFrom(ws)[k] = <<>>
              /\ ~(k > Len(ws)) /\ Redirection(ws[k]) = Plain =>
                   LeftFrom(ws)[k] = <<ws[k]>> \o LeftFrom(ws)[k + 1]
              /\ ~(k > Len(ws)) /\ Redirection(ws[k]) # Plain =>
                   LeftFrom(ws)[k] = LeftFrom(ws)[Skip(ws, k)]
<1> DEFINE L == Len(ws)
           pre == [k \in 1..L |-> IF Redirection(ws[k]) = Plain THEN <<ws[k]>> ELSE <<>>]
           next == [k \in 1..L |-> IF Redirection(ws[k]) = Plain THEN k + 1 ELSE Skip(ws, k)]
<1>1. L \in Nat /\ \A k \in 1..L : ws[k] \in V
  BY LenProperties, ElementOfSeq
<1> HIDE DEF L
<1>2. \A k \in 1..L : Skip(ws, k) = k + 1 \/ Skip(ws, k) = k + 2
  BY DEF Skip
<1>3. pre \in [1..L -> Seq(V)]
  <2>1. \A k \in 1..L : <<ws[k]>> \in Seq(V)
    BY <1>1
  <2>2. <<>> \in Seq(V)
    OBVIOUS
  <2> QED BY <2>1, <2>2
<1>4. IsJump(next, L)
  BY <1>1, <1>2 DEF IsJump
<1>5. PICK f \in [1..(L + 2) -> Seq(V)] : \A k \in 1..(L + 2) : RightAt(f, L, pre, next, k)
  <2> HIDE DEF pre, next
  <2> QED BY <1>1, <1>3, <1>4, DownExists
<1> DEFINE Law(g) == g = [k \in 1..(Len(ws) + 2) |->
                            IF k > Len(ws) THEN <<>>
                            ELSE IF Redirection(ws[k]) = Plain THEN <<ws[k]>> \o g[k + 1]
                            ELSE g[Skip(ws, k)]]
<1>6. ASSUME NEW k \in 1..(L + 2), ~(k > L)
      PROVE  /\ Redirection(ws[k]) = Plain => f[k] = <<ws[k]>> \o f[k + 1]
             /\ Redirection(ws[k]) # Plain => f[k] = f[Skip(ws, k)]
  <2>1. k \in 1..L /\ f[k] = pre[k] \o f[next[k]] /\ next[k] \in 1..(L + 2)
    <3>1. k \in 1..L
      BY <1>1, <1>6
    <3> HIDE DEF pre, next
    <3> QED BY <3>1, <1>4, <1>5, <1>6 DEF RightAt, IsJump
  <2>2. f[next[k]] \in Seq(V)
    <3> HIDE DEF next
    <3> QED BY <1>5, <2>1
  <2>3. <<>> \o f[next[k]] = f[next[k]]
    <3> HIDE DEF next
    <3> QED BY <2>2, ConcatEmptySeq
  <2>4. /\ Redirection(ws[k]) = Plain => pre[k] = <<ws[k]>> /\ next[k] = k + 1
        /\ Redirection(ws[k]) # Plain => pre[k] = <<>> /\ next[k] = Skip(ws, k)
    BY <2>1
  <2> HIDE DEF pre, next
  <2> QED BY <2>1, <2>3, <2>4
<1>7. Law(f)
  <2>1. \A k \in 1..(L + 2) : k > L => f[k] = <<>>
    BY <1>5 DEF RightAt
  <2> HIDE DEF pre, next
  <2>2. f = [k \in 1..(L + 2) |->
               IF k > L THEN <<>>
               ELSE IF Redirection(ws[k]) = Plain THEN <<ws[k]>> \o f[k + 1]
               ELSE f[Skip(ws, k)]]
    BY <1>5, <1>6, <2>1
  <2> QED BY <2>2 DEF L
<1>8. Law(LeftFrom(ws))
  <2>1. LeftFrom(ws) = CHOOSE g : Law(g)
    BY DEF LeftFrom
  <2> HIDE DEF Law
  <2> QED BY <2>1, <1>7
<1> DEFINE g == LeftFrom(ws)
<1> HIDE DEF pre, next, g
<1>9. /\ DOMAIN g = 1..(L + 2)
      /\ \A k \in 1..(L + 2) :
           /\ k > L => g[k] = <<>>
           /\ ~(k > L) /\ Redirection(ws[k]) = Plain => g[k] = <<ws[k]>> \o g[k + 1]
           /\ ~(k > L) /\ Redirection(ws[k]) # Plain => g[k] = g[Skip(ws, k)]
  <2>1. g = [k \in 1..(L + 2) |->
               IF k > L THEN <<>>
               ELSE IF Redirection(ws[k]) = Plain THEN <<ws[k]>> \o g[k + 1]
               ELSE g[Skip(ws, k)]]
    BY <1>8 DEF g, L
  <2> HIDE DEF Law
  <2> QED BY <2>1
<1> HIDE DEF Law
<1>10. \A k \in 1..(L + 2) : g[k] \in Seq(V)
  <2>1. \A k \in 1..(L + 2) : k > L => g[k] \in Seq(V)
    <3>1. <<>> \in Seq(V)
      OBVIOUS
    <3> QED BY <3>1, <1>9
  <2>2. ASSUME NEW k \in 1..L, \A j \in (k + 1)..(L + 2) : g[j] \in Seq(V)
        PROVE  g[k] \in Seq(V)
    <3>0. k \in 1..(L + 2) /\ ~(k > L) /\ k + 1 \in (k + 1)..(L + 2) /\ k + 2 \in (k + 1)..(L + 2)
      BY <1>1
    <3>1. /\ k \in 1..(L + 2) /\ ~(k > L) /\ k + 1 \in (k + 1)..(L + 2)
          /\ Skip(ws, k) \in (k + 1)..(L + 2)
      BY <3>0, <1>2
    <3>2. g[k + 1] \in Seq(V) /\ g[Skip(ws, k)] \in Seq(V) /\ <<ws[k]>> \in Seq(V)
      BY <3>1, <2>2, <1>1
    <3>3. <<ws[k]>> \o g[k + 1] \in Seq(V)
      BY <3>2, ConcatProperties
    <3> QED BY <3>1, <3>2, <3>3, <1>9
  <2>3. \A k \in 1..(L + 2) : g[k] \in Seq(V)
    BY <1>1, <2>1, <2>2, DownAll
  <2> QED BY <2>3
<1>11. g \in [1..(L + 2) -> Seq(V)]
  <2>1. g = [k \in DOMAIN g |-> g[k]]
    BY <1>8 DEF g, Law
  <2> QED BY <2>1, <1>9, <1>10
<1> QED BY <1>9, <1>11 DEF g, L

LEMMA FilesLaw ==
  ASSUME NEW W, NEW ws \in Seq(W)
  PROVE  /\ FilesFrom(ws) \in [1..(Len(ws) + 2) -> Seq(FileSet(ws))]
         /\ \A k \in 1..(Len(ws) + 2) :
              /\ k > Len(ws) => FilesFrom(ws)[k] = <<>>
              /\ ~(k > Len(ws)) /\ Redirection(ws[k]) = Plain =>
                   FilesFrom(ws)[k] = FilesFrom(ws)[k + 1]
              /\ ~(k > Len(ws)) /\ Redirection(ws[k]) # Plain =>
                   FilesFrom(ws)[k] = <<FileAt(ws, k)>> \o FilesFrom(ws)[Skip(ws, k)]
<1> DEFINE V == FileSet(ws)
           L == Len(ws)
           pre == [k \in 1..L |-> IF Redirection(ws[k]) = Plain THEN <<>> ELSE <<FileAt(ws, k)>>]
           next == [k \in 1..L |-> IF Redirection(ws[k]) = Plain THEN k + 1 ELSE Skip(ws, k)]
<1>1. L \in Nat /\ \A k \in 1..L : FileAt(ws, k) \in V
  BY LenProperties DEF FileSet
<1> HIDE DEF L, V
<1>2. \A k \in 1..L : Skip(ws, k) = k + 1 \/ Skip(ws, k) = k + 2
  BY DEF Skip
<1>3. pre \in [1..L -> Seq(V)]
  <2>1. \A k \in 1..L : <<FileAt(ws, k)>> \in Seq(V)
    BY <1>1
  <2>2. <<>> \in Seq(V)
    OBVIOUS
  <2> QED BY <2>1, <2>2
<1>4. IsJump(next, L)
  BY <1>1, <1>2 DEF IsJump
<1>5. PICK f \in [1..(L + 2) -> Seq(V)] : \A k \in 1..(L + 2) : RightAt(f, L, pre, next, k)
  <2> HIDE DEF pre, next
  <2> QED BY <1>1, <1>3, <1>4, DownExists
<1> DEFINE Law(g) == g = [k \in 1..(Len(ws) + 2) |->
                            IF k > Len(ws) THEN <<>>
                            ELSE IF Redirection(ws[k]) = Plain THEN g[k + 1]
                            ELSE <<FileAt(ws, k)>> \o g[Skip(ws, k)]]
<1>6. ASSUME NEW k \in 1..(L + 2), ~(k > L)
      PROVE  /\ Redirection(ws[k]) = Plain => f[k] = f[k + 1]
             /\ Redirection(ws[k]) # Plain => f[k] = <<FileAt(ws, k)>> \o f[Skip(ws, k)]
  <2>1. k \in 1..L /\ f[k] = pre[k] \o f[next[k]] /\ next[k] \in 1..(L + 2)
    <3>1. k \in 1..L
      BY <1>1, <1>6
    <3> HIDE DEF pre, next
    <3> QED BY <3>1, <1>4, <1>5, <1>6 DEF RightAt, IsJump
  <2>2. f[next[k]] \in Seq(V)
    <3> HIDE DEF next
    <3> QED BY <1>5, <2>1
  <2>3. <<>> \o f[next[k]] = f[next[k]]
    <3> HIDE DEF next
    <3> QED BY <2>2, ConcatEmptySeq
  <2>4. /\ Redirection(ws[k]) = Plain => pre[k] = <<>> /\ next[k] = k + 1
        /\ Redirection(ws[k]) # Plain => pre[k] = <<FileAt(ws, k)>> /\ next[k] = Skip(ws, k)
    BY <2>1
  <2> HIDE DEF pre, next
  <2> QED BY <2>1, <2>3, <2>4
<1>7. Law(f)
  <2>1. \A k \in 1..(L + 2) : k > L => f[k] = <<>>
    BY <1>5 DEF RightAt
  <2> HIDE DEF pre, next
  <2>2. f = [k \in 1..(L + 2) |->
               IF k > L THEN <<>>
               ELSE IF Redirection(ws[k]) = Plain THEN f[k + 1]
               ELSE <<FileAt(ws, k)>> \o f[Skip(ws, k)]]
    BY <1>5, <1>6, <2>1
  <2> QED BY <2>2 DEF L
<1>8. Law(FilesFrom(ws))
  <2>1. FilesFrom(ws) = CHOOSE g : Law(g)
    BY DEF FilesFrom, FileAt
  <2> HIDE DEF Law
  <2> QED BY <2>1, <1>7
<1> DEFINE g == FilesFrom(ws)
<1> HIDE DEF pre, next, g
<1>9. /\ DOMAIN g = 1..(L + 2)
      /\ \A k \in 1..(L + 2) :
           /\ k > L => g[k] = <<>>
           /\ ~(k > L) /\ Redirection(ws[k]) = Plain => g[k] = g[k + 1]
           /\ ~(k > L) /\ Redirection(ws[k]) # Plain => g[k] = <<FileAt(ws, k)>> \o g[Skip(ws, k)]
  <2>1. g = [k \in 1..(L + 2) |->
               IF k > L THEN <<>>
               ELSE IF Redirection(ws[k]) = Plain THEN g[k + 1]
               ELSE <<FileAt(ws, k)>> \o g[Skip(ws, k)]]
    BY <1>8 DEF g, L
  <2> HIDE DEF Law
  <2> QED BY <2>1
<1> HIDE DEF Law
<1>10. \A k \in 1..(L + 2) : g[k] \in Seq(V)
  <2>1. \A k \in 1..(L + 2) : k > L => g[k] \in Seq(V)
    <3>1. <<>> \in Seq(V)
      OBVIOUS
    <3> QED BY <3>1, <1>9
  <2>2. ASSUME NEW k \in 1..L, \A j \in (k + 1)..(L + 2) : g[j] \in Seq(V)
        PROVE  g[k] \in Seq(V)
    <3>0. k \in 1..(L + 2) /\ ~(k > L) /\ k + 1 \in (k + 1)..(L + 2) /\ k + 2 \in (k + 1)..(L + 2)
      BY <1>1
    <3>1. /\ k \in 1..(L + 2) /\ ~(k > L) /\ k + 1 \in (k + 1)..(L + 2)
          /\ Skip(ws, k) \in (k + 1)..(L + 2)
      BY <3>0, <1>2
    <3>2. g[k + 1] \in Seq(V) /\ g[Skip(ws, k)] \in Seq(V) /\ <<FileAt(ws, k)>> \in Seq(V)
      BY <3>1, <2>2, <1>1
    <3>3. <<FileAt(ws, k)>> \o g[Skip(ws, k)] \in Seq(V)
      BY <3>2, ConcatProperties
    <3> QED BY <3>1, <3>2, <3>3, <1>9
  <2>3. \A k \in 1..(L + 2) : g[k] \in Seq(V)
    BY <1>1, <2>1, <2>2, DownAll
  <2> QED BY <2>3
<1>11. g \in [1..(L + 2) -> Seq(V)]
  <2>1. g = [k \in DOMAIN g |-> g[k]]
    BY <1>8 DEF g, Law
  <2> QED BY <2>1, <1>9, <1>10
<1> QED BY <1>9, <1>11 DEF g, L, V

-----------------------------------------------------------------------------
(* The last file of a stream in a list of files, or what it had before.     *)
Given(s, fd, b) ==
  LET for == {k \in DOMAIN s : s[k].fd = fd}
  IN  IF for = {} THEN b
      ELSE [file |-> s[Max(for)].file, mode |-> s[Max(for)].mode]

LEMMA AsGiven ==
  ASSUME NEW ws, NEW fd PROVE LastFile(ws, fd) = Given(FilesFrom(ws)[1], fd, NULL)
BY AsLeft DEF LastFile, Given

Lacks(s, fd) == \A k \in 1..Len(s) : s[k].fd # fd
IsLast(s, fd, m) == /\ m \in 1..Len(s) /\ s[m].fd = fd
                    /\ \A k \in 1..Len(s) : k > m => s[k].fd # fd

LEMMA GivenNone ==
  ASSUME NEW V, NEW s \in Seq(V), NEW fd, NEW b, Lacks(s, fd)
  PROVE  Given(s, fd, b) = b
<1>1. DOMAIN s = 1..Len(s)
  BY LenProperties
<1>2. {k \in DOMAIN s : s[k].fd = fd} = {}
  BY <1>1 DEF Lacks
<1> QED BY <1>2 DEF Given

LEMMA GivenAt ==
  ASSUME NEW V, NEW s \in Seq(V), NEW fd, NEW b, NEW m, IsLast(s, fd, m)
  PROVE  Given(s, fd, b) = [file |-> s[m].file, mode |-> s[m].mode]
<1> DEFINE for == {k \in DOMAIN s : s[k].fd = fd}
<1>1. DOMAIN s = 1..Len(s) /\ Len(s) \in Nat
  BY LenProperties
<1>2. m \in for /\ for \subseteq Nat /\ \A k \in for : m >= k
  BY <1>1 DEF IsLast
<1> HIDE DEF for
<1>3. Max(for) \in for /\ \A k \in for : Max(for) >= k
  BY <1>2 DEF Max
<1>4. Max(for) = m
  <2> DEFINE x == Max(for)
  <2>1. x \in Nat /\ m \in Nat /\ m >= x /\ x >= m
    BY <1>2, <1>3
  <2> HIDE DEF x
  <2>2. x = m
    BY <2>1
  <2> QED BY <2>2 DEF x
<1>5. for # {}
  BY <1>2
<1> QED BY <1>4, <1>5 DEF Given, for

LEMMA LastMatch ==
  ASSUME NEW V, NEW s \in Seq(V), NEW fd
  PROVE  Lacks(s, fd) \/ \E m : IsLast(s, fd, m)
<1> DEFINE L == Len(s)
           T == {d \in 0..L : d < L /\ s[L - d].fd = fd}
<1>1. L \in Nat
  BY LenProperties
<1> HIDE DEF L
<1>2. CASE T = {}
  <2>1. ASSUME NEW k \in 1..L PROVE s[k].fd # fd
    <3>1. L - k \in 0..L /\ L - k < L /\ L - (L - k) = k
      BY <1>1
    <3> QED BY <3>1, <1>2
  <2> QED BY <2>1 DEF L, Lacks
<1>3. CASE T # {}
  <2>1. PICK d \in T : \A e \in T : d <= e
    <3>1. T \subseteq Nat
      BY <1>1
    <3> HIDE DEF T
    <3> QED BY <1>3, <3>1, NatMin
  <2>2. L - d \in 1..L /\ s[L - d].fd = fd
    BY <1>1, <2>1
  <2>3. ASSUME NEW k \in 1..L, k > L - d PROVE s[k].fd # fd
    <3>1. L - k \in 0..L /\ L - k < L /\ L - (L - k) = k /\ ~(d <= L - k)
      BY <1>1, <2>1, <2>3
    <3> QED BY <3>1, <2>1
  <2>4. IsLast(s, fd, L - d)
    BY <2>2, <2>3 DEF L, IsLast
  <2> QED BY <2>4
<1> QED BY <1>2, <1>3

LEMMA GivenCons ==
  ASSUME NEW V, NEW r \in V, NEW s \in Seq(V), NEW fd, NEW b
  PROVE  /\ r.fd = fd => Given(<<r>> \o s, fd, b)
                         = Given(s, fd, [file |-> r.file, mode |-> r.mode])
         /\ r.fd # fd => Given(<<r>> \o s, fd, b) = Given(s, fd, b)
<1> DEFINE t == <<r>> \o s
           b2 == IF r.fd = fd THEN [file |-> r.file, mode |-> r.mode] ELSE b
<1>1. /\ t \in Seq(V) /\ Len(t) = Len(s) + 1 /\ Len(s) \in Nat
      /\ t[1] = r /\ \A k \in 1..Len(s) : t[k + 1] = s[k]
  <2>1. <<r>> \in Seq(V) /\ Len(<<r>>) = 1 /\ <<r>>[1] = r
    OBVIOUS
  <2>2. Len(s) \in Nat
    BY LenProperties
  <2>3. /\ t \in Seq(V) /\ Len(t) = 1 + Len(s)
        /\ \A k \in 1..(1 + Len(s)) : t[k] = IF k <= 1 THEN <<r>>[k] ELSE s[k - 1]
    BY <2>1, ConcatProperties
  <2>4. t[1] = r
    BY <2>1, <2>2, <2>3
  <2>5. ASSUME NEW k \in 1..Len(s) PROVE t[k + 1] = s[k]
    <3>1. k + 1 \in 1..(1 + Len(s)) /\ ~(k + 1 <= 1) /\ (k + 1) - 1 = k
      BY <2>2
    <3> QED BY <3>1, <2>3
  <2> QED BY <2>2, <2>3, <2>4, <2>5
<1> HIDE DEF t, b2
<1>2. \A k \in 1..Len(t) : k = 1 \/ (k - 1 \in 1..Len(s) /\ t[k] = s[k - 1])
  <2>1. \A k \in 1..Len(t) : k = 1 \/ (k - 1 \in 1..Len(s) /\ (k - 1) + 1 = k)
    BY <1>1
  <2> QED BY <2>1, <1>1
<1>3. CASE Lacks(s, fd)
  <2>1. Given(s, fd, b2) = b2
    BY <1>3, GivenNone
  <2>2. CASE r.fd = fd
    <3>1. IsLast(t, fd, 1)
      <4>1. 1 \in 1..Len(t)
        BY <1>1
      <4>2. ASSUME NEW k \in 1..Len(t), k > 1 PROVE t[k].fd # fd
        <5>1. k # 1
          BY <4>2
        <5> QED BY <5>1, <1>2, <1>3 DEF Lacks
      <4> QED BY <4>1, <4>2, <1>1, <2>2 DEF IsLast
    <3>2. Given(t, fd, b) = [file |-> t[1].file, mode |-> t[1].mode]
      BY <1>1, <2>2, <3>1, GivenAt
    <3> QED BY <2>1, <2>2, <3>2, <1>1 DEF t, b2
  <2>3. CASE r.fd # fd
    <3>1. Lacks(t, fd)
      BY <1>1, <1>2, <1>3, <2>3 DEF Lacks
    <3>2. Given(t, fd, b) = b
      BY <1>1, <3>1, GivenNone
    <3> QED BY <2>1, <2>3, <3>2 DEF t, b2
  <2> QED BY <2>2, <2>3
<1>4. ASSUME NEW m, IsLast(s, fd, m)
      PROVE  Given(t, fd, b) = Given(s, fd, b2)
  <2>1. Given(s, fd, b2) = [file |-> s[m].file, mode |-> s[m].mode]
    BY <1>4, GivenAt
  <2>2. m \in 1..Len(s) /\ m + 1 \in 1..Len(t) /\ t[m + 1] = s[m] /\ s[m].fd = fd
    BY <1>1, <1>4 DEF IsLast
  <2>3. ASSUME NEW k \in 1..Len(t), k > m + 1 PROVE t[k].fd # fd
    <3>1. k # 1 /\ k - 1 > m
      BY <1>1, <2>2, <2>3
    <3> QED BY <3>1, <1>2, <1>4 DEF IsLast
  <2>4. Given(t, fd, b) = [file |-> t[m + 1].file, mode |-> t[m + 1].mode]
    <3>1. IsLast(t, fd, m + 1)
      BY <2>2, <2>3 DEF IsLast
    <3> QED BY <3>1, <1>1, GivenAt
  <2> QED BY <2>1, <2>2, <2>4
<1>5. CASE ~Lacks(s, fd)
  <2>1. Given(t, fd, b) = Given(s, fd, b2)
    BY <1>4, <1>5, LastMatch
  <2> QED BY <2>1 DEF t, b2
<1> QED BY <1>3, <1>5

-----------------------------------------------------------------------------
(* What __cli_redirection has done, of the list of words it was given: the  *)
(* words it has kept, what it has yet to look at, and the last files.       *)
Place == Len(starts) + 1 - (rest - i)

RInv ==
  /\ pc \in {"count", "build", "redirect", "main", "failed"}
  /\ argc \in Nat /\ rest \in 0..argc /\ i \in 0..rest
  /\ DOMAIN bound = 0..2 /\ \A fd \in 0..2 : bound[fd] = NULL \/ bound[fd].file # NULL
  /\ Walking => rest = 0 /\ i = 0 /\ \A fd \in 0..2 : bound[fd] = NULL
  /\ pc = "main" => i = rest
  /\ pc \in {"redirect", "main"} =>
       /\ argv \in Seq(Lines(cli) \cup {NULL}) /\ Len(argv) = argc + 1
       /\ \A j \in 1..rest : argv[j] \in Lines(cli)
       /\ \A j \in 1..(rest - i) : argv[i + j] = Ws[Place + j - 1]
       /\ Left(Ws) = SubSeq(argv, 1, i) \o LeftFrom(Ws)[Place]
       /\ \A fd \in 0..2 : LastFile(Ws, fd) = Given(FilesFrom(Ws)[Place], fd, bound[fd])

LEMMA InitR == Init => RInv
<1> SUFFICES ASSUME Init PROVE RInv
  OBVIOUS
<1>1. /\ pc = "count" /\ argc = 0 /\ rest = 0 /\ i = 0 /\ bound = [fd \in 0..2 |-> NULL]
  BY DEF Init
<1>2. DOMAIN bound = 0..2 /\ \A fd \in 0..2 : bound[fd] = NULL
  BY <1>1
<1> QED BY <1>1, <1>2 DEF RInv

LEMMA BuiltR == ASSUME WInv, RInv, Built PROVE RInv'
<1>1. /\ pc = "build" /\ pc' = "redirect" /\ rest' = argc /\ i' = 0
      /\ argv' = Append([k \in DOMAIN starts |-> StringAt(starts[k])], NULL)
      /\ UNCHANGED <<cli, argc, arg, starts, bound>>
  BY DEF Built, parsing
<1>2. /\ argc \in Nat /\ DOMAIN bound = 0..2
      /\ \A fd \in 0..2 : bound[fd] = NULL
  BY <1>1 DEF RInv, Walking
<1>3. argc' = Len(starts)' /\ WInv'
  BY <1>1, BuiltW DEF WInv
<1>4. argc = Len(starts)
  BY <1>1, <1>3
<1>5. /\ cli \in Commands /\ Ws \in Seq(Lines(cli)) /\ Len(Ws) = argc
      /\ DOMAIN starts = 1..argc
  BY WordsType, <1>4
<1>6. argv' = Append(Ws, NULL)
  BY <1>1 DEF Ws, StringsOf, StringAt, StrAt
<1>7. Ws' = Ws /\ cli' = cli /\ Len(starts)' = Len(starts)
  BY <1>1 DEF Ws
<1>8. Place' = 1
  BY <1>1, <1>2, <1>4, <1>7 DEF Place
<1> DEFINE V == Lines(cli) \cup {NULL}
<1>9. Ws \in Seq(V) /\ NULL \in V
  <2>1. Lines(cli) \subseteq V
    OBVIOUS
  <2> HIDE DEF V
  <2>2. Ws \in Seq(V)
    BY <1>5, <2>1, SeqMonotonic
  <2> QED BY <2>2 DEF V
<1>10. /\ Append(Ws, NULL) \in Seq(V) /\ Len(Append(Ws, NULL)) = argc + 1
       /\ \A j \in 1..argc : Append(Ws, NULL)[j] = Ws[j]
  <2> HIDE DEF V
  <2> QED BY <1>5, <1>9, AppendProperties
<1>11. \A j \in 1..argc : Ws[j] \in Lines(cli)
  BY <1>5, ElementOfSeq
<1>12. SubSeq(Append(Ws, NULL), 1, 0) = <<>>
  BY SubSeqEmpty
<1>13. LeftFrom(Ws)[1] \in Seq(Lines(cli)) /\ <<>> \o LeftFrom(Ws)[1] = LeftFrom(Ws)[1]
  <2>1. LeftFrom(Ws) \in [1..(argc + 2) -> Seq(Lines(cli))]
    BY <1>5, LeftLaw
  <2>2. LeftFrom(Ws)[1] \in Seq(Lines(cli))
    BY <2>1, <1>2
  <2> QED BY <2>2, ConcatEmptySeq
<1>14. Left(Ws) = LeftFrom(Ws)[1]
  BY AsLeft
<1>15. \A fd \in 0..2 : LastFile(Ws, fd) = Given(FilesFrom(Ws)[1], fd, bound[fd])
  BY <1>2, AsGiven
<1>16. /\ argv' \in Seq(V) /\ Len(argv') = argc + 1
       /\ \A j \in 1..rest' : argv'[j] \in Lines(cli)
       /\ \A j \in 1..(rest' - i') : argv'[i' + j] = Ws[1 + j - 1]
  <2>1. \A j \in 1..(rest' - i') : j \in 1..argc /\ i' + j = j /\ 1 + j - 1 = j
    BY <1>1, <1>2
  <2> QED BY <1>1, <1>6, <1>10, <1>11, <2>1
<1>17. Left(Ws) = SubSeq(argv', 1, i') \o LeftFrom(Ws)[1]
  BY <1>1, <1>6, <1>12, <1>13, <1>14
<1>18. argc' = argc /\ bound' = bound /\ rest' \in 0..argc /\ i' \in 0..rest'
  BY <1>1, <1>2
<1>19. /\ argv' \in Seq(Lines(cli)' \cup {NULL}) /\ Len(argv)' = argc' + 1
       /\ \A j \in 1..rest' : argv'[j] \in Lines(cli)'
       /\ \A j \in 1..(rest' - i') : argv'[i' + j] = Ws'[Place' + j - 1]
       /\ Left(Ws)' = SubSeq(argv, 1, i)' \o LeftFrom(Ws)'[Place']
       /\ \A fd \in 0..2 : LastFile(Ws, fd)' = Given(FilesFrom(Ws)[Place], fd, bound[fd])'
  BY <1>7, <1>8, <1>15, <1>16, <1>17, <1>18
<1> QED BY <1>1, <1>2, <1>18, <1>19 DEF RInv, Walking

(* One word of the list: kept, or taken out with the file it names.         *)
LEMMA WordStep ==
  ASSUME NEW V, NEW ws \in Seq(V), NEW k \in 1..Len(ws)
  PROVE  /\ Redirection(ws[k]) = Plain =>
              /\ LeftFrom(ws)[k] = <<ws[k]>> \o LeftFrom(ws)[k + 1]
              /\ FilesFrom(ws)[k] = FilesFrom(ws)[k + 1]
         /\ Redirection(ws[k]) # Plain =>
              /\ LeftFrom(ws)[k] = LeftFrom(ws)[Skip(ws, k)]
              /\ FilesFrom(ws)[k] = <<FileAt(ws, k)>> \o FilesFrom(ws)[Skip(ws, k)]
         /\ FileAt(ws, k) \in FileSet(ws)
         /\ FilesFrom(ws) \in [1..(Len(ws) + 2) -> Seq(FileSet(ws))]
<1>1. \A j \in 1..Len(ws) : FileAt(ws, j) \in FileSet(ws)
  BY DEF FileSet
<1>2. k \in 1..(Len(ws) + 2) /\ ~(k > Len(ws))
  <2>1. Len(ws) \in Nat
    BY LenProperties
  <2> QED BY <2>1
<1>3. /\ Redirection(ws[k]) = Plain => LeftFrom(ws)[k] = <<ws[k]>> \o LeftFrom(ws)[k + 1]
      /\ Redirection(ws[k]) # Plain => LeftFrom(ws)[k] = LeftFrom(ws)[Skip(ws, k)]
  BY <1>2, LeftLaw
<1>4. /\ FilesFrom(ws) \in [1..(Len(ws) + 2) -> Seq(FileSet(ws))]
      /\ \A j \in 1..(Len(ws) + 2) :
           /\ ~(j > Len(ws)) /\ Redirection(ws[j]) = Plain =>
                FilesFrom(ws)[j] = FilesFrom(ws)[j + 1]
           /\ ~(j > Len(ws)) /\ Redirection(ws[j]) # Plain =>
                FilesFrom(ws)[j] = <<FileAt(ws, j)>> \o FilesFrom(ws)[Skip(ws, j)]
  BY FilesLaw
<1> QED BY <1>1, <1>2, <1>3, <1>4

(* A word at the front of what is left to look at.                          *)
LEMMA AtPlace ==
  ASSUME WInv, RInv, pc = "redirect", i < rest
  PROVE  /\ cli \in Commands /\ Ws \in Seq(Lines(cli)) /\ Len(Ws) = argc /\ argc = Len(starts)
         /\ argc \in Nat /\ rest \in 0..argc /\ i \in 0..rest /\ Place \in 1..argc
         /\ Place = argc + 1 - (rest - i) /\ argv[i + 1] = Ws[Place]
         /\ argv[i + 1] \in Lines(cli) /\ Current = Redirection(Ws[Place])
         /\ LeftFrom(Ws) \in [1..(argc + 2) -> Seq(Lines(cli))]
         /\ argv \in Seq(Lines(cli) \cup {NULL}) /\ Len(argv) = argc + 1
         /\ \A j \in 1..rest : argv[j] \in Lines(cli)
<1>1. argc = Len(starts) /\ argc \in Nat /\ rest \in 0..argc /\ i \in 0..rest
  BY DEF WInv, RInv
<1>2. cli \in Commands /\ Ws \in Seq(Lines(cli)) /\ Len(Ws) = argc
  BY <1>1, WordsType
<1>3. /\ \A j \in 1..rest : argv[j] \in Lines(cli)
      /\ \A j \in 1..(rest - i) : argv[i + j] = Ws[Place + j - 1]
      /\ argv \in Seq(Lines(cli) \cup {NULL}) /\ Len(argv) = argc + 1
  BY DEF RInv
<1>4. Place \in 1..argc /\ Place = argc + 1 - (rest - i)
  BY <1>1 DEF Place
<1>5. 1 \in 1..(rest - i) /\ i + 1 \in 1..rest /\ Place + 1 - 1 = Place
  BY <1>1, <1>4
<1>6. argv[i + 1] = Ws[Place] /\ argv[i + 1] \in Lines(cli)
  BY <1>3, <1>5
<1>7. LeftFrom(Ws) \in [1..(argc + 2) -> Seq(Lines(cli))]
  BY <1>2, LeftLaw
<1> QED BY <1>1, <1>2, <1>3, <1>4, <1>6, <1>7 DEF Current

LEMMA KeptR == ASSUME WInv, RInv, NotRedirection PROVE RInv'
<1>1. /\ pc = "redirect" /\ i < rest /\ Current = Plain /\ i' = i + 1
      /\ UNCHANGED <<pc, cli, argc, arg, starts, argv, rest, bound>>
  BY DEF NotRedirection, parsing
<1>2. /\ cli \in Commands /\ Ws \in Seq(Lines(cli)) /\ Len(Ws) = argc /\ argc = Len(starts)
      /\ argc \in Nat /\ rest \in 0..argc /\ i \in 0..rest /\ Place \in 1..argc
      /\ Place = argc + 1 - (rest - i) /\ argv[i + 1] = Ws[Place]
      /\ argv[i + 1] \in Lines(cli) /\ Current = Redirection(Ws[Place])
      /\ LeftFrom(Ws) \in [1..(argc + 2) -> Seq(Lines(cli))]
      /\ argv \in Seq(Lines(cli) \cup {NULL}) /\ Len(argv) = argc + 1
      /\ \A j \in 1..rest : argv[j] \in Lines(cli)
  BY <1>1, AtPlace
<1>3. /\ \A j \in 1..(rest - i) : argv[i + j] = Ws[Place + j - 1]
      /\ Left(Ws) = SubSeq(argv, 1, i) \o LeftFrom(Ws)[Place]
      /\ \A fd \in 0..2 : LastFile(Ws, fd) = Given(FilesFrom(Ws)[Place], fd, bound[fd])
  BY <1>1 DEF RInv
<1>4. Place \in 1..(argc + 2) /\ ~(Place > argc) /\ Place + 1 \in 1..(argc + 2)
  BY <1>2
<1>5. /\ LeftFrom(Ws)[Place] = <<Ws[Place]>> \o LeftFrom(Ws)[Place + 1]
      /\ FilesFrom(Ws)[Place] = FilesFrom(Ws)[Place + 1]
  <2>1. Redirection(Ws[Place]) = Plain
    BY <1>1, <1>2
  <2>2. Place \in 1..Len(Ws)
    BY <1>2
  <2> QED BY <1>2, <2>1, <2>2, WordStep
<1> DEFINE V == Lines(cli)
           q == SubSeq(argv, 1, i)
           l == LeftFrom(Ws)[Place + 1]
           w == argv[i + 1]
<1>6. SubSeq(argv, 1, i + 1) = q \o <<w>>
  <2>1. argv \in Seq(V \cup {NULL}) /\ 1 \in 1..Len(argv) /\ i + 1 \in 1..Len(argv) /\ (i + 1) - 1 = i
    BY <1>1, <1>2
  <2>2. SubSeq(argv, 1, i + 1) = SubSeq(argv, 1, (i + 1) - 1) \o <<argv[i + 1]>>
    <3> HIDE DEF V
    <3> QED BY <2>1, SubSeqRecursiveSecond
  <2> QED BY <2>1, <2>2
<1>7. q \in Seq(V) /\ <<w>> \in Seq(V) /\ l \in Seq(V)
  <2>1. 1 \in Int /\ i \in Int /\ \A j \in 1..i : argv[j] \in V
    BY <1>1, <1>2
  <2>2. q \in Seq(V)
    <3> HIDE DEF V
    <3> QED BY <2>1, SubSeqProperties
  <2>3. l \in Seq(V)
    BY <1>2, <1>4
  <2> QED BY <1>2, <2>2, <2>3
<1>8. Left(Ws) = SubSeq(argv, 1, i + 1) \o LeftFrom(Ws)[Place + 1]
  <2>1. Left(Ws) = q \o (<<w>> \o l)
    BY <1>2, <1>3, <1>5
  <2> HIDE DEF V, q, l, w
  <2>2. q \o (<<w>> \o l) = (q \o <<w>>) \o l
    BY <1>7, ConcatAssociative
  <2>3. Left(Ws) = (q \o <<w>>) \o l
    BY <2>1, <2>2
  <2> QED BY <1>6, <2>3 DEF l
<1>9. \A fd \in 0..2 : LastFile(Ws, fd) = Given(FilesFrom(Ws)[Place + 1], fd, bound[fd])
  BY <1>3, <1>5
<1>10. ASSUME NEW j \in 1..(rest - (i + 1)) PROVE argv[(i + 1) + j] = Ws[(Place + 1) + j - 1]
  <2>1. j + 1 \in 1..(rest - i) /\ i + (j + 1) = (i + 1) + j /\ Place + (j + 1) - 1 = (Place + 1) + j - 1
    BY <1>1, <1>2
  <2> QED BY <2>1, <1>3
<1> HIDE DEF V, q, l, w
<1>11. Ws' = Ws /\ Place' = Place + 1 /\ cli' = cli /\ argc' = argc
  <2>1. Ws' = Ws /\ Len(starts)' = Len(starts)
    BY <1>1 DEF Ws
  <2> QED BY <2>1, <1>1, <1>2 DEF Place
<1>12. i' \in 0..rest'
  BY <1>1, <1>2
<1>13. /\ argv' \in Seq(Lines(cli)' \cup {NULL}) /\ Len(argv)' = argc' + 1
       /\ \A j \in 1..rest' : argv'[j] \in Lines(cli)'
       /\ \A j \in 1..(rest' - i') : argv'[i' + j] = Ws'[Place' + j - 1]
       /\ Left(Ws)' = SubSeq(argv, 1, i)' \o LeftFrom(Ws)'[Place']
       /\ \A fd \in 0..2 : LastFile(Ws, fd)' = Given(FilesFrom(Ws)[Place], fd, bound[fd])'
  BY <1>1, <1>2, <1>8, <1>9, <1>10, <1>11
<1> QED BY <1>1, <1>2, <1>11, <1>12, <1>13 DEF RInv, Walking

LEMMA TakenR == ASSUME WInv, RInv, Redirect PROVE RInv'
<1> DEFINE n == Taken
           r == Redirection(Ws[Place])
           f == IF n = 2 THEN argv[i + 2] ELSE Current.file
           g == FileAt(Ws, Place)
<1>1. /\ pc = "redirect" /\ i < rest /\ Current.mode \in {"r", "w", "a"} /\ i + n <= rest
      /\ bound' = [bound EXCEPT ![Current.fd] = [file |-> f, mode |-> Current.mode]]
      /\ argv' = Removed(n) /\ rest' = rest - n
      /\ UNCHANGED <<pc, cli, argc, arg, starts, i>>
  BY DEF Redirect, Bind, parsing
<1>2. /\ cli \in Commands /\ Ws \in Seq(Lines(cli)) /\ Len(Ws) = argc /\ argc = Len(starts)
      /\ argc \in Nat /\ rest \in 0..argc /\ i \in 0..rest /\ Place \in 1..argc
      /\ Place = argc + 1 - (rest - i) /\ argv[i + 1] = Ws[Place]
      /\ argv[i + 1] \in Lines(cli) /\ Current = Redirection(Ws[Place])
      /\ LeftFrom(Ws) \in [1..(argc + 2) -> Seq(Lines(cli))]
      /\ argv \in Seq(Lines(cli) \cup {NULL}) /\ Len(argv) = argc + 1
      /\ \A j \in 1..rest : argv[j] \in Lines(cli)
  BY <1>1, AtPlace
<1>3. /\ \A j \in 1..(rest - i) : argv[i + j] = Ws[Place + j - 1]
      /\ Left(Ws) = SubSeq(argv, 1, i) \o LeftFrom(Ws)[Place]
      /\ \A fd \in 0..2 : LastFile(Ws, fd) = Given(FilesFrom(Ws)[Place], fd, bound[fd])
      /\ DOMAIN bound = 0..2 /\ \A fd \in 0..2 : bound[fd] = NULL \/ bound[fd].file # NULL
  BY <1>1 DEF RInv
<1>fits. /\ argc \in Nat /\ rest \in Nat /\ i \in Nat /\ i + n <= rest /\ rest' = rest - n
         /\ i' = i /\ argc' = argc /\ Place = argc + 1 - (rest - i) /\ argc = Len(starts)
         /\ Place \in Nat
  BY <1>1, <1>2
<1>4. /\ n = IF r.file = <<>> THEN 2 ELSE 1
      /\ Skip(Ws, Place) = Place + n
  BY <1>2 DEF Taken, Skip
<1>5. n \in 1..2 /\ (n = 2 <=> r.file = <<>>)
  BY <1>4
<1>6. r.fd \in 0..2 /\ r.file \in Lines(cli) /\ r # Plain /\ NULL \notin Lines(cli)
  BY <1>1, <1>2, RedirectionFact, LinesFact
<1>7. f \in Lines(cli) /\ g = [fd |-> r.fd, file |-> f, mode |-> r.mode]
  <2>1. CASE n = 2
    <3>1. i + 2 \in 1..rest /\ 2 \in 1..(rest - i) /\ Place + 2 - 1 = Place + 1
      BY <1>fits, <2>1
    <3>2. argv[i + 2] = Ws[Place + 1] /\ argv[i + 2] \in Lines(cli)
      BY <3>1, <1>2, <1>3
    <3>3. f = argv[i + 2]
      BY <2>1
    <3>4. g = [fd |-> r.fd, file |-> Ws[Place + 1], mode |-> r.mode]
      BY <1>5, <2>1 DEF FileAt
    <3> HIDE DEF f, g
    <3> QED BY <3>2, <3>3, <3>4
  <2>2. CASE n # 2
    <3>1. f = r.file
      BY <1>2, <2>2
    <3>2. g = [fd |-> r.fd, file |-> r.file, mode |-> r.mode]
      BY <1>5, <2>2 DEF FileAt
    <3> HIDE DEF f, g
    <3> QED BY <1>6, <3>1, <3>2
  <2> QED BY <2>1, <2>2
<1>8. Place \in 1..(argc + 2) /\ ~(Place > argc) /\ Place + n \in 1..(argc + 2)
  BY <1>2, <1>5
<1> HIDE DEF f, g, n, r
<1> DEFINE V == FileSet(Ws)
<1>9. LeftFrom(Ws)[Place] = LeftFrom(Ws)[Place + n]
  <2>1. Redirection(Ws[Place]) # Plain /\ Place \in 1..Len(Ws)
    BY <1>2, <1>6 DEF r
  <2>2. LeftFrom(Ws)[Place] = LeftFrom(Ws)[Skip(Ws, Place)]
    BY <1>2, <2>1, WordStep
  <2> QED BY <1>4, <2>2
<1>10. /\ FilesFrom(Ws)[Place] = <<g>> \o FilesFrom(Ws)[Place + n]
       /\ g \in V /\ FilesFrom(Ws)[Place + n] \in Seq(V)
  <2>1. Redirection(Ws[Place]) # Plain /\ Place \in 1..Len(Ws)
    BY <1>2, <1>6 DEF r
  <2>2. /\ FilesFrom(Ws)[Place] = <<g>> \o FilesFrom(Ws)[Skip(Ws, Place)] /\ g \in V
        /\ FilesFrom(Ws) \in [1..(Len(Ws) + 2) -> Seq(V)]
    BY <1>2, <2>1, WordStep DEF g
  <2> HIDE DEF V
  <2>3. Place + n \in 1..(Len(Ws) + 2)
    BY <1>2, <1>8
  <2> QED BY <1>4, <2>2, <2>3
<1> HIDE DEF V
<1>11. ASSUME NEW fd \in 0..2
       PROVE  LastFile(Ws, fd) = Given(FilesFrom(Ws)[Place + n], fd, bound'[fd])
  <2> DEFINE s == FilesFrom(Ws)[Place + n]
  <2>1. LastFile(Ws, fd) = Given(<<g>> \o s, fd, bound[fd])
    BY <1>3, <1>10
  <2>2. g.fd = r.fd /\ g.file = f /\ g.mode = r.mode
    BY <1>7
  <2>3. /\ fd = r.fd => bound'[fd] = [file |-> g.file, mode |-> g.mode]
        /\ fd # r.fd => bound'[fd] = bound[fd]
    BY <1>1, <1>2, <1>3, <2>2 DEF r
  <2>4. /\ g.fd = fd => Given(<<g>> \o s, fd, bound[fd])
                        = Given(s, fd, [file |-> g.file, mode |-> g.mode])
        /\ g.fd # fd => Given(<<g>> \o s, fd, bound[fd]) = Given(s, fd, bound[fd])
    <3> HIDE DEF s
    <3>1. g \in V /\ s \in Seq(V)
      BY <1>10 DEF s
    <3> QED BY <3>1, GivenCons
  <2> HIDE DEF s
  <2>5. LastFile(Ws, fd) = Given(s, fd, bound'[fd])
    BY <2>1, <2>2, <2>3, <2>4
  <2> QED BY <2>5 DEF s
<1>12. DOMAIN bound' = 0..2 /\ \A fd \in 0..2 : bound'[fd] = NULL \/ bound'[fd].file # NULL
  <2>1. DOMAIN bound' = 0..2
    BY <1>1, <1>3
  <2>2. ASSUME NEW fd \in 0..2 PROVE bound'[fd] = NULL \/ bound'[fd].file # NULL
    <3>1. bound'[fd] = bound[fd] \/ bound'[fd] = [file |-> f, mode |-> Current.mode]
      BY <1>1, <1>3
    <3>2. f # NULL
      BY <1>6, <1>7
    <3> QED BY <3>1, <3>2, <1>3
  <2> QED BY <2>1, <2>2
<1> DEFINE N == argc + 1
           U == Lines(cli) \cup {NULL}
<1>13. argv \in [1..N -> U] /\ N \in Nat
  <2>1. N \in Nat
    BY <1>2
  <2> HIDE DEF U
  <2> QED BY <1>2, <2>1, LenProperties DEF U
<1>14. ASSUME NEW j \in 1..N
       PROVE  /\ i < j /\ j <= rest - n => argv'[j] = argv[j + n] /\ j + n \in 1..rest /\ j + n \in 1..N
              /\ ~(i < j) => argv'[j] = argv[j]
              /\ argv'[j] \in U
  <2>1. argv'[j] = IF i < j /\ j <= rest - n THEN argv[j + n] ELSE argv[j]
    BY <1>1, <1>13 DEF Removed
  <2>2. i < j /\ j <= rest - n => j + n \in 1..rest /\ j + n \in 1..N
    <3>1. rest <= argc
      BY <1>2
    <3> QED BY <3>1, <1>fits, <1>5
  <2>3. argv[j] \in U
    BY <1>13
  <2>4. j + n \in 1..N => argv[j + n] \in U
    BY <1>13
  <2> HIDE DEF N, U
  <2> QED BY <2>1, <2>2, <2>3, <2>4
<1>15. argv' \in Seq(U) /\ Len(argv') = N
  <2>1. argv' = [j \in 1..N |-> argv'[j]]
    BY <1>1, <1>13 DEF Removed
  <2>2. argv' \in [1..N -> U]
    <3> HIDE DEF N, U
    <3> QED BY <2>1, <1>14
  <2> HIDE DEF N, U
  <2> QED BY <2>2, <1>13
<1>16. ASSUME NEW j \in 1..(rest - n) PROVE argv'[j] \in Lines(cli)
  <2>0. rest <= argc
    BY <1>2
  <2>1. j \in 1..N /\ j <= rest - n /\ j \in 1..rest
    BY <2>0, <1>fits, <1>5
  <2> HIDE DEF N
  <2> QED BY <2>1, <1>2, <1>14
<1>17. ASSUME NEW j \in 1..((rest - n) - i) PROVE argv'[i + j] = Ws[(Place + n) + j - 1]
  <2>0. rest <= argc /\ j \in Nat /\ 1 <= j /\ j <= (rest - n) - i
    BY <1>2, <1>fits, <1>5
  <2>1. i + j \in 1..N /\ i < i + j /\ i + j <= rest - n
    BY <2>0, <1>fits, <1>5
  <2>2. argv'[i + j] = argv[(i + j) + n]
    <3> HIDE DEF N
    <3> QED BY <2>1, <1>14
  <2>3. j + n \in 1..(rest - i) /\ i + (j + n) = (i + j) + n /\ Place + (j + n) - 1 = (Place + n) + j - 1
    BY <2>0, <1>fits, <1>5
  <2> QED BY <2>2, <2>3, <1>3
<1>18. SubSeq(argv', 1, i) = SubSeq(argv, 1, i)
  <2>1. 1 \in Int /\ i \in Int /\ i - 1 + 1 = i
    BY <1>2
  <2>2. \A j \in 1..i : j \in 1..N /\ ~(i < j)
    BY <1>2
  <2>3. \A j \in 1..i : argv'[j] = argv[j] /\ argv[j] \in U
    <3> HIDE DEF N, U
    <3> QED BY <2>2, <1>13, <1>14
  <2>4. \A j \in 1..i : argv'[j] \in U
    <3> HIDE DEF U
    <3> QED BY <2>3
  <2> DEFINE a == SubSeq(argv', 1, i)
             b == SubSeq(argv, 1, i)
  <2> HIDE DEF U
  <2>5. /\ b \in Seq(U) /\ Len(b) = IF 1 <= i THEN i - 1 + 1 ELSE 0
        /\ \A j \in 1..(i - 1 + 1) : b[j] = argv[1 + j - 1]
    BY <2>1, <2>3, SubSeqProperties
  <2>6. /\ a \in Seq(U) /\ Len(a) = IF 1 <= i THEN i - 1 + 1 ELSE 0
        /\ \A j \in 1..(i - 1 + 1) : a[j] = argv'[1 + j - 1]
    BY <2>1, <2>4, SubSeqProperties
  <2> HIDE DEF a, b
  <2>7. Len(a) = i /\ Len(b) = i
    BY <1>2, <2>5, <2>6
  <2>8. ASSUME NEW j \in 1..Len(a) PROVE a[j] = b[j]
    <3>1. j \in 1..(i - 1 + 1) /\ 1 + j - 1 = j /\ j \in 1..i
      BY <1>2, <2>7
    <3> QED BY <3>1, <2>3, <2>5, <2>6
  <2>9. a = b
    BY <2>5, <2>6, <2>7, <2>8, SeqEqual
  <2> QED BY <2>9 DEF a, b
<1>19. Left(Ws) = SubSeq(argv', 1, i) \o LeftFrom(Ws)[Place + n]
  BY <1>3, <1>9, <1>18
<1>20. Ws' = Ws /\ Place' = Place + n /\ cli' = cli /\ argc' = argc
  <2>1. Ws' = Ws /\ Len(starts)' = Len(starts)
    BY <1>1 DEF Ws
  <2>2. (Len(starts) + 1 - (rest - i))' = argc + 1 - (rest - i) + n
    BY <1>fits, <1>5, <2>1
  <2> QED BY <2>1, <2>2, <1>1, <1>fits DEF Place
<1>21. rest' \in 0..argc /\ i' \in 0..rest'
  BY <1>1, <1>2, <1>5
<1>22. /\ argv' \in Seq(Lines(cli)' \cup {NULL}) /\ Len(argv)' = argc' + 1
       /\ \A j \in 1..rest' : argv'[j] \in Lines(cli)'
       /\ \A j \in 1..(rest' - i') : argv'[i' + j] = Ws'[Place' + j - 1]
       /\ Left(Ws)' = SubSeq(argv, 1, i)' \o LeftFrom(Ws)'[Place']
       /\ \A fd \in 0..2 : LastFile(Ws, fd)' = Given(FilesFrom(Ws)[Place], fd, bound[fd])'
  <2>1. argv' \in Seq(Lines(cli)' \cup {NULL}) /\ Len(argv)' = argc' + 1
    BY <1>15, <1>20
  <2>2. /\ \A j \in 1..rest' : argv'[j] \in Lines(cli)'
        /\ \A j \in 1..(rest' - i') : argv'[i' + j] = Ws'[Place' + j - 1]
    BY <1>1, <1>16, <1>17, <1>20
  <2>3. /\ Left(Ws)' = SubSeq(argv, 1, i)' \o LeftFrom(Ws)'[Place']
        /\ \A fd \in 0..2 : LastFile(Ws, fd)' = Given(FilesFrom(Ws)[Place], fd, bound[fd])'
    BY <1>1, <1>11, <1>19, <1>20
  <2> QED BY <2>1, <2>2, <2>3
<1> QED BY <1>1, <1>2, <1>12, <1>20, <1>21, <1>22 DEF RInv, Walking

LEMMA StepR == ASSUME WInv, RInv, [Next]_vars PROVE RInv'
<1>1. CASE Count \/ Counted \/ Build
  <2>1. /\ Walking /\ pc' \in {"count", "build", "failed"} /\ UNCHANGED <<rest, i, bound>>
    BY <1>1 DEF Count, Counted, Build, redirecting, Walking
  <2>2. argc' \in Nat
    BY <1>1 DEF RInv, Count, Counted, Build
  <2>3. /\ rest' = 0 /\ i' = 0 /\ bound' = bound /\ DOMAIN bound = 0..2
        /\ \A fd \in 0..2 : bound[fd] = NULL
    BY <2>1 DEF RInv
  <2>4. /\ rest' \in 0..argc' /\ i' \in 0..rest' /\ DOMAIN bound' = 0..2
        /\ \A fd \in 0..2 : bound'[fd] = NULL
    BY <2>2, <2>3
  <2> QED BY ONLY <2>1, <2>2, <2>3, <2>4 DEF RInv
<1>2. CASE Built
  BY <1>2, BuiltR
<1>3. CASE NotRedirection
  BY <1>3, KeptR
<1>4. CASE Redirect
  BY <1>4, TakenR
<1>5. CASE RedirectFails
  <2>1. pc' = "failed" /\ UNCHANGED <<argc, rest, i, bound>>
    BY <1>5 DEF RedirectFails, redirecting
  <2> QED BY <2>1 DEF RInv, Walking
<1>6. CASE main
  <2>1. /\ pc = "redirect" /\ i = rest /\ pc' = "main"
        /\ UNCHANGED <<cli, argc, arg, starts, argv, rest, i, bound>>
    BY <1>6 DEF main, redirecting, parsing
  <2>2. Ws' = Ws /\ Place' = Place
    BY <2>1 DEF Ws, Place
  <2> QED BY <2>1, <2>2 DEF RInv, Walking
<1>7. CASE UNCHANGED vars
  <2>1. UNCHANGED <<pc, cli, argc, arg, starts, argv, rest, i, bound>>
    BY <1>7 DEF vars
  <2>2. Ws' = Ws /\ Place' = Place
    BY <2>1 DEF Ws, Place
  <2> QED BY <2>1, <2>2 DEF RInv, Walking
<1> QED BY <1>1, <1>2, <1>3, <1>4, <1>5, <1>6, <1>7 DEF Next

LEMMA AlwaysWR == Spec => [](WInv /\ RInv)
<1>1. Init => WInv /\ RInv
  BY InitW, InitR
<1>2. WInv /\ RInv /\ [Next]_vars => WInv' /\ RInv'
  BY StepW, StepR
<1> QED BY <1>1, <1>2, PTL DEF Spec

(* Both walks stay in the copy and find the same words: argv has a slot for *)
(* each of them and for the NULL behind, whatever is typed.                 *)
THEOREM TypeCorrect == Spec => []TypeOK
<1>1. ASSUME WInv, RInv PROVE TypeOK
  <2>1. /\ cli \in Commands /\ p \in 0..Len(cli) /\ argout \in 0..Len(cli)
        /\ DOMAIN arg = 0..Len(cli) /\ \A k \in DOMAIN starts : starts[k] \in 0..argout
    BY <1>1 DEF WInv, IInv
  <2>2. ASSUME pc = "build" PROVE argc < slots
    <3>1. argc = Len(Walk(cli)[p].starts) /\ slots = Len(Ends.starts) + 1
      BY <1>1, <2>2 DEF WInv, Walking
    <3>2. Len(cli) \in Nat /\ Len(cli) \in 0..Len(cli) /\ p \in 0..Len(cli)
      BY <2>1, LenNat
    <3>3. Len(Walk(cli)[p].starts) <= Len(Ends.starts)
      BY <2>1, <3>2, WalkBounds DEF Ends
    <3>4. argc \in Nat /\ Len(Ends.starts) \in Nat
      <4>1. Ends \in Progress
        BY <2>1, <3>2, WalkStep DEF Ends
      <4> QED BY <1>1, <4>1, LenProperties DEF RInv, Progress
    <3> QED BY <3>1, <3>3, <3>4
  <2>3. ASSUME pc \in {"redirect", "main"} PROVE argc = slots - 1 /\ Len(argv) = slots
    <3>1. slots = argc + 1
      BY <1>1, <2>3 DEF WInv
    <3>2. argc \in Nat /\ Len(argv) = argc + 1
      BY <1>1, <2>3 DEF RInv
    <3> QED BY <3>1, <3>2
  <2>4. /\ i \in 0..rest /\ rest \in 0..argc /\ \A fd \in 0..2 : bound[fd] = NULL \/ bound[fd].file # NULL
        /\ pc \in {"count", "build", "redirect", "main", "failed"}
    BY <1>1 DEF RInv
  <2> QED BY <2>1, <2>2, <2>3, <2>4 DEF TypeOK
<1> QED BY <1>1, AlwaysWR, PTL

(* However long argv is and wherever the redirections stand in it, main is  *)
(* left the other words in order, and each stream has the last file named   *)
(* for it: what __cli_redirection removes in place, a list says at once.    *)
THEOREM AlwaysKept == Spec => []RestKept
<1>1. ASSUME WInv, RInv PROVE RestKept
  <2> SUFFICES ASSUME pc = "main"
               PROVE  /\ SubSeq(argv, 1, rest) = Left(Strings)
                      /\ \A fd \in 0..2 : bound[fd] = LastFile(Strings, fd)
    BY DEF RestKept
  <2>1. /\ i = rest /\ argc = Len(starts) /\ rest \in 0..argc /\ argc \in Nat
        /\ Left(Ws) = SubSeq(argv, 1, i) \o LeftFrom(Ws)[Place]
        /\ \A fd \in 0..2 : LastFile(Ws, fd) = Given(FilesFrom(Ws)[Place], fd, bound[fd])
        /\ \A j \in 1..rest : argv[j] \in Lines(cli)
    BY <1>1 DEF WInv, RInv
  <2>2. Ws \in Seq(Lines(cli)) /\ Len(Ws) = argc /\ Ws = Strings
    BY <1>1, <2>1, WordsType, AsStrings DEF Ws
  <2>3. Place = argc + 1 /\ Place \in 1..(argc + 2) /\ Place > argc
    BY <2>1 DEF Place
  <2>4. LeftFrom(Ws)[Place] = <<>> /\ FilesFrom(Ws)[Place] = <<>>
    BY <2>2, <2>3, LeftLaw, FilesLaw
  <2>5. SubSeq(argv, 1, rest) \in Seq(Lines(cli))
    <3>1. 1 \in Int /\ rest \in Int
      BY <2>1
    <3> QED BY <2>1, <3>1, SubSeqProperties
  <2>6. SubSeq(argv, 1, rest) \o <<>> = SubSeq(argv, 1, rest)
    BY <2>5, ConcatEmptySeq
  <2>7. Left(Ws) = SubSeq(argv, 1, rest)
    BY <2>1, <2>4, <2>6
  <2>8. ASSUME NEW fd \in 0..2 PROVE bound[fd] = LastFile(Ws, fd)
    <3>1. <<>> \in Seq({}) /\ Lacks(<<>>, fd)
      BY DEF Lacks
    <3>2. Given(<<>>, fd, bound[fd]) = bound[fd]
      BY <3>1, GivenNone
    <3> QED BY <2>1, <2>4, <3>2
  <2> QED BY <2>2, <2>7, <2>8
<1> QED BY <1>1, AlwaysWR, PTL

-----------------------------------------------------------------------------
(* The words of the line.  The state of the walks says of each character    *)
(* what the reference definitions say of it.                                *)
LEMMA Letters == Slash # Quote /\ Slash # " " /\ Quote # " "
BY Zenon DEF Slash, Quote

LEMMA QuotedLaw ==
  /\ ~Quoted(1)
  /\ \A k \in Nat \ {0} : Quoted(k + 1) <=> ~(Quoted(k) <=> Mark(k))
<1> DEFINE M(k) == {j \in 1..(k - 1) : Mark(j)}
<1>1. ~Quoted(1)
  <2>1. M(1) = {}
    OBVIOUS
  <2>2. Cardinality({}) = 0
    BY FS_EmptySet
  <2> QED BY <2>1, <2>2 DEF Quoted
<1>2. ASSUME NEW k \in Nat \ {0} PROVE Quoted(k + 1) <=> ~(Quoted(k) <=> Mark(k))
  <2>1. IsFiniteSet(M(k)) /\ k \notin M(k)
    <3>1. IsFiniteSet(1..(k - 1))
      BY FS_Interval
    <3>2. M(k) \subseteq 1..(k - 1)
      OBVIOUS
    <3> QED BY <3>1, <3>2, FS_Subset
  <2>2. Cardinality(M(k)) \in Nat
    BY <2>1, FS_CardinalityType
  <2>3. CASE Mark(k)
    <3>1. M(k + 1) = M(k) \cup {k}
      BY <2>3
    <3> HIDE DEF M
    <3>2. Cardinality(M(k + 1)) = Cardinality(M(k)) + 1
      BY <2>1, <3>1, FS_AddElement
    <3>3. Cardinality(M(k + 1)) % 2 = 1 <=> ~(Cardinality(M(k)) % 2 = 1)
      BY <2>2, <3>2
    <3> QED BY <2>3, <3>3 DEF Quoted, M
  <2>4. CASE ~Mark(k)
    <3>1. M(k + 1) = M(k)
      BY <2>4
    <3> QED BY <2>4, <3>1 DEF Quoted
  <2> QED BY <2>3, <2>4
<1> QED BY <1>1, <1>2

StateAt(k) ==
  /\ Walk(cli)[k].at.escape <=> (k # 0 /\ cli[k] = Slash)
  /\ Walk(cli)[k].at.quotes <=> Quoted(k + 1)
  /\ Walk(cli)[k].at.spaces <=> (k = 0 \/ Break(k))

(* What the next character is, by the state it is read in.                  *)
LEMMA Reads ==
  ASSUME cli \in Commands, ~LeadingEscape, NEW k \in 0..Len(cli), k < Len(cli), StateAt(k)
  PROVE  LET a == Walk(cli)[k].at
             x == cli[k + 1]
         IN  /\ a \in AtType
             /\ Escaped(k + 1) <=> (a.escape /\ x # Slash)
             /\ Quoted(k + 1) <=> a.quotes
             /\ a.spaces => ~a.escape /\ ~a.quotes /\ x # Slash
             /\ Mark(k + 1) <=> (x = Quote /\ ~a.escape)
             /\ Break(k + 1) <=> (x = " " /\ ~a.escape /\ ~a.quotes)
             /\ Begins(k + 1) <=> StartsAt(a, x)
<1> DEFINE a == Walk(cli)[k].at
           x == cli[k + 1]
<1>1. Walk(cli)[k] \in Progress /\ Len(cli) \in Nat /\ k \in Nat /\ (k + 1) - 1 = k
      /\ DOMAIN cli = 1..Len(cli) /\ k + 1 \in DOMAIN cli /\ (k + 1 > 1 <=> k # 0)
      /\ (k + 1 = 1 <=> k = 0)
  BY WalkStep, CharactersFact
<1>2. a \in AtType
  BY <1>1 DEF Progress
<1>3. /\ a.escape <=> (k # 0 /\ cli[k] = Slash)
      /\ a.quotes <=> Quoted(k + 1)
      /\ a.spaces <=> (k = 0 \/ Break(k))
  BY DEF StateAt
<1>4. Begins(k + 1) => x # Slash
  BY <1>1 DEF LeadingEscape
<1> HIDE DEF a, x
<1>5. Escaped(k + 1) <=> (a.escape /\ x # Slash)
  BY <1>1, <1>3 DEF Escaped, x
<1>6. Mark(k + 1) <=> (x = Quote /\ ~a.escape)
  BY <1>5, Letters DEF Mark, x
<1>7. Break(k + 1) <=> (x = " " /\ ~a.escape /\ ~a.quotes)
  BY <1>3, <1>5, Letters DEF Break, x
<1>8. Begins(k + 1) <=> ~Break(k + 1) /\ a.spaces
  BY <1>1, <1>3 DEF Begins
<1>9. a.spaces => ~a.escape /\ ~a.quotes
  <2>1. CASE k = 0
    BY <2>1, <1>3, QuotedLaw
  <2>2. CASE k # 0 /\ Break(k)
    <3>1. cli[k] = " " /\ ~Quoted(k)
      BY <2>2 DEF Break
    <3>2. ~Mark(k) /\ cli[k] # Slash
      BY <3>1, Letters DEF Mark
    <3>3. ~Quoted(k + 1)
      BY <1>1, <2>2, <3>1, <3>2, QuotedLaw
    <3> QED BY <1>3, <3>2, <3>3
  <2> QED BY <1>3, <2>1, <2>2
<1>10. a.spaces => x # Slash
  BY <1>4, <1>7, <1>8, Letters
<1>11. Begins(k + 1) <=> StartsAt(a, x)
  BY <1>7, <1>8, <1>9, <1>10 DEF StartsAt
<1> QED BY <1>2, <1>3, <1>5, <1>6, <1>7, <1>9, <1>10, <1>11 DEF a, x

LEMMA StateLaw ==
  ASSUME cli \in Commands, ~LeadingEscape
  PROVE  \A k \in 0..Len(cli) : StateAt(k)
<1> DEFINE H == {k \in 0..Len(cli) : StateAt(k)}
<1>1. Len(cli) \in Nat /\ 0 \in 0..Len(cli)
  BY LenNat
<1>2. 0 \in H
  <2>1. Walk(cli)[0].at = AtStart
    BY <1>1, WalkStep DEF Outset
  <2> QED BY <1>1, <2>1, QuotedLaw DEF StateAt, AtStart
<1>3. ASSUME NEW k \in 0..Len(cli), k \in H, k < Len(cli) PROVE k + 1 \in H
  <2> DEFINE a == Walk(cli)[k].at
             b == Walk(cli)[k + 1].at
             x == cli[k + 1]
  <2>1. StateAt(k) /\ k \in Nat /\ k + 1 \in 0..Len(cli) /\ k + 1 # 0 /\ k + 1 \in Nat \ {0}
    BY <1>1, <1>3
  <2>2. /\ a \in AtType
        /\ Quoted(k + 1) <=> a.quotes
        /\ a.spaces => ~a.escape /\ ~a.quotes /\ x # Slash
        /\ Mark(k + 1) <=> (x = Quote /\ ~a.escape)
        /\ Break(k + 1) <=> (x = " " /\ ~a.escape /\ ~a.quotes)
    BY <1>3, <2>1, Reads
  <2>3. b = NextAt(a, x)
    <3>1. Walk(cli)[k + 1] = Advance(Walk(cli)[k], cli[k + 1])
      BY <1>3, WalkStep
    <3> QED BY <3>1 DEF Advance
  <2>4. Quoted((k + 1) + 1) <=> ~(Quoted(k + 1) <=> Mark(k + 1))
    BY <2>1, QuotedLaw
  <2> HIDE DEF a, b, x
  <2>5. a = [spaces |-> a.spaces, quotes |-> a.quotes, escape |-> a.escape]
        /\ a.spaces \in BOOLEAN /\ a.quotes \in BOOLEAN /\ a.escape \in BOOLEAN
    BY <2>2 DEF AtType
  <2>6. CASE x = Slash
    <3>1. b.escape = TRUE /\ b.quotes = a.quotes /\ b.spaces = a.spaces
      BY <2>2, <2>3, <2>6 DEF NextAt, AtType
    <3>2. ~Mark(k + 1) /\ ~Break(k + 1) /\ ~a.spaces
      BY <2>2, <2>6, Letters
    <3>3. b.escape /\ ~b.spaces /\ (b.quotes <=> Quoted((k + 1) + 1))
      BY <2>2, <2>4, <3>1, <3>2
    <3> QED BY <2>1, <2>6, <3>2, <3>3 DEF StateAt, b, x
  <2>7. CASE x # Slash /\ a.escape
    <3>1. b.escape = FALSE /\ b.quotes = a.quotes /\ b.spaces = a.spaces
      BY <2>2, <2>3, <2>7 DEF NextAt, AtType
    <3>2. ~Mark(k + 1) /\ ~Break(k + 1) /\ ~a.spaces
      BY <2>2, <2>7
    <3>3. ~b.escape /\ ~b.spaces /\ (b.quotes <=> Quoted((k + 1) + 1))
      BY <2>2, <2>4, <3>1, <3>2
    <3> QED BY <2>1, <2>7, <3>2, <3>3 DEF StateAt, b, x
  <2>8. CASE x # Slash /\ ~a.escape /\ a.quotes
    <3>1. b.escape = a.escape /\ b.quotes = (x # Quote) /\ b.spaces = a.spaces
      BY <2>2, <2>3, <2>8 DEF NextAt, AtType
    <3>2. ~Break(k + 1) /\ ~a.spaces
      BY <2>2, <2>8
    <3>3. ~b.escape /\ ~b.spaces /\ (b.quotes <=> Quoted((k + 1) + 1))
      BY <2>2, <2>4, <2>8, <3>1, <3>2
    <3> QED BY <2>1, <2>8, <3>2, <3>3 DEF StateAt, b, x
  <2>9. CASE x # Slash /\ ~a.escape /\ ~a.quotes
    <3>1. b.escape = a.escape /\ b.quotes = (x = Quote) /\ b.spaces = (x = " ")
      BY <2>2, <2>3, <2>9 DEF NextAt, AtType
    <3>2. Break(k + 1) <=> x = " "
      BY <2>2, <2>9
    <3>3. ~b.escape /\ (b.spaces <=> Break(k + 1)) /\ (b.quotes <=> Quoted((k + 1) + 1))
      BY <2>2, <2>4, <2>9, <3>1, <3>2
    <3> QED BY <2>1, <2>9, <3>2, <3>3 DEF StateAt, b, x
  <2> QED BY <2>1, <2>6, <2>7, <2>8, <2>9
<1>4. \A k \in 0..Len(cli) : k \in H
  <2> HIDE DEF H
  <2> QED BY <1>1, <1>2, <1>3, UpTo0
<1> QED BY <1>4

-----------------------------------------------------------------------------
(* What is written for the words.                                           *)
IsFlat(F, s) == /\ F[1] = s[1] /\ FlattenSeq(s) = F[Len(s)]
                /\ \A j \in 1..Len(s) : j # 1 => F[j] = F[j - 1] \o s[j]

LEMMA FlattenLaw ==
  ASSUME NEW V, NEW n \in Nat, NEW s \in [1..n -> Seq(V)], n # 0
  PROVE  \E F \in [1..n -> Seq(V)] : IsFlat(F, s)
<1> DEFINE step == [k \in 1..n |-> [q \in Seq(V) |-> q \o s[k]]]
           Law(f) == f = [i_1 \in 1..Len(s) |-> IF i_1 = 1 THEN s[i_1] ELSE f[i_1 - 1] \o s[i_1]]
<1>1. Len(s) = n /\ 1 \in 1..n /\ n \in 1..n
  OBVIOUS
<1>2. <<>> \in Seq(V) /\ step \in [1..n -> [Seq(V) -> Seq(V)]]
  <2>1. ASSUME NEW k \in 1..n, NEW q \in Seq(V) PROVE q \o s[k] \in Seq(V)
    <3>1. s[k] \in Seq(V)
      OBVIOUS
    <3> QED BY <3>1, ConcatProperties
  <2> QED BY <2>1
<1>3. PICK g : IsChain(g, n, Seq(V), <<>>, step)
  <2> HIDE DEF step
  <2> QED BY <1>2, ChainExists
<1>4. g \in [0..n -> Seq(V)] /\ g[0] = <<>> /\ \A k \in 1..n : g[k] = g[k - 1] \o s[k]
  <2>1. g \in [0..n -> Seq(V)] /\ g[0] = <<>> /\ \A k \in 1..n : g[k] = step[k][g[k - 1]]
    BY <1>3 DEF IsChain
  <2>2. \A k \in 1..n : k - 1 \in 0..n
    OBVIOUS
  <2>3. \A k \in 1..n : g[k - 1] \in Seq(V)
    BY <2>1, <2>2
  <2> QED BY <2>1, <2>3
<1> DEFINE F == [j \in 1..n |-> g[j]]
<1>5. F \in [1..n -> Seq(V)]
  BY <1>4
<1>6. F[1] = s[1]
  <2>1. g[1] = g[0] \o s[1]
    <3>1. g[1] = g[1 - 1] \o s[1]
      <4> HIDE DEF step
      <4> QED BY ONLY <1>1, <1>4
    <3>2. 1 - 1 = 0
      OBVIOUS
    <3> QED BY <3>1, <3>2
  <2>2. s[1] \in Seq(V)
    BY <1>1
  <2>3. <<>> \o s[1] = s[1]
    BY <2>2, ConcatEmptySeq
  <2> QED BY <1>1, <1>4, <2>1, <2>3
<1>7. ASSUME NEW j \in 1..n, j # 1 PROVE F[j] = F[j - 1] \o s[j]
  <2>1. j - 1 \in 1..n
    BY <1>7
  <2> QED BY <2>1, <1>4
<1> HIDE DEF F
<1>8. Law(F)
  BY <1>1, <1>5, <1>6, <1>7
<1> DEFINE X == CHOOSE f : Law(f)
<1>9. Law(X)
  <2> HIDE DEF Law
  <2> QED BY <1>8
<1>10. FlattenSeq(s) = X[n]
  BY <1>1 DEF FlattenSeq
<1> HIDE DEF X
<1>11. /\ DOMAIN X = 1..n /\ X[1] = s[1] /\ \A j \in 1..n : j # 1 => X[j] = X[j - 1] \o s[j]
       /\ X = [j \in 1..n |-> X[j]]
  BY <1>1, <1>9
<1> HIDE DEF Law
<1>12. \A k \in 0..(n - 1) : X[k + 1] \in Seq(V)
  <2> DEFINE H == {k \in 0..(n - 1) : X[k + 1] \in Seq(V)}
  <2>1. 0 \in H
    BY <1>1, <1>11
  <2>2. ASSUME NEW k \in 0..(n - 1), k \in H, k < n - 1 PROVE k + 1 \in H
    <3>1. /\ (k + 1) + 1 \in 1..n /\ (k + 1) + 1 # 1 /\ ((k + 1) + 1) - 1 = k + 1
          /\ k + 1 \in 0..(n - 1)
      BY <2>2
    <3>2. X[(k + 1) + 1] = X[k + 1] \o s[(k + 1) + 1]
      BY <1>11, <3>1
    <3>3. X[k + 1] \in Seq(V) /\ s[(k + 1) + 1] \in Seq(V)
      BY <2>2, <3>1
    <3>4. X[k + 1] \o s[(k + 1) + 1] \in Seq(V)
      BY <3>3, ConcatProperties
    <3> QED BY <3>1, <3>2, <3>4
  <2>3. n - 1 \in Nat
    OBVIOUS
  <2> HIDE DEF H
  <2>4. \A k \in 0..(n - 1) : k \in H
    BY <2>1, <2>2, <2>3, UpTo0
  <2> QED BY <2>4 DEF H
<1>13. X \in [1..n -> Seq(V)]
  <2>1. ASSUME NEW j \in 1..n PROVE X[j] \in Seq(V)
    <3>1. j - 1 \in 0..(n - 1) /\ (j - 1) + 1 = j
      OBVIOUS
    <3> QED BY <3>1, <1>12
  <2> QED BY <1>11, <2>1
<1> QED BY <1>1, <1>10, <1>11, <1>13 DEF IsFlat

(* What was written stays, and so does where a word starts.                 *)
Extends(t, s) == Len(s) <= Len(t) /\ \A o \in 1..Len(s) : t[o] = s[o]

LEMMA Grows ==
  ASSUME NEW c \in Commands
  PROVE  \A k \in 0..Len(c) : \A m \in 0..k :
           /\ Extends(Walk(c)[k].out, Walk(c)[m].out)
           /\ Extends(Walk(c)[k].starts, Walk(c)[m].starts)
<1> DEFINE W == Walk(c)
           H == {k \in 0..Len(c) : \A m \in 0..k : /\ Extends(W[k].out, W[m].out)
                                                   /\ Extends(W[k].starts, W[m].starts)}
<1>1. Len(c) \in Nat /\ 0 \in 0..Len(c)
  BY CharactersFact
<1>2. \A k \in 0..Len(c) : /\ W[k].out \in Seq(Text) /\ Len(W[k].out) \in Nat
                           /\ W[k].starts \in Seq(Nat) /\ Len(W[k].starts) \in Nat
  <2>1. \A k \in 0..Len(c) : W[k] \in Progress
    BY WalkStep
  <2>2. \A k \in 0..Len(c) : W[k].out \in Seq(Text) /\ W[k].starts \in Seq(Nat)
    BY <2>1 DEF Progress
  <2> QED BY <2>2, LenProperties
<1>3. ASSUME NEW k \in 0..Len(c) PROVE Extends(W[k].out, W[k].out) /\ Extends(W[k].starts, W[k].starts)
  BY <1>2 DEF Extends
<1>4. ASSUME NEW k \in 0..Len(c), k < Len(c)
      PROVE  Extends(W[k + 1].out, W[k].out) /\ Extends(W[k + 1].starts, W[k].starts)
  <2> DEFINE v == W[k]
             u == W[k + 1]
             x == c[k + 1]
  <2>1. v \in Progress /\ x \in Characters /\ u = Advance(v, x)
    BY <1>4, WalkStep
  <2> HIDE DEF v, u, x
  <2>2. /\ v.at \in AtType /\ v.out \in Seq(Text) /\ v.starts \in Seq(Nat)
        /\ WritesAt(v.at, x) \in Seq(Text)
    BY <2>1, WritesType DEF Progress
  <2>3. u.out = v.out \o WritesAt(v.at, x)
    BY <2>1 DEF Advance
  <2>4. u.starts = v.starts \/ u.starts = Append(v.starts, Len(v.out))
    BY <2>1 DEF Advance
  <2>5. Extends(u.out, v.out)
    <3> DEFINE w == WritesAt(v.at, x)
               lv == Len(v.out)
               lw == Len(w)
    <3>0. v.out \in Seq(Text) /\ w \in Seq(Text) /\ u.out = v.out \o w
      BY <2>2, <2>3
    <3> HIDE DEF w
    <3>4. /\ Len(u.out) = lv + lw
          /\ \A o \in 1..(lv + lw) : u.out[o] = IF o <= lv THEN v.out[o] ELSE w[o - lv]
      BY <3>0, ConcatProperties
    <3>1. /\ Len(u.out) = lv + lw /\ lv \in Nat /\ lw \in Nat
          /\ \A o \in 1..(lv + lw) : u.out[o] = IF o <= lv THEN v.out[o] ELSE w[o - lv]
      BY <3>0, <3>4, LenProperties
    <3> HIDE DEF lv, lw
    <3>2. lv <= lv + lw /\ \A o \in 1..lv : o \in 1..(lv + lw) /\ o <= lv
      BY <3>1
    <3>3. \A o \in 1..lv : u.out[o] = v.out[o]
      BY <3>1, <3>2
    <3> QED BY <3>1, <3>2, <3>3 DEF Extends, lv
  <2>6. Extends(u.starts, v.starts)
    <3>1. CASE u.starts = v.starts
      <4>1. Len(v.starts) \in Nat
        BY <2>2, LenProperties
      <4> QED BY <3>1, <4>1 DEF Extends
    <3>2. CASE u.starts = Append(v.starts, Len(v.out))
      <4>1. Len(v.out) \in Nat /\ Len(v.starts) \in Nat
        BY <2>2, LenProperties
      <4>2. /\ Len(u.starts) = Len(v.starts) + 1
            /\ \A o \in 1..Len(v.starts) : u.starts[o] = v.starts[o]
        BY <2>2, <3>2, <4>1, AppendProperties
      <4> QED BY <4>1, <4>2 DEF Extends
    <3> QED BY <2>4, <3>1, <3>2
  <2> QED BY <2>5, <2>6 DEF u, v
<1>5. \A a, b, d : Len(a) \in Nat /\ Len(b) \in Nat /\ Len(d) \in Nat /\ Extends(a, b) /\ Extends(b, d)
                   => Extends(a, d)
  BY DEF Extends
<1>6. 0 \in H
  BY <1>1, <1>3
<1>7. ASSUME NEW k \in 0..Len(c), k \in H, k < Len(c) PROVE k + 1 \in H
  <2>1. k + 1 \in 0..Len(c)
    BY <1>1, <1>7
  <2>2. ASSUME NEW m \in 0..(k + 1)
        PROVE  Extends(W[k + 1].out, W[m].out) /\ Extends(W[k + 1].starts, W[m].starts)
    <3>1. CASE m = k + 1
      BY <2>1, <3>1, <1>3
    <3>2. CASE m # k + 1
      <4>1. m \in 0..k /\ m \in 0..Len(c)
        BY <1>1, <3>2
      <4>2. Extends(W[k].out, W[m].out) /\ Extends(W[k].starts, W[m].starts)
        BY <1>7, <4>1
      <4>3. Extends(W[k + 1].out, W[k].out) /\ Extends(W[k + 1].starts, W[k].starts)
        BY <1>4, <1>7
      <4> HIDE DEF W
      <4> QED BY <1>2, <1>5, <2>1, <4>1, <4>2, <4>3
    <3> QED BY <3>1, <3>2
  <2> QED BY <2>1, <2>2
<1>8. \A k \in 0..Len(c) : k \in H
  <2> HIDE DEF H
  <2> QED BY <1>1, <1>6, <1>7, UpTo0
<1> QED BY <1>8

LEMMA SaysType ==
  ASSUME cli \in Commands, NEW k \in 1..Len(cli)
  PROVE  Says(k) \in Seq(Characters)
<1>1. cli[k] \in Characters /\ Slash \in Characters
  BY CharactersFact
<1>2. <<>> \in Seq(Characters) /\ <<cli[k]>> \in Seq(Characters) /\ <<Slash, cli[k]>> \in Seq(Characters)
  BY <1>1
<1>3. Says(k) \in {<<>>, <<cli[k]>>, <<Slash, cli[k]>>}
  BY Zenon DEF Says
<1> QED BY <1>2, <1>3

(* A character that ends no word writes what it says of the word; the first *)
(* behind a word writes its terminator.                                     *)
LEMMA WritesSays ==
  ASSUME cli \in Commands, ~LeadingEscape, NEW k \in 0..Len(cli), k < Len(cli)
  PROVE  LET a == Walk(cli)[k].at
         IN  /\ ~Break(k + 1) => WritesAt(a, cli[k + 1]) = Says(k + 1)
             /\ Break(k + 1) /\ ~a.spaces => WritesAt(a, cli[k + 1]) = <<NUL>>
<1> DEFINE a == Walk(cli)[k].at
           x == cli[k + 1]
<1>1. StateAt(k)
  BY StateLaw
<1>2. /\ Escaped(k + 1) <=> (a.escape /\ x # Slash)
      /\ a.spaces => ~a.escape /\ ~a.quotes /\ x # Slash
      /\ Mark(k + 1) <=> (x = Quote /\ ~a.escape)
      /\ Break(k + 1) <=> (x = " " /\ ~a.escape /\ ~a.quotes)
  BY <1>1, Reads
<1>3. Says(k + 1) = IF Mark(k + 1) \/ x = Slash THEN <<>>
                    ELSE IF Escaped(k + 1) /\ x # Quote THEN <<Slash, x>> ELSE <<x>>
  BY Zenon DEF Says
<1> HIDE DEF a, x
<1>4. ASSUME Break(k + 1), ~a.spaces PROVE WritesAt(a, x) = <<NUL>>
  BY <1>2, <1>4, Letters, Zenon DEF WritesAt
<1>5. ASSUME ~Break(k + 1) PROVE WritesAt(a, x) = Says(k + 1)
  <2>1. CASE x = Slash
    BY <1>3, <2>1, Zenon DEF WritesAt
  <2>2. CASE x # Slash /\ a.escape
    <3>1. ~Mark(k + 1) /\ Escaped(k + 1)
      BY <1>2, <2>2
    <3>2. CASE x = Quote
      BY <1>3, <2>2, <3>1, <3>2, Zenon DEF WritesAt
    <3>3. CASE x # Quote
      BY <1>3, <2>2, <3>1, <3>3, Zenon DEF WritesAt
    <3> QED BY <3>2, <3>3
  <2>3. CASE x # Slash /\ ~a.escape
    <3>1. (Mark(k + 1) <=> x = Quote) /\ ~Escaped(k + 1)
      BY <1>2, <2>3
    <3>2. CASE x = Quote
      BY <1>3, <2>3, <3>1, <3>2, Zenon DEF WritesAt
    <3>3. CASE x # Quote
      <4>1. x # " " \/ a.quotes
        BY <1>2, <1>5, <2>3
      <4> QED BY <1>3, <2>3, <3>1, <3>3, <4>1, Zenon DEF WritesAt
    <3> QED BY <3>2, <3>3
  <2> QED BY <2>1, <2>2, <2>3
<1> QED BY <1>4, <1>5 DEF a, x

Upto(k) == {j \in Beginnings : j <= k}

LEMMA BeginningsCounted ==
  ASSUME cli \in Commands, ~LeadingEscape
  PROVE  \A k \in 0..Len(cli) : /\ IsFiniteSet(Upto(k)) /\ Cardinality(Upto(k)) \in Nat
                                /\ Len(Walk(cli)[k].starts) = Cardinality(Upto(k))
<1> DEFINE Right(k) == /\ IsFiniteSet(Upto(k)) /\ Cardinality(Upto(k)) \in Nat
                       /\ Len(Walk(cli)[k].starts) = Cardinality(Upto(k))
           H == {k \in 0..Len(cli) : Right(k)}
<1>1. Len(cli) \in Nat /\ 0 \in 0..Len(cli) /\ DOMAIN cli = 1..Len(cli)
  BY CharactersFact
<1>2. 0 \in H
  <2>1. Upto(0) = {}
    BY <1>1 DEF Upto, Beginnings
  <2>2. Walk(cli)[0].starts = <<>> /\ Len(<<>>) = 0
    BY <1>1, WalkStep DEF Outset
  <2>3. IsFiniteSet({}) /\ Cardinality({}) = 0
    BY FS_EmptySet
  <2>4. Right(0)
    <3>1. IsFiniteSet(Upto(0)) /\ Cardinality(Upto(0)) = 0
      BY <2>1, <2>3, Zenon
    <3>2. Len(Walk(cli)[0].starts) = 0
      BY <2>2, Zenon
    <3> QED BY <3>1, <3>2
  <2> HIDE DEF Right
  <2> QED BY <1>1, <2>4
<1>3. ASSUME NEW k \in 0..Len(cli), k \in H, k < Len(cli) PROVE k + 1 \in H
  <2> DEFINE v == Walk(cli)[k]
             u == Walk(cli)[k + 1]
             x == cli[k + 1]
             n == Cardinality(Upto(k))
  <2>1. v \in Progress /\ u = Advance(v, x) /\ k + 1 \in 0..Len(cli) /\ k + 1 \in DOMAIN cli
    BY <1>1, <1>3, WalkStep
  <2>2. Begins(k + 1) <=> StartsAt(v.at, x)
    BY <1>3, StateLaw, Reads
  <2>3. u.starts = IF Begins(k + 1) THEN Append(v.starts, Len(v.out)) ELSE v.starts
    <3> HIDE DEF v, u, x
    <3> QED BY <2>1, <2>2 DEF Advance
  <2>4. IsFiniteSet(Upto(k)) /\ n \in Nat /\ Len(v.starts) = n
    BY <1>3
  <2>5. CASE Begins(k + 1)
    <3>1. Upto(k + 1) = Upto(k) \cup {k + 1} /\ k + 1 \notin Upto(k)
      BY <1>1, <2>1, <2>5 DEF Upto, Beginnings
    <3>2. IsFiniteSet(Upto(k + 1)) /\ Cardinality(Upto(k + 1)) = n + 1
      BY <2>4, <3>1, FS_AddElement
    <3>3. v.starts \in Seq(Nat) /\ Len(v.out) \in Nat
      BY <2>1, LenProperties DEF Progress
    <3>4. Len(u.starts) = n + 1
      <4> HIDE DEF v, u, n
      <4> QED BY <2>3, <2>4, <2>5, <3>3, AppendProperties
    <3> QED BY <2>1, <2>4, <3>2, <3>4
  <2>6. CASE ~Begins(k + 1)
    <3>1. Upto(k + 1) = Upto(k)
      BY <1>1, <2>1, <2>6 DEF Upto, Beginnings
    <3>2. u.starts = v.starts
      BY <2>3, <2>6
    <3> QED BY <2>1, <2>4, <3>1, <3>2
  <2> QED BY <2>5, <2>6
<1>4. \A k \in 0..Len(cli) : k \in H
  <2> HIDE DEF H
  <2> QED BY <1>1, <1>2, <1>3, UpTo0
<1> QED BY <1>4

(* A word is written from the place where it starts.                        *)
LEMMA WordStarts ==
  ASSUME cli \in Commands, ~LeadingEscape, NEW b \in Beginnings
  PROVE  /\ b \in 1..Len(cli) /\ Cardinality(Upto(b)) \in 1..Len(Ends.starts)
         /\ Ends.starts[Cardinality(Upto(b))] = Len(Walk(cli)[b - 1].out)
<1> DEFINE v == Walk(cli)[b - 1]
           u == Walk(cli)[b]
           n == Cardinality(Upto(b))
<1>1. /\ Len(cli) \in Nat /\ b \in 1..Len(cli) /\ Begins(b) /\ b - 1 \in 0..Len(cli)
      /\ (b - 1) + 1 = b /\ b - 1 < Len(cli) /\ b \in 0..Len(cli) /\ Len(cli) \in 0..Len(cli)
      /\ b \in 0..Len(cli)
  BY CharactersFact DEF Beginnings
<1>2. v \in Progress /\ u = Advance(v, cli[b])
  <2>1. v \in Progress /\ Walk(cli)[(b - 1) + 1] = Advance(v, cli[(b - 1) + 1])
    BY <1>1, WalkStep
  <2> QED BY <1>1, <2>1
<1>3. StartsAt(v.at, cli[b])
  <2>1. StateAt(b - 1)
    BY <1>1, StateLaw
  <2>2. Begins((b - 1) + 1) <=> StartsAt(v.at, cli[(b - 1) + 1])
    BY <1>1, <2>1, Reads
  <2> QED BY <1>1, <2>2
<1>4. n \in Nat /\ Len(u.starts) = n
  BY <1>1, BeginningsCounted
<1>5. Extends(Ends.starts, u.starts)
  BY <1>1, Grows DEF Ends
<1>6. Len(Ends.starts) \in Nat
  <2>1. Ends \in Progress
    BY <1>1, WalkStep DEF Ends
  <2> QED BY <2>1, LenProperties DEF Progress
<1> HIDE DEF v, u, n
<1>7. u.starts = Append(v.starts, Len(v.out))
  BY <1>2, <1>3 DEF Advance
<1>8. v.starts \in Seq(Nat) /\ Len(v.out) \in Nat /\ Len(v.starts) \in Nat
  BY <1>2, LenProperties DEF Progress
<1>9. n = Len(v.starts) + 1 /\ u.starts[Len(v.starts) + 1] = Len(v.out)
  BY <1>4, <1>7, <1>8, AppendProperties
<1>10. n \in 1..Len(Ends.starts) /\ Ends.starts[n] = u.starts[n]
  BY <1>4, <1>5, <1>6, <1>8, <1>9 DEF Extends
<1> QED BY <1>1, <1>9, <1>10 DEF v, n

TextOf(b, e) == FlattenSeq([k \in 1..(e + 1 - b) |-> Says(b + k - 1)])

LEMMA WordText ==
  ASSUME cli \in Commands, ~LeadingEscape, NEW b \in 1..Len(cli), NEW e \in b..Len(cli),
         \A k \in b..e : ~Break(k)
  PROVE  /\ TextOf(b, e) \in Seq(Characters)
         /\ Walk(cli)[e].out = Walk(cli)[b - 1].out \o TextOf(b, e)
<1> DEFINE n == e + 1 - b
           s == [k \in 1..n |-> Says(b + k - 1)]
           o == Walk(cli)[b - 1].out
<1>1. Len(cli) \in Nat /\ n \in Nat /\ n # 0 /\ b \in Nat /\ b - 1 \in 0..Len(cli)
  BY LenNat
<1>2. s \in [1..n -> Seq(Characters)]
  <2>1. \A k \in 1..n : b + k - 1 \in 1..Len(cli)
    BY <1>1
  <2> QED BY <2>1, SaysType
<1>3. PICK F \in [1..n -> Seq(Characters)] : IsFlat(F, s)
  <2> HIDE DEF s, n
  <2> QED BY <1>1, <1>2, FlattenLaw
<1>4. /\ F[1] = s[1] /\ FlattenSeq(s) = F[n]
      /\ \A j \in 1..n : j # 1 => F[j] = F[j - 1] \o s[j]
  <2>1. Len(s) = n
    <3> HIDE DEF n
    <3> QED BY <1>1
  <2> QED BY <1>3, <2>1 DEF IsFlat
<1>5. o \in Seq(Text) /\ \A q \in Seq(Characters) : q \in Seq(Text)
  <2>1. Walk(cli)[b - 1] \in Progress
    BY <1>1, WalkStep
  <2>2. Characters \subseteq Text
    BY DEF Text
  <2> QED BY <2>1, <2>2, SeqMonotonic DEF Progress
<1>6. ASSUME NEW k \in 1..n
      PROVE  Walk(cli)[b + k - 1].out = Walk(cli)[(b + k - 1) - 1].out \o s[k]
  <2> DEFINE m == (b + k - 1) - 1
  <2>1. m \in 0..Len(cli) /\ m < Len(cli) /\ m + 1 = b + k - 1 /\ m + 1 \in b..e
    BY <1>1
  <2> HIDE DEF m
  <2>2. ~Break(m + 1)
    BY <2>1
  <2>3. Walk(cli)[m + 1] = Advance(Walk(cli)[m], cli[m + 1])
    BY <2>1, WalkStep
  <2>4. WritesAt(Walk(cli)[m].at, cli[m + 1]) = Says(m + 1)
    BY <2>1, <2>2, WritesSays
  <2>5. Walk(cli)[m + 1].out = Walk(cli)[m].out \o Says(m + 1)
    <3> DEFINE v == Walk(cli)[m]
               u == Walk(cli)[m + 1]
               w == WritesAt(v.at, cli[m + 1])
    <3>1. u = Advance(v, cli[m + 1]) /\ w = Says(m + 1)
      BY <2>3, <2>4
    <3> HIDE DEF u, v
    <3>2. u.out = v.out \o w
      BY <3>1 DEF Advance
    <3> HIDE DEF w
    <3>3. u.out = v.out \o Says(m + 1)
      BY <3>1, <3>2
    <3> QED BY <3>3 DEF u, v
  <2>6. s[k] = Says(m + 1)
    BY <2>1
  <2> HIDE DEF s
  <2> QED BY <2>1, <2>5, <2>6 DEF m
<1> DEFINE H == {k \in 0..(n - 1) : Walk(cli)[b + (k + 1) - 1].out = o \o F[k + 1]}
<1> HIDE DEF s, n
<1>7. 0 \in H
  <2>1. 1 \in 1..n /\ (b + 1 - 1) - 1 = b - 1 /\ 0 \in 0..(n - 1) /\ 0 + 1 = 1
    BY <1>1
  <2>2. Walk(cli)[b + 1 - 1].out = Walk(cli)[(b + 1 - 1) - 1].out \o s[1]
    BY <1>6, <2>1
  <2>3. Walk(cli)[b + 1 - 1].out = o \o F[1]
    BY <1>4, <2>1, <2>2
  <2> QED BY <2>1, <2>3
<1>8. ASSUME NEW k \in 0..(n - 1), k \in H, k < n - 1 PROVE k + 1 \in H
  <2> DEFINE j == (k + 1) + 1
  <2>1. /\ j \in 1..n /\ j # 1 /\ j - 1 = k + 1 /\ (b + j - 1) - 1 = b + (k + 1) - 1
        /\ k + 1 \in 0..(n - 1) /\ k + 1 \in 1..n
    BY <1>1, <1>8
  <2> HIDE DEF j
  <2>2. Walk(cli)[b + j - 1].out = Walk(cli)[(b + j - 1) - 1].out \o s[j]
    BY <1>6, <2>1
  <2>3. Walk(cli)[b + (k + 1) - 1].out = o \o F[k + 1]
    BY <1>8
  <2>4. F[j] = F[k + 1] \o s[j]
    <3>1. F[j] = F[j - 1] \o s[j]
      BY <1>4, <2>1
    <3> QED BY <2>1, <3>1
  <2> HIDE DEF o
  <2>5. F[k + 1] \in Seq(Text) /\ s[j] \in Seq(Text)
    <3>1. F[k + 1] \in Seq(Characters) /\ s[j] \in Seq(Characters)
      BY <1>2, <1>3, <2>1
    <3> QED BY <1>5, <3>1
  <2>6. (o \o F[k + 1]) \o s[j] = o \o (F[k + 1] \o s[j])
    <3> DEFINE f == F[k + 1]
               t == s[j]
    <3>1. o \in Seq(Text) /\ f \in Seq(Text) /\ t \in Seq(Text)
      BY <1>5, <2>5
    <3> HIDE DEF f, t
    <3>2. (o \o f) \o t = o \o (f \o t)
      BY <3>1, ConcatAssociative, SMTT(30)
    <3> QED BY <3>2 DEF f, t
  <2>7. Walk(cli)[b + j - 1].out = o \o F[j]
    BY <2>1, <2>2, <2>3, <2>4, <2>6
  <2> QED BY <2>1, <2>7 DEF j
<1>9. \A k \in 0..(n - 1) : k \in H
  <2>1. n - 1 \in Nat
    BY <1>1
  <2> HIDE DEF H
  <2> QED BY <1>7, <1>8, <2>1, UpTo0
<1>10. n - 1 \in H /\ (n - 1) + 1 = n /\ b + n - 1 = e
  <2>1. n - 1 \in 0..(n - 1) /\ (n - 1) + 1 = n
    BY <1>1
  <2>2. b + n - 1 = e
    BY <1>1 DEF n
  <2> HIDE DEF H
  <2> QED BY <1>9, <2>1, <2>2
<1>11. Walk(cli)[e].out = o \o F[n]
  BY <1>10
<1>12. F[n] \in Seq(Characters)
  BY <1>1, <1>3
<1>13. TextOf(b, e) = FlattenSeq(s)
  BY DEF TextOf, s, n
<1> QED BY <1>4, <1>11, <1>12, <1>13

(* The words are counted as they begin.                                     *)
LEMMA BeginningFact ==
  ASSUME cli \in Commands, ~LeadingEscape, NEW n \in 1..Cardinality(Beginnings)
  PROVE  Beginning(n) \in Beginnings /\ Cardinality(Upto(Beginning(n))) = n
<1> DEFINE L == Len(cli)
           C(k) == Cardinality(Upto(k))
           T == {k \in 0..L : C(k) >= n}
<1>1. L \in Nat /\ DOMAIN cli = 1..L /\ 0 \in 0..L /\ L \in 0..L
  BY CharactersFact
<1>2. \A k \in 0..L : IsFiniteSet(Upto(k)) /\ C(k) \in Nat
  BY BeginningsCounted
<1>3. Upto(L) = Beginnings /\ Upto(0) = {}
  BY <1>1 DEF Upto, Beginnings
<1>4. C(0) = 0 /\ C(L) = Cardinality(Beginnings)
  BY <1>3, FS_EmptySet
<1>5. n \in Nat /\ n >= 1 /\ n <= C(L)
  BY <1>1, <1>2, <1>4
<1> HIDE DEF C
<1>6. PICK k \in T : \A j \in T : k <= j
  <2>1. L \in T
    BY <1>1, <1>2, <1>5
  <2>2. T \subseteq Nat
    BY <1>1
  <2> HIDE DEF T
  <2> QED BY <2>1, <2>2, NatMin
<1>7. k \in 0..L /\ C(k) >= n /\ k # 0
  BY <1>4, <1>5, <1>6
<1>8. k - 1 \in 0..L /\ ~(C(k - 1) >= n)
  <2>1. k - 1 \in 0..L /\ ~(k <= k - 1)
    BY <1>1, <1>7
  <2>2. k - 1 \notin T
    BY <1>6, <2>1
  <2> QED BY <2>1, <2>2
<1>9. k \in Beginnings
  <2>1. SUFFICES ASSUME k \notin Beginnings PROVE FALSE
    OBVIOUS
  <2>2. Upto(k) = Upto(k - 1)
    BY <1>1, <1>7, <2>1 DEF Upto, Beginnings
  <2> QED BY <1>7, <1>8, <2>2 DEF C
<1>10. C(k) = C(k - 1) + 1
  <2>1. Upto(k) = Upto(k - 1) \cup {k} /\ k \notin Upto(k - 1)
    BY <1>1, <1>7, <1>9 DEF Upto, Beginnings
  <2> QED BY <1>2, <1>8, <2>1, FS_AddElement DEF C
<1>11. C(k) = n
  BY <1>2, <1>5, <1>7, <1>8, <1>10
<1> QED BY <1>9, <1>11 DEF Beginning, Upto, C

(* A word ends before the first break behind it, or with the line.          *)
LEMMA WordFact ==
  ASSUME cli \in Commands, NEW b \in Beginnings
  PROVE  \E e \in b..Len(cli) : /\ \A k \in b..e : ~Break(k)
                                /\ e = Len(cli) \/ Break(e + 1)
                                /\ Word(b) = TextOf(b, e)
<1> DEFINE L == Len(cli)
           Ending(e) == (\A k \in b..e : ~Break(k)) /\ (e = L \/ Break(e + 1))
           T == {e \in b..L : e = L \/ Break(e + 1)}
<1>1. L \in Nat /\ b \in 1..L /\ Begins(b)
  BY CharactersFact DEF Beginnings
<1>2. PICK e \in T : \A j \in T : e <= j
  <2>1. L \in T /\ T \subseteq Nat
    BY <1>1
  <2> HIDE DEF T
  <2> QED BY <2>1, NatMin
<1>3. ASSUME NEW k \in b..e PROVE ~Break(k)
  <2>1. CASE k = b
    BY <1>1, <2>1 DEF Begins
  <2>2. CASE k # b
    <3>1. k - 1 \in b..L /\ ~(e <= k - 1) /\ (k - 1) + 1 = k
      BY <1>1, <1>2, <2>2
    <3>2. k - 1 \notin T
      BY <1>2, <3>1
    <3> QED BY <3>1, <3>2
  <2> QED BY <2>1, <2>2
<1>4. e \in b..L /\ Ending(e)
  BY <1>2, <1>3
<1> DEFINE last == CHOOSE x \in b..L : Ending(x)
<1>5. last \in b..L /\ Ending(last)
  <2> HIDE DEF Ending
  <2> QED BY <1>4
<1>6. Word(b) = TextOf(b, last)
  BY Zenon DEF Word, TextOf
<1> HIDE DEF last
<1> QED BY <1>5, <1>6

(* The string that starts where a word was written begins with the word,    *)
(* and is the word when there is more of the line.                          *)
LEMMA WordWritten ==
  ASSUME WInv, pc = "redirect", ~LeadingEscape, NEW b \in Beginnings, NEW e \in b..Len(cli),
         \A k \in b..e : ~Break(k), e = Len(cli) \/ Break(e + 1)
  PROVE  LET q == StrAt(arg, starts[Cardinality(Upto(b))])
         IN  /\ e < Len(cli) => q = TextOf(b, e)
             /\ IsPrefix(TextOf(b, e), q)
<1> DEFINE t == TextOf(b, e)
           m == Len(t)
           o == Walk(cli)[b - 1].out
           s == Len(o)
           L == Len(cli)
<1>1. /\ cli \in Commands /\ DOMAIN arg = 0..L /\ arg[L] = NUL /\ argout \in 0..L
      /\ \A x \in 0..L : arg[x] \in Text
      /\ Written(arg, starts, argout, Ends) /\ L \in Nat
  BY LenNat DEF WInv, IInv
<1>2. /\ starts = Ends.starts /\ argout = Len(Ends.out)
      /\ \A x \in 0..(argout - 1) : arg[x] = Ends.out[x + 1]
  BY <1>1 DEF Written
<1>3. b \in 1..L /\ Ends.starts[Cardinality(Upto(b))] = s
  BY <1>1, WordStarts
<1>4. t \in Seq(Characters) /\ Walk(cli)[e].out = o \o t
  BY <1>1, <1>3, WordText
<1>5. o \in Seq(Text) /\ t \in Seq(Text) /\ s \in Nat /\ m \in Nat /\ e \in 0..L /\ e # 0
      /\ \A k \in 1..m : t[k] # NUL
  <2>1. b - 1 \in 0..L /\ e \in 0..L /\ e # 0
    BY <1>1, <1>3
  <2>2. Walk(cli)[b - 1] \in Progress
    BY <1>1, <2>1, WalkStep
  <2>3. Characters \subseteq Text
    BY DEF Text
  <2>4. o \in Seq(Text) /\ t \in Seq(Text)
    BY <1>4, <2>2, <2>3, SeqMonotonic DEF Progress
  <2>5. s \in Nat /\ m \in Nat
    BY <2>4, LenProperties
  <2>6. \A k \in 1..m : t[k] \in Characters
    BY <1>4, ElementOfSeq
  <2> QED BY <2>1, <2>4, <2>5, <2>6, CharactersFact
<1> HIDE DEF t, o
<1>6. /\ Len(o \o t) = s + m
      /\ \A k \in 1..(s + m) : (o \o t)[k] = IF k <= s THEN o[k] ELSE t[k - s]
  BY <1>5, ConcatProperties
<1>7. Extends(Ends.out, o \o t)
  <2>1. L \in 0..L /\ e \in 0..L
    BY <1>1, <1>5
  <2>2. Extends(Ends.out, Walk(cli)[e].out)
    BY <1>1, <2>1, Grows DEF Ends
  <2> QED BY <1>4, <2>2
<1> DEFINE n == Len(Ends.out)
<1>8. n = argout /\ n \in Nat /\ n <= L
  BY <1>1, <1>2
<1> HIDE DEF s, m
<1>9. s + m <= n /\ \A k \in 1..(s + m) : Ends.out[k] = (o \o t)[k]
  BY <1>6, <1>7 DEF Extends
<1>10. ASSUME NEW k \in 1..m PROVE arg[s + k - 1] = t[k]
  <2>1. /\ s + k \in 1..(s + m) /\ ~(s + k <= s) /\ (s + k) - s = k
        /\ s + k - 1 \in 0..(argout - 1) /\ (s + k - 1) + 1 = s + k
    BY <1>5, <1>8, <1>9
  <2>2. Ends.out[s + k] = t[k]
    BY <1>6, <1>9, <2>1
  <2>3. arg[s + k - 1] = Ends.out[(s + k - 1) + 1]
    BY <1>2, <2>1
  <2> QED BY <2>1, <2>2, <2>3
<1> DEFINE q == StrAt(arg, s)
<1>11. s \in 0..L
  BY <1>1, <1>5, <1>8, <1>9
<1>12. PICK x \in s..L : /\ arg[x] = NUL /\ \A j \in s..(x - 1) : arg[j] # NUL
                         /\ q = [k \in 1..(x - s) |-> arg[s + k - 1]]
  BY <1>1, <1>11, StrFact
<1> HIDE DEF q
<1>13. x - s >= m
  <2>1. SUFFICES ASSUME ~(x - s >= m) PROVE FALSE
    OBVIOUS
  <2>2. (x - s) + 1 \in 1..m /\ s + ((x - s) + 1) - 1 = x
    BY <1>5, <1>11, <1>12, <2>1
  <2>3. arg[x] = t[(x - s) + 1]
    BY <1>10, <2>2
  <2> QED BY <1>5, <1>12, <2>2, <2>3
<1>14. ASSUME NEW k \in 1..m PROVE k \in 1..(x - s) /\ q[k] = t[k]
  <2>1. k \in 1..(x - s)
    BY <1>5, <1>11, <1>12, <1>13
  <2>2. q[k] = arg[s + k - 1]
    BY <1>12, <2>1
  <2> QED BY <1>10, <2>1, <2>2
<1>15. x - s \in Nat /\ q \in Seq(Text) /\ Len(q) = x - s
  <2>1. x - s \in Nat
    BY <1>11, <1>12
  <2>2. \A k \in 1..(x - s) : s + k - 1 \in 0..L
    BY <1>1, <1>11, <1>12
  <2>3. q \in [1..(x - s) -> Text]
    BY <1>1, <1>12, <2>2
  <2> QED BY <2>1, <2>3
<1>16. IsPrefix(t, q)
  <2>1. Len(t) <= Len(q)
    BY <1>5, <1>13, <1>15 DEF m
  <2> DEFINE a == SubSeq(t, 1, Len(t))
             d == SubSeq(q, 1, Len(t))
  <2>2. Len(t) = m
    BY DEF m
  <2>3. 1 \in Int /\ m \in Int /\ m - 1 + 1 = m
    BY <1>5
  <2>4. \A k \in 1..m : t[k] \in Text /\ q[k] \in Text
    <3>1. \A k \in 1..m : t[k] \in Text
      BY <1>5, ElementOfSeq DEF m
    <3> QED BY <3>1, <1>14
  <2>5. /\ a \in Seq(Text) /\ Len(a) = IF 1 <= m THEN m - 1 + 1 ELSE 0
        /\ \A k \in 1..(m - 1 + 1) : a[k] = t[1 + k - 1]
    BY <2>2, <2>3, <2>4, SubSeqProperties
  <2>6. /\ d \in Seq(Text) /\ Len(d) = IF 1 <= m THEN m - 1 + 1 ELSE 0
        /\ \A k \in 1..(m - 1 + 1) : d[k] = q[1 + k - 1]
    BY <2>2, <2>3, <2>4, SubSeqProperties
  <2> HIDE DEF a, d
  <2>7. Len(a) = m /\ Len(d) = m
    BY <1>5, <2>5, <2>6
  <2>8. ASSUME NEW k \in 1..Len(a) PROVE a[k] = d[k]
    <3>1. k \in 1..(m - 1 + 1) /\ k \in 1..m /\ 1 + k - 1 = k
      BY <1>5, <2>7
    <3> QED BY <3>1, <1>14, <2>5, <2>6
  <2>9. a = d
    BY <2>5, <2>6, <2>7, <2>8, SeqEqual
  <2> QED BY <2>1, <2>9 DEF IsPrefix, a, d
<1>17. ASSUME e < L PROVE q = t
  <2>1. Break(e + 1)
    BY <1>17, <1>5
  <2>2. ~Walk(cli)[e].at.spaces
    <3>1. StateAt(e)
      BY <1>1, <1>5, StateLaw
    <3>2. ~Break(e)
      BY <1>3
    <3> QED BY <1>5, <3>1, <3>2 DEF StateAt
  <2>3. WritesAt(Walk(cli)[e].at, cli[e + 1]) = <<NUL>>
    BY <1>1, <1>5, <1>17, <2>1, <2>2, WritesSays
  <2>4. Walk(cli)[e + 1].out = (o \o t) \o <<NUL>>
    <3>1. Walk(cli)[e + 1] = Advance(Walk(cli)[e], cli[e + 1])
      BY <1>1, <1>5, <1>17, WalkStep
    <3> DEFINE v == Walk(cli)[e]
               u == Walk(cli)[e + 1]
               w == WritesAt(v.at, cli[e + 1])
    <3>2. u = Advance(v, cli[e + 1]) /\ w = <<NUL>> /\ v.out = o \o t
      BY <1>4, <2>3, <3>1
    <3> HIDE DEF u, v
    <3>3. u.out = v.out \o w
      BY <3>2 DEF Advance
    <3> HIDE DEF w
    <3>4. u.out = (o \o t) \o <<NUL>>
      BY <3>2, <3>3
    <3> QED BY <3>4 DEF u
  <2> DEFINE z == o \o t
             y == z \o <<NUL>>
  <2>5. z \in Seq(Text) /\ Len(z) = s + m
    BY <1>5, <1>6, ConcatProperties
  <2>6. <<NUL>> \in Seq(Text) /\ Len(<<NUL>>) = 1 /\ <<NUL>>[1] = NUL
    BY DEF Text
  <2> HIDE DEF z
  <2>7. /\ Len(y) = Len(z) + Len(<<NUL>>)
        /\ \A k \in 1..(Len(z) + Len(<<NUL>>)) :
             y[k] = IF k <= Len(z) THEN z[k] ELSE <<NUL>>[k - Len(z)]
    BY <2>5, <2>6, ConcatProperties
  <2> HIDE DEF y
  <2>8. Len(y) = s + m + 1 /\ y[s + m + 1] = NUL
    <3>1. Len(z) + Len(<<NUL>>) = s + m + 1
      BY <2>5, <2>6
    <3>2. s + m + 1 \in 1..(s + m + 1) /\ ~(s + m + 1 <= s + m) /\ (s + m + 1) - (s + m) = 1
      BY <1>5
    <3> QED BY <2>5, <2>6, <2>7, <3>1, <3>2
  <2>9. Extends(Ends.out, y)
    <3>1. L \in 0..L /\ e + 1 \in 0..L
      BY <1>1, <1>5, <1>17
    <3>2. Extends(Ends.out, Walk(cli)[e + 1].out)
      BY <1>1, <3>1, Grows DEF Ends
    <3> QED BY <2>4, <3>2 DEF y, z
  <2>10. s + m + 1 <= n /\ Ends.out[s + m + 1] = NUL
    <3>1. s + m + 1 \in 1..(s + m + 1)
      BY <1>5
    <3> QED BY <2>8, <2>9, <3>1 DEF Extends
  <2>11. arg[s + m] = NUL
    <3>1. s + m \in 0..(argout - 1)
      BY <1>5, <1>8, <2>10
    <3> QED BY <1>2, <2>10, <3>1
  <2>12. x - s = m
    <3>1. ~(s + m \in s..(x - 1))
      BY <1>12, <2>11
    <3> QED BY <1>5, <1>11, <1>12, <1>13, <3>1
  <2>13. Len(q) = Len(t) /\ \A k \in 1..Len(q) : q[k] = t[k]
    BY <1>14, <1>15, <2>12 DEF m
  <2> QED BY <1>5, <1>15, <2>13, SeqEqual
<1>18. starts[Cardinality(Upto(b))] = s
  BY <1>2, <1>3
<1> QED BY <1>16, <1>17, <1>18 DEF q, t

(* However a line is typed, both walks find the words its quotes and spaces *)
(* make, and each word is decoded where the walk has passed; only the last  *)
(* may have more behind it.  An escape that begins a word is lost.          *)
THEOREM AlwaysDecoded == Spec => []WordsDecoded
<1>1. ASSUME WInv, RInv, TypeOK PROVE WordsDecoded
  <2> SUFFICES ASSUME pc = "redirect", ~LeadingEscape
               PROVE  /\ Len(Strings) = Len(Words)
                      /\ \A n \in DOMAIN Words : IF n < Len(Words) THEN Strings[n] = Words[n]
                                                 ELSE IsPrefix(Words[n], Strings[n])
    BY <1>1 DEF WordsDecoded
  <2> DEFINE N == Cardinality(Beginnings)
             L == Len(cli)
  <2>1. /\ cli \in Commands /\ Written(arg, starts, argout, Ends) /\ L \in Nat
        /\ L \in 0..L /\ DOMAIN cli = 1..L
    BY <1>1, CharactersFact DEF WInv, IInv
  <2>2. Upto(L) = Beginnings
    BY <2>1 DEF Upto, Beginnings
  <2>3. N \in Nat /\ Len(Ends.starts) = N
    BY <2>1, <2>2, BeginningsCounted DEF Ends
  <2>4. DOMAIN Words = 1..N /\ Len(Words) = N
    BY <2>3 DEF Words
  <2>5. Len(Strings) = N /\ DOMAIN starts = 1..N /\ Strings = StringsOf(arg, starts)
    BY <1>1, <2>1, <2>3, WordsType, AsStrings DEF Ws, Written
  <2>6. ASSUME NEW n \in 1..N
        PROVE  IF n < N THEN Strings[n] = Words[n] ELSE IsPrefix(Words[n], Strings[n])
    <3> DEFINE b == Beginning(n)
    <3>1. b \in Beginnings /\ Cardinality(Upto(b)) = n
      BY <2>1, BeginningFact
    <3>2. Words[n] = Word(b) /\ Strings[n] = StrAt(arg, starts[n])
      <4>1. Words[n] = Word(b)
        BY DEF Words
      <4>2. n \in DOMAIN starts /\ Strings = StringsOf(arg, starts)
        BY <2>5
      <4>3. StringsOf(arg, starts)[n] = StrAt(arg, starts[n])
        BY <4>2, StringsAt
      <4> QED BY <4>1, <4>2, <4>3
    <3> HIDE DEF b
    <3>3. PICK e \in b..Len(cli) : /\ \A k \in b..e : ~Break(k)
                                   /\ e = Len(cli) \/ Break(e + 1)
                                   /\ Word(b) = TextOf(b, e)
      BY <2>1, <3>1, WordFact, Zenon
    <3>4. /\ e < Len(cli) => Strings[n] = Words[n]
          /\ IsPrefix(Words[n], Strings[n])
      BY <1>1, <3>1, <3>2, <3>3, WordWritten
    <3>5. ASSUME n < N PROVE e < Len(cli)
      <4> SUFFICES ASSUME ~(e < Len(cli)) PROVE FALSE
        OBVIOUS
      <4>1. e = Len(cli)
        <5>1. e \in b..L /\ b \in 1..L
          BY <3>1, <3>3 DEF Beginnings
        <5>2. L \in Nat /\ ~(e < L)
          BY <2>1
        <5> HIDE DEF L
        <5>3. e = L
          BY <5>1, <5>2
        <5> QED BY <5>3 DEF L
      <4>2. ASSUME NEW k \in Beginnings PROVE k <= b
        <5>1. k \in 1..L /\ b \in 1..L /\ Begins(k)
          BY <2>1, <3>1 DEF Beginnings
        <5>2. ASSUME ~(k <= b) PROVE FALSE
          <6>1. k - 1 \in b..e /\ k # 1
            BY <2>1, <4>1, <5>1, <5>2
          <6> QED BY <3>3, <5>1, <6>1 DEF Begins
        <5> QED BY <5>2
      <4>3. Upto(b) = Beginnings
        BY <4>2 DEF Upto
      <4> QED BY <2>3, <3>1, <3>5, <4>3
    <3> QED BY <3>4, <3>5
  <2> QED BY <2>4, <2>5, <2>6
<1> QED BY <1>1, AlwaysWR, TypeCorrect, PTL
=============================================================================
