------------------------------- MODULE Library -------------------------------
(***************************************************************************)
(* The parts of the library that share no state with malloc, the streams   *)
(* and the life of a program, side by side: a program uses one of them.    *)
(*   calls    functions without state (Calls)                              *)
(*   random   random() with its tables; rand() is "rand"      (Random)     *)
(*   environ  getenv and the system variables        (SystemVariables)     *)
(*   console  the console stream and the clock                (Console)    *)
(*   strings  strtok and strcat                                (Tokens)    *)
(*   heap     the accumulator heap                        (Accumulator)    *)
(***************************************************************************)
EXTENDS Calls, Random, SystemVariables, Console, Tokens, Accumulator

VARIABLES part, drawings     \* drawings: how often random was called, for the bound

CONSTANT MaxDrawings

libraryVars == <<part, drawings, callVars, randomVars, environVars, consoleVars, tokensVars,
                 accumulatorVars>>

Parts == {"calls", "random", "rand", "environ", "console", "strings", "heap"}

Init == /\ part \in Parts /\ drawings = 0
        /\ CallsInit /\ RandomInit /\ EnvironInit /\ ConsoleInit
        /\ TokensInit /\ AccumulatorInit

OneCall == /\ part = "calls" /\ CallsNext
           /\ UNCHANGED <<randomVars, environVars, consoleVars, tokensVars, drawings, accumulatorVars>>
OfRandom == /\ part = "random" /\ drawings < MaxDrawings /\ drawings' = drawings + 1
            /\ TablesNext
            /\ UNCHANGED <<callVars, environVars, consoleVars, tokensVars, accumulatorVars>>
OfRand == /\ part = "rand" /\ RandNext
          /\ UNCHANGED <<callVars, environVars, consoleVars, tokensVars, drawings, accumulatorVars>>
OfEnviron == /\ part = "environ" /\ EnvironNext
             /\ UNCHANGED <<callVars, randomVars, consoleVars, tokensVars, drawings, accumulatorVars>>
OfConsole == /\ part = "console" /\ ConsoleNext
             /\ UNCHANGED <<callVars, randomVars, environVars, tokensVars, drawings, accumulatorVars>>
OfStrings == /\ part = "strings" /\ TokensNext
             /\ UNCHANGED <<callVars, randomVars, environVars, consoleVars, drawings, accumulatorVars>>
OfHeap == /\ part = "heap" /\ AccumulatorNext
          /\ UNCHANGED <<callVars, randomVars, environVars, consoleVars, tokensVars, drawings>>

Next == /\ UNCHANGED part
        /\ OneCall \/ OfRandom \/ OfRand \/ OfEnviron \/ OfConsole \/ OfStrings \/ OfHeap

Spec == Init /\ [][Next]_libraryVars
==============================================================================
