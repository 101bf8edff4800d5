--------------------------- MODULE SystemVariables ---------------------------
(***************************************************************************)
(* System variables (sysvars/): getenv, which keeps one block for what it  *)
(* returns, and the calls of the kernel's interface.  A value is a         *)
(* sequence of characters; the block is known by its size and what its     *)
(* string is.  OS_ReadVarVal is the host's: a value too long for the room  *)
(* that is given is an overflow, and the room may have been written to.    *)
(***************************************************************************)
EXTENDS Integers, Sequences, FiniteSetsExt

CONSTANTS INITIAL_SIZE, INCREMENT, MAXIMUM_SIZE, \* 256, 256 and 2048 in the code
          Names, Values

ASSUME SizesAssumption ==
  /\ INITIAL_SIZE \in Nat /\ INCREMENT \in Nat \ {0} /\ MAXIMUM_SIZE \in Nat
  /\ INITIAL_SIZE <= MAXIMUM_SIZE

VARIABLES
  variables,      \* the host's: each name's value, or NoVariable
  envstring,      \* the block, or NoBlock
  envstringlen,   \* its size, as the code has it
  got,            \* what the last call of getenv returned: NULL or a value
  errno

environVars == <<variables, envstring, envstringlen, got, errno>>

NoVariable == <<"unset">>
NoBlock == [size |-> 0, text |-> <<>>]
NoValue == <<"NULL">>
Overwritten == <<"overwritten">>

EnvironInit ==
  /\ variables = [n \in Names |-> NoVariable]
  /\ envstring = NoBlock /\ envstringlen = 0
  /\ got = NoValue /\ errno = "none"

-----------------------------------------------------------------------------
\* The rooms getenv tries for a value, from the one it has: each is too small
\* but the last, and only the last can have been refused by the heap.
Tried(value, room) ==
  {k \in 0..(MAXIMUM_SIZE - room) \div INCREMENT :
     \A j \in 0..k - 1 : Len(value) > room + j * INCREMENT}

\* Mutant: what realloc gave is not remembered.
FetchedUnsized(value, room, k) ==
  LET size == room + k * INCREMENT
      fits == Len(value) <= size
  IN  /\ envstringlen' = room
      /\ envstring' = [size |-> size, text |-> IF fits THEN value ELSE Overwritten]
      /\ got' = IF fits THEN value ELSE NoValue
      /\ UNCHANGED errno

\* getenv of a variable that has a value, with a block of so many bytes: how it
\* ends after k enlargements, for want of room or of memory when it cannot go on.
Fetched(value, room, k) ==
  LET size == room + k * INCREMENT
      fits == Len(value) <= size
  IN  /\ envstringlen' = size
      /\ envstring' = [size |-> size, text |-> IF fits THEN value ELSE Overwritten]
      /\ got' = IF fits THEN value ELSE NoValue
      /\ UNCHANGED errno

getenv(var) ==
  /\ UNCHANGED variables
  /\ LET room == IF envstring = NoBlock THEN INITIAL_SIZE ELSE envstringlen
     IN  \/ /\ envstring = NoBlock                \* malloc refuses
            /\ errno' = "ENOMEM" /\ got' = NoValue
            /\ UNCHANGED <<envstring, envstringlen>>
         \/ /\ variables[var] = NoVariable
            /\ errno' = "none" /\ got' = NoValue
            /\ envstringlen' = room
            /\ envstring' = IF envstring = NoBlock THEN [size |-> room, text |-> Overwritten]
                            ELSE envstring
         \/ /\ variables[var] # NoVariable
            /\ \E k \in Tried(variables[var], room) : Fetched(variables[var], room, k)

\* OS_SetVarVal with the length of the value, or -1 to delete the variable.
_kernel_setenv(var, val) ==
  /\ variables' = [variables EXCEPT ![var] = val]
  /\ UNCHANGED <<envstring, envstringlen, got, errno>>

\* What _kernel_getenv leaves in a buffer of size bytes: the room that the
\* host is given is one less; nothing of a value that does not fit.
_kernel_getenv(var, size) ==
  IF variables[var] # NoVariable /\ Len(variables[var]) <= size - 1
  THEN variables[var] ELSE NoValue

\* The end of the program, or of the module, and its start.
__getenv_final ==
  /\ envstring' = NoBlock
  /\ got' = NoValue
  /\ UNCHANGED <<variables, envstringlen, errno>>

__getenv_init ==
  /\ envstring = NoBlock
  /\ envstringlen' = 0
  /\ UNCHANGED <<variables, envstring, got, errno>>

EnvironNext ==
  \/ \E var \in Names : getenv(var)
  \/ \E var \in Names, val \in Values \cup {NoVariable} : _kernel_setenv(var, val)
  \/ __getenv_final \/ __getenv_init

EnvironSpec == EnvironInit /\ [][EnvironNext]_environVars

-----------------------------------------------------------------------------
(***************************************************************************)
(* The string getenv returned last is whole in the block it returned, and  *)
(* the size the code remembers is the block's, however the calls, the      *)
(* refusals of the heap and the restarts went.  The string is at most as   *)
(* long as the block; the byte that ends it may be the one behind.         *)
(***************************************************************************)
ValueHeld ==
  /\ envstring # NoBlock => envstringlen = envstring.size
  /\ got # NoValue => envstring.text = got /\ Len(got) <= envstring.size
  /\ envstringlen <= MAXIMUM_SIZE
==============================================================================
