# Verification of the RISC OS 64 C library (riscos64-simple-binaries)

The repository holds a small C library for RISC OS 64 (`clib/`), the start-up
code and linker scripts that turn programs and relocatable modules into
binaries (`clib/start.s`, `modules/`, `clib/bin`, `clib/linker`) and a set of
example programs and tests. The library is what carries the logic; this project
models it in TLA+, checks it with TLC on small instances and proves the main
facts with TLAPS for every value of the constants.

## 1. Inventory

| Part | State it keeps | Operations | What is hard | What makes it correct |
|---|---|---|---|---|
| O(1) heap (`clib/heap/o1heap.c`) | fragments chained by address, free lists per power of two, a mask of the lists that are not empty, diagnostics | init, allocate (unbin, split, rebin), free (merge left, right, both) | long sequences of frees in any order; sizes at a power of two and at the limit; a mask that is a cached copy | the fragments tile the arena; the free lists hold exactly the free fragments; no two free neighbours; a request fails only when nothing fits |
| Heap shims (`clib/heap/{init,o1heap-shim,accumulator,osheap}.c`) | the heap's base and size; the accumulator's high-water mark and last block | init, alloc, free, realloc | failure in the middle of realloc; the high-water mark at its limit | blocks never overlap; a failed call leaves the heap usable |
| `malloc` layer (`clib/malloc.c`) | a header with the size in front of each block, lazily initialised heap, `errno` | malloc, free, realloc, calloc; in a module, `OS_Module` 6, 7, 13 | size arithmetic that wraps; a failed realloc must keep the block; data moved by realloc | a block is as large as asked for; contents survive; the block is lost by no failure |
| FILE streams (`clib/io`, `clib/fs`) | a chain of FILE blocks, per-stream flags, a pushed-back character, the host file or console or memory stream behind it | fopen, freopen, fclose, fread, fwrite, fgetc, ungetc, fgets, fputc, fputs, fseek, ftell, feof, fflush, tmpfile, start and finish | three back ends; a stream that fails half way through reopening; closing a standard stream; the chain walked at exit | the chain holds exactly the open streams; every host handle is closed once; what is read is what was written |
| Memory streams (`clib/io/io-memstream.c`) | a buffer, its size, an extent, a position | open, read, write, seek, close | growth at the limit, a terminator written behind the data, writing in the middle | the terminator never destroys data; position and extent stay inside the buffer |
| Start, exit and the environment (`clib/clib.c`, `clib/atexit.c`, `clib/env.c`, `clib/abort.c`, `clib/assert.c`, `clib/start.s`, `clib/module.c`, `modules/modhead.s`) | the table of exit handlers, the saved RISC OS handlers | start, exit, atexit, error, escape and exit handlers, module initialise and finalise | handlers that call exit or register handlers; errors during exit; a module initialised twice | each registered handler runs once, in reverse order; the old handlers are put back on every way out |
| Signals (`clib/signal.c`) | a table of handlers and a set of blocked signals | signal, raise | a handler that raises | a signal is delivered to the handler registered |
| Command line (`clib/main.c`) | argv built from the command string; redirections opened | parse, redirect | quotes and escapes; a redirection that fails after another one opened | the words are those of the command; what was opened is closed |
| Time (`clib/time`) | a frozen clock offset | clock, gmtime, mktime, strftime, asctime | leap years, month ends, the weeks of ISO 8601 | the calendar's day; a length of 0 just when nothing fits |
| System variables (`clib/sysvars`) | the last value read, in a block that grows | getenv, `_kernel_getenv`, `_kernel_setenv` | a variable that grows between two calls, memory refused, a restart | the block's size is the one remembered; the value returned stays whole |
| Strings, conversion, sorting, searching (`clib/string`, `clib/conversion`, `clib/qsort.c`, `clib/bsearch.c`, `clib/ctypes`) | the saved position of `strtok`; otherwise none | pure functions | boundaries: empty strings, equal keys, the largest number | they compute what C says |
| Console (`clib/io/io-consoleio.c`) | the buffer of the last line read | read a byte or a line, write a byte or many | a call that waits for the user while the clock must not run; a host that refuses half way | the clock stands still while the user is waited for |
| Formatted I/O (`clib/io/io-vprintf.c`, `io-sprintf.c`, `sscanf.c`) | what is left of the buffer | printf and scanf families | seven flags, width and precision combined; a buffer that ends within a piece | the text is the one the C standard asks for; nothing is stored beyond the buffer (which does not hold, section 5) |
| Random numbers (`clib/random`) | the table `random` works on and its two places; tables the program put away | srand, rand, srandom, random, initstate, setstate | places wrapping round the table; a table put away and taken up again | a table's sequence goes on where it was left |
| Soft floating point (`clib/builtins`) | none | arithmetic, comparison and conversion of long doubles | rounding, denormals, overflow | IEEE results |
| Mathematics (`clib/maths`) | none | floor, ceil, trunc, modf, nextafter, fmod, sqrt, scalbn; and the functions that approximate | carries between the words of a number; denormals | exact, or rounded once |
| Kernel veneers (`clib/kernel`, `clib/swis*.s`) | the last OS error | one SWI each | pure I/O | not modelled |
| Relocation (`clib/bin/riscos64-mkreloc`) | the table of relocations, the address relocated for | the code that a binary runs before `_start` | the binary moved or restarted | each word is relocated exactly once per move |
| Build tools (`clib/bin`, `clib/linker`, Makefiles, `tests`, `changelogs`) | none | build, test, release notes | scripts | not modelled |

How the parts interact. `main.c` decodes the command line, opens the
redirections with `freopen`, starts the library and calls `main`. `malloc`
serves the program and the FILE blocks; the heap behind it is chosen by
`heap/init.c`. `exit` runs the exit handlers, then closes the streams, then
gives the environment handlers back to the parent; an error or Escape enters
the same path from the side. Everything else is called by the program and calls
the operating system. There are no threads: what runs concurrently with the
program is Escape, and what fails underneath it is the host.

## 2. Modules

| Module | Models | Built on |
|---|---|---|
| `Allocator` | what any allocator promises: a block holds the amount that was asked for, aligned, inside the arena, clear of other blocks and of the allocator's own records | |
| `O1Heap` | `heap/o1heap.c` | implements `Allocator` |
| `Malloc` | `malloc.c`, `heap/o1heap-shim.c`, in a program | EXTENDS `O1Heap`; implements `Allocator` for its client |
| `Accumulator` | `heap/accumulator.c` as `malloc.c` drives it | |
| `Streams` | what the calls that open and close promise: a table of streams | |
| `Stdio` | `io/io-file-fopen*.c`, `io/io-init.c`, `fs/fs-tmpfile.c`, the close of `fs/fs-io.c` | implements `Streams` |
| `Tape` | what reading, writing and seeking promise | |
| `StreamData` | `io/io-file-{read,write,seek}.c`, the dispatchers of `fs/fs-io.c` | implements `Tape` |
| `MemStream` | `io/io-memstream.c` | |
| `Lifecycle` | `atexit.c`, `env.c`, `signal.c`, `abort.c`, `assert.c`, `clib.c`, `start-exit.s`, the start of `main.c` | |
| `CommandLine` | the rest of `main.c` | |
| `Console` | `io/io-consoleio.c`, `time/time-clock.c` | |
| `SystemVariables` | `sysvars/` | |
| `Random` | `random/random.c`, `random/rand.c` | |
| `Strings` | `string/` but for `memset.c`, `ctypes/`, abs: pure functions on a memory of bytes | |
| `TextMemory` | the memory of a program, with texts in it | an instance of `Strings` |
| `Tokens` | `strtok` and `strcat` called in a row | EXTENDS `TextMemory` |
| `Text` | the arithmetic of C that conversions share | |
| `Printing` | `io/io-vprintf.c`, `io/io-sprintf.c`, `conversion/cvt_*.c` | EXTENDS `Text` |
| `Calendar` | `time/time-time.c`, `time-gmtime.c`, `asctime.c`, `strftime.c` | EXTENDS `Printing` |
| `Reading` | `conversion/strto*.c`, `ato*.c`, `io/sscanf.c` | EXTENDS `Text` |
| `Sorting` | `qsort.c`, `bsearch.c` | |
| `Caller` | a program that calls a function that keeps nothing: a call, its answer, the return | |
| `SortCalls` | a program that has its arrays sorted and looks for keys in them | EXTENDS `Sorting`, `Caller` |
| `MemoryCalls` | a program that moves blocks, and compares, searches and copies texts | EXTENDS `TextMemory`, `Caller` |
| `SoftFloat`, `Maths` | `builtins/`; the exact functions of `maths/` | `Maths` EXTENDS `SoftFloat` |
| `Calls` | calls of those functions, and what each answer should be; `memset`, which or's bytes | EXTENDS `Calendar`, `Reading`, `SortCalls`, `MemoryCalls`, and `Bitwise`; an instance of `Maths` |
| `Library` | the parts that share no state, side by side | EXTENDS `Calls`, `Random`, `SystemVariables`, `Console`, `Tokens`, `Accumulator` |
| `O1HeapProofs`, `StdioProofs`, `StreamDataProofs`, `MemStreamProofs`, `CommandLineProofs`, `LifecycleProofs` | the theorems | EXTENDS the module named and `TLAPS` |
| `MallocProofs` | the theorems about `Malloc` | EXTENDS `Malloc` and `O1HeapProofs` |
| `LibraryProofs` | the theorems about `Accumulator`, `Console`, `SystemVariables`, `Random`, `SortCalls`, `Tokens` and `MemoryCalls` | EXTENDS these and `TLAPS` |
| `MC...` | the values of the constants for TLC; `O1Heap` and `Lifecycle`, whose constants are sets and numbers, are run as they are (`O1Heap.cfg`, `Lifecycle.cfg`) | EXTENDS the module named |

### How state and actions correspond to the code

**O1Heap.** A heap is a record with the fields of `O1HeapInstance`. The field
`fragments` maps the offset of each fragment in the arena to its header and free
links; offsets stand for pointers, `NULL` (-1) for the null pointer, and the
non-empty mask is the set of its bits. `o1heapInit`, `o1heapAllocate` and
`o1heapFree` are operators from a heap to a heap, made of `rebin`, `unbin` and
`interlink` as in the source, so that `Malloc` can call several of them in one
step; the actions `Allocate` and `Free` are one call each. A client frees what
it was given, once, or NULL, as the header file demands; `blocks` is what it holds,
each block with the amount it asked for, which the code does not keep and which
`Allocator` is about. The bin indices use the mathematical logarithm where the source
has CLZ or its emulation.

**Malloc.** One action per call. `blocks` maps what the client holds to the size
in the header (`alloc_t`) and to the number of bytes asked for; `Padded` is the
size arithmetic, modulo `2^SIZE_BITS`, and `AsInt` the `int` through which
`calloc` passes its product. `last` records the latest call, for the property
on the bytes `realloc` copies.

**Accumulator.** `hwm` moves even when a request fails, as in the source; a
`realloc` of the last block that must grow frees first and allocates afterwards.

**Stdio.** `chain` and `list` are `_chain` and `__file_list`; `fh` holds the
other fields of each FILE that decide something. `fopen`, `fopen_fails`,
`open_memstream`, `tmpfile`, `freopen`, `freopen_fails` and `fclose` are the
calls; where the host has a choice (which handle, the console, a refusal) the
action has it too. `__io_final`, `final_fclose` and `final_done` are the walk at
exit, one stream a step, and `__io_init` starts a module again.

**Lifecycle.** What is executing is a stack of activities. A function that does
not return (an error, `exit`, an environment handler) replaces the stack: what
lies below it is never gone back to. `Finalise` is the call
of `__atexit_trigger`, whose loop is the activity `"trigger"` with its index, so
that a handler that ends the program a second time starts a second loop over
the same table. `_env_escape` may fire at every point. `fopen` is three steps: the host
opens the file, the list is read (`chain`), and the FILE becomes its head (`link`);
Escape may come between any two and run a handler that opens files itself, which
`link` then drops from the list. `caught` is history: the files that an Escape came in
between, before they were linked or before their turn in the closing, and those that a
handler opened which had broken into another's linking or into the closing. The program of
the model closes no file itself; `fclose` is `Stdio`'s.

**MemStream.** The buffer by offset, position, extent, and what the program was
last told (`view`); `realloc` may refuse, stay or move.

**CommandLine.** `Count` and `Build` are one character of the first and second
walk. `arg` is the copy of the command line that is decoded in place, so what
`Build` writes is what `Build` later reads if it ever got ahead. `Built` gives
argv its strings as the memory then has them; `Redirect`, `RedirectFails` and
`NotRedirection` are one turn of the loop in `__cli_redirection`.

**StreamData.** `file` and `pos` are the host's, `pushed` is the library's.
`call` and `got` are what the program is told, and `place` is where the program
concludes it is, from what it was told alone.

**Console.** A call that reads is two steps, for the user is as slow as he
likes; `Tick` is the host's counter. `ran` is the time that went by while the
program ran, which the code does not keep. A text is written in as many calls of
the host as the code makes, any of which may refuse.

**SystemVariables.** `getenv` is one step: its loop is the number `k` of times the
block was enlarged before the value fitted, memory was refused or the largest
block was too small. `envstringlen` and the block's own size are two things, and
`ValueHeld` is about them not coming apart.

**Random.** A table keeps its type and its place in the word in front of it, as
the code does; `Register` reads from the words alone what the table will give.
`rand` makes its generator anew at each call, as the code does, in a block that
is never freed.

**Calls and the functions without state.** `Printing`, `Calendar`, `Reading`,
`Sorting`, `Strings`, `SoftFloat` and `Maths` are operators, one for each function
of the C code with its name. A call is an action that puts the arguments and the
answer side by side; the properties say what the answer should be, in the words
of the C standard and by exact arithmetic, never the way the code computes it.
Floating-point numbers are their representation, so that the carries the code
relies on are there; the widths of words, significands and exponents are
constants. In `Sorting` the loops of the code are functions of the number of passes,
with a bound no loop reaches later (a partition makes a step at least as often as it
has elements but one, a search as often as it has elements); the element count where
the code counts bytes; and the recursion of `local_qsort` is a function of how many
elements it sorts, whose second part is a `goto` in the code. `Strings` works on addresses, for overlap and the pieces of eight and four
bytes are what could go wrong; its loops, too, are functions of the number of passes.

**Library.** A program uses one of these parts: they share no variables, and
`part` says which one a behaviour is about, so that their states add up
and do not multiply.

## 3. Runs

| Run | Question | Size |
|---|---|---|
| `o1heap` | does any order of requests and frees break the chain, the lists, the mask or the diagnostics, refuse what fits, or give a block that does not hold what was asked for? | an arena of five smallest fragments on a 5-bit machine, amounts of 0, 1, 2, 7 and 10 |
| `malloc` | does the client hold exactly what is used, does it fit, what does `realloc` copy? | four smallest fragments, 6-bit sizes, 5-bit `int`, an amount that wraps to nothing |
| `stdio` | do open, reopen, close, exit and restart lose or repeat a block, a handle, a temporary file? | two FILE blocks, two handles, one temporary name |
| `stdio_reopen` | the same, and the host may refuse the `freopen` of an opened file: a violation | as above |
| `lifecycle` | do handlers, errors, signals and Escape in any nesting end the program properly, and which files are left open? | two slots, two registrations, three interrupts, depth four, two files |
| `memstream` | are contents, view and terminator right under growth, refusal and seeks? | a buffer of three growing by two, up to eight |
| `commandline` | are words and redirections decoded as typed? | a name and up to four characters of eight kinds, up to seven of those that make redirections, up to six of those that quote |
| `commandline_words` | does `main` get the words typed? a violation | up to three characters |
| `streamdata` | do reads, pushes back, writes and seeks agree with the host's place? | files of up to four bytes |
| `streamdata_items` | does `fread` count items? a violation | as above, any program |
| `library` | do the functions without state answer as they should, and is the state of `random`, `getenv`, the console's clock, `strtok` and the accumulator heap kept? | see below |
| `library_snprintf` | does `snprintf` keep to its buffer? a violation | as `library` |

Why the bounds suffice. *o1heap*: five smallest fragments give three bins, a
fragment freed with no, either or both neighbours free, two fragments in one
bin, and a full heap. *malloc*: the block being moved, a neighbour on each side
and room for the copy. *stdio*: unlinking the head and the last of a chain, the
handles exhausted, a handle used again by another stream; a third FILE would add
unlinking in the middle, which takes the same branch as the last. *lifecycle*:
three interrupts are one more than the errors `_env_error` accepts before it
gives up; a handler that registers another takes the slot just emptied; two files are
opened one inside the other, at a depth of main, a call, the handler that breaks into it
and that handler's call. The theorems have no such bounds. *memstream*: the buffer
grows at least twice and is then refused. *commandline*: the decoder's state is
three flags, which all change within four characters; redirections need two words
taken out next to each other. *streamdata*: files shorter and longer than two
items of two bytes.

*library*: what is a width or a count in the code is a constant, small enough for
every case of the code to happen, and the arguments lie on both sides of every
boundary. Integers have 3, 5, 15 and 16 bits where the code has 8, 16, 32 and 64
(printing), and 3 and 4 bits for int and long (reading). Long doubles have two
exponent bits more than the narrow format, 4 significand bits against 2, so that sums
carry, cancel, become denormal and overflow: of the narrow formats all pairs of
numbers are tried. Integers that floats are converted to have 4 bits. Arrays have up
to 10 keys, with the limits of `qsort`'s four strategies at 4 and 8 (7 and 40 in the
code). A day has eight seconds; dates are those of 1996-2101 at both ends of years,
and the word in front of the table of months is 0 or 1. Flags are tried in all 32
combinations with three widths and three precisions. `getenv`'s block grows from 2 by
2 to 6; tables of `random` have types of 0 and 3 words; strings up to 8 characters
are cut in five calls. The accumulator heap has nine units, and requests of 2, 3, 5
and 7: two blocks, a third that fails, and the mark pushed past the end. `strlen`,
`memcpy` and their kin have no width to scale: `Strings` has the numbers of the code.
Blocks of up to 33 bytes, which is four rounds of the eight-byte loop and one byte,
are moved between the addresses 0 to 44 of a memory whose bytes are all different;
texts have up to four characters, and limits lie below, at and above their lengths.

### What the properties say

* The fragments tile the arena (`Tiling`), the lists hold exactly the free ones
  (`FreeLists`), no two free ones touch (`Coalesced`), the source's own
  self-check holds and the accounts add up (`DiagnosticsHold`); a request is
  refused only when nothing fits (`OutOfMemoryOnlyWhenFull`). To a client the
  heap implements `Allocator` (`RefinesAllocator`): what is behind the pointer holds the
  amount of that very call, and neither it nor a header in front of it reaches into
  another block. So does `malloc`, with `realloc` as a move (`RefinesClient`).
* `ClientOwnsUsed` joins the two layers: every used fragment is a block the
  client holds and the reverse, a failed `realloc` included. `ReallocCopies` is about
  the bytes.
* `BlocksHeld`: blocks of the accumulator stay apart and nothing held is
  uncovered when the mark is lowered.
* `ChainHoldsOpen`, `HostOwned`: chain, heap, host handles and temporary files
  agree at every point; `ExitClosesAll` and `ExitEnds`: what exit leaves, and that
  it comes to an end; `RefinesStreams`.
* `RunInReverse`, `EarlyHandlersRun`, `FilesClosed`: what every way out of a
  program does, however its handlers fail, exit and register. `FilesClosed` excepts what
  `_env_error` gives up and the files in `caught`, and nothing else. `SignalsHandled`:
  signals nest and none stays blocked; `ExitEnds`: an end once begun comes.
* `ContentKept`, `ViewLive`, `WriteStores`; `WritesBehind`, `WordsDecoded`,
  `RestKept`; `PlaceKept` and `RefinesTape`: the data paths.
* `PrintedRight`, `CalendarRight`, `NumbersRead`, `SortedRight`,
  `FloatsRounded`, `MathsRight`, `MemoryRight`, `BlockFilled`: each answer is the one the
  function promises. What they leave out is named in their comments and is in
  section 5. `strspn`, `strncpy`, `strncat` and `strdup` are modelled and no property claims
  their results, the first three for what section 5 says of them; nor does one claim what
  `strcat` joins, only that words cut meanwhile stay whole. `NumbersRead` is about the
  64-bit functions (`strtoll`, `strtoull`), whose code `strtol` and `strtoul` share, and
  about exponents up to the code's largest (`MAX_EXPONENT`). `TokensRight`: `strtok` returns the words there were, and keeps them.
* `ValueHeld`, `ClockCountsRunning`, `SequenceKept`: state that the library keeps between
  calls of a program that does something else meanwhile.

### Fairness

`Stdio` has weak fairness on the walk of `__io_final`, which is straight-line
code: nothing but the chain can keep it from ending. `Lifecycle` has weak
fairness on the library's own steps and on the return of handlers: a program
whose handler loops for ever is not the library's to end. No fairness is given
to the program, to Escape, to the user at the keyboard or to the host. The other
specifications have none and no liveness property: their loops end by the shape
of the data they walk.

### Programs assumed

A client of the heap frees what it holds. A program uses no stream after
`fclose` or a `freopen` that failed. `Careful` (`MemStream`): it seeks within
what it wrote and flushes at its end. `Orderly` (`StreamData`): it keeps to the C
standard's rule of a seek between reading and writing, pushes back only what it
read, and asks for items only when they are there. Each is a constant or a
guard that is named in its module; what the code does to other programs is in
section 5.

## 4. Proofs

For every value of the constants that satisfies the ASSUMEs of the module:

| Module | Theorem | Says |
|---|---|---|
| `O1HeapProofs` | `TypeCorrect`, `AlwaysTiled`, `AlwaysListed`, `AlwaysCoalesced`, `AlwaysDiagnosed`, `RefusedOnlyWhenFull`, `Implements` | `Spec => []TypeOK`, `[]Tiling`, `[]FreeLists`, `[]Coalesced`, `[]DiagnosticsHold`, `OutOfMemoryOnlyWhenFull`, `RefinesAllocator` |
| `MallocProofs` | `AlwaysOwned`, `AlwaysCopied`, `ImplementsClient` | with `AmountsHold`: `MallocSpec => []ClientOwnsUsed`, `ReallocCopies`, `RefinesClient` |
| `LibraryProofs` (`Accumulator`) | `TypeCorrect`, `AlwaysApart`, `AlwaysTop`, `AlwaysBlocksHeld` | `AccumulatorSpec => []TypeOK`, `[]BlocksApart`, `[]TopOfHeap`, `[]BlocksHeld` |
| `StdioProofs` | `AlwaysOwned`, `Implements` | `Spec => []HostOwned`, `RefinesStreams` |
| `StdioProofs` | `AlwaysChained`, `AlwaysClosed` | with `RefusedReopen \subseteq Std`: `[]ChainHoldsOpen`, `[]ExitClosesAll` |
| `StreamDataProofs` | `TypeCorrect`, `AlwaysPlaced`, `Implements` | with `Orderly`: `[]TypeOK`, `[]PlaceKept`, and `RefinesTape` |
| `MemStreamProofs` | `TypeCorrect`, `AlwaysKept`, `AlwaysLive`, `AlwaysStores` | with `Careful`: `[]TypeOK`, `[]ContentKept`, `[]ViewLive`, `[]WriteStores` |
| `CommandLineProofs` | `TypeCorrect`, `AlwaysBehind`, `AlwaysDecoded`, `AlwaysKept` | `Spec => []TypeOK`, `[]WritesBehind`, `[]WordsDecoded`, `[]RestKept` |
| `LifecycleProofs` | `TypeCorrect`, `AlwaysReverse`, `AlwaysEarly`, `AlwaysClosed`, `AlwaysHandled` | `Spec => []TypeOK`, `[]RunInReverse`, `[]EarlyHandlersRun`, `[]FilesClosed`, `[]SignalsHandled` |
| `LibraryProofs` (`Console`, `SystemVariables`) | `AlwaysRunning`, `AlwaysHeld` | `ConsoleSpec => []ClockCountsRunning`, `EnvironSpec => []ValueHeld` |
| `LibraryProofs` (`Random`) | `AlwaysInSequence` | `RandomSpec => SequenceKept` |
| `LibraryProofs` (`SortCalls`) | `AlwaysSorted` | `SortSpec => []SortedRight` |
| `LibraryProofs` (`Tokens`) | `AlwaysCut` | `TokensSpec => []TokensRight` |
| `LibraryProofs` (`MemoryCalls`) | `AlwaysAnswered` | `MemorySpec => []MemoryRight` |

**The heap.** None of the four invariants is inductive alone: a fragment can be cut only if
sizes are whole multiples of the smallest, merging is right only if the free
lists hold both neighbours, and a list can be left only if its links agree. The
inductive invariant is `HeapInv` = `Raw` (shapes), `Chain` (tiling, links and
whole sizes), `Listed` (lists and mask), `NoFreeNeighbours`, `Diagnosed`. The
proof follows the code: a lemma for each of `interlink`, `PushFront`, `unbin`,
`rebin`, `Put` and `Drop` says which parts it keeps; in the middle of a call the
lists hold a set `S` that is not the set of free fragments, so `Listed(h, S)`
has it as a parameter. `Split`, `Join` and the two calls are built of these
lemmas. Sizes are powers of two: the proof rests on `Pow2Laws`, the recurrence of
`2^n` up to the word size, which the provers do not know and TLC evaluates, and
on `SizesAssumption`: the word is wider than the smallest fragment needs, and the
arena holds at least one.

That a request is refused only when nothing fits needs one thing more: a size
class with a free fragment has a head. Links that agree do not give that, for a
ring of fragments would have none. `Ordered` excludes the ring: a rank falls along
`prev_free`, so the fragment of a class with the smallest rank is its head
(`BinTaken`). The sizes asked for are powers of two, so the classes searched are
all that can hold a fragment large enough (`NothingFits`), and whatever is found
there is large enough (`ChosenFits`). `Implements` follows from what the calls do
to the used fragments (`AllocateFact`, `FreePreserves`), from `Disjoint`, and from
every fragment beginning at a multiple of the smallest size (`WholeOffsets`).
`Held` is what it adds to `HeapInv`: the client's blocks are the bodies of the used
fragments, each with a size for the amount asked for and the header (`HeldGrow`,
`HeldShrink`). So the fragments' being disjoint makes blocks and headers so.

That the accounts add up (`AlwaysDiagnosed`) is about a sum over the used fragments,
which the reference definition takes apart one fragment at a time. Which fragment it
takes is not said, so the sum is followed by the number of fragments: that a function
computes it (`Computes`), and that one fragment more or less changes it by its size
(`TotalStep`, `TotalRemove`, `TotalTake`). `Counted` says that what the heap
counts is that sum. It cannot exceed the capacity, for the fragments do not overlap:
the last of them begins where the others have ended (`TotalFits`). Each call keeps it,
refused ones included (`CarveCounted`, `RefusedCounted`, `FreeCounted`).

**malloc.** `MallocInv` is `HeapInv` and `Owned`: the client's blocks are the used
fragments, each as large as the header and what was asked for. Each call keeps it by
the heap's lemmas alone; `realloc` passes a heap in which the client has both
blocks, so that the new one is apart from the old one whose contents it takes.
All three theorems suppose `AmountsHold`: the padded size holds the request, or the
heap refuses it. The code does not see to that: `calloc` multiplies into an `int`,
and a product that wraps to a small size (`malloc.c:127`) gives a block smaller
than what was asked for. A single `size` that does not wrap is held
(`NoWrapHolds`). The instance that TLC checks satisfies `AmountsHold`:
its largest size wraps to nothing and is refused.

**The accumulator.** `TypeOK`, `BlocksApart` and `TopOfHeap` are inductive
together: the mark is above all blocks, so a new one overlaps none, and the last
block is the topmost, so giving it back uncovers none.

**The life of streams.** Two invariants. `OwnInv` says that the tables agree: what
the host has open and keeps is what the open streams have, each with one owner. It
holds whatever the host refuses. `Tables` is an operator of values and not of the
variables, for it has to hold in the middle of a `freopen` too: `CloseTables` and
`PlaceTables` say what closing and opening a stream do to it, `freopen` is the one
after the other, and the remaining calls are one of them. Beyond `HostOwned`,
`OwnInv` needs that only streams on the host are deleted on close, that names have
one owner, that every open stream is an allocated block, and that the standard streams
exit has passed (`Passed`) are at rest, so that initialising the module again changes
nothing. `Implements` follows from the same lemmas.

`LineInv` says that the chain is a line: some sequence of the open streams, each
once, in which every block's `_chain` is the next and the last one's is null
(`Strung`). It starts at `__file_list` while the program runs and at the stream
to be closed next while exit does. `LinePush` is the opening of a stream,
`LineCut` the unlinking of one anywhere. The model walks the chain with a
recursive function; that there is such a function is proved (`WalkExists`, by the
smallest length with none), and along a line it meets each block and comes to the
end within the bound, for a line of distinct blocks has at most as many as there are
(`LineWalk`). So the search of `fclose` finds the block and the one before it. The
hypothesis `RefusedReopen \subseteq Std` cannot be spared: a refused `freopen` of
another stream leaves its freed block on the chain (section 5, the run
`stdio_reopen`).

**The data of a stream.** `IInv` adds to `TypeOK` and `PlaceKept` that the last
byte read lies in front of the position while nothing is pushed back, for
`ungetc` pushes that byte back, and that a byte is pushed back only behind a
read, for a write does not look. `Implements` shows that every step is a step
of `Tape` or leaves its variables alone.

**Memory streams.** The four properties are inductive together: contents are kept
because position and extent leave room for the terminator, and that room keeps
MEM_FREE from going negative, which is what makes a write complete.

**The command line.** `IInv` says that writing is one character behind reading
while an escape is open, which is what pays for the two characters it writes,
and that the part not read is as typed. It needs that no command line contains
the character that ends it.

What the two walks do is a function of how far the line has been read: `Walk(c)[k]`
is the state, what was written and where words start behind `k` characters. `WInv`
says that both walks are where `Walk` says, that `arg` holds what it says was
written, and that `slots` is one more than the words it finds at the end; so the
second walk cannot find a word for which the first left no room. The rest is about
`Walk` alone and not about steps. `StateLaw` says that the three flags are what the
reference definitions say of the characters (`Quoted`, which counts the marks in
front, is the flag that is turned over at each). `WordStarts` and `BeginningsCounted`
say that words start where they begin, as many as there are; `WordText` that a word
of the reference is what the walk writes from its beginning to its end; and
`WordWritten` that it is also what `StringAt` finds there. A NUL follows it if a
space ended it. If the line ended it there is no NUL, and the string goes on: that is
why `WordsDecoded` says no more of the last word than that the string begins with
it, and it is the violation that `commandline_words` shows.

`RInv` is the invariant of the list function: the words kept so far, followed by what
the reference leaves from the word it is at (`Place`), are what the reference leaves of
all; and the last file of a stream is the last one named from there on or, if there is
none, the one it has (`Given`). Taking words out moves the rest down by what was taken
and changes neither.

The reference definitions are recursive functions, here from the front (`FlattenSeq`)
and there from the end of a list, one or two places at a time (`Left`, `Files`). That
such functions exist, and have the values their bodies say, is proved from the
least-number principle (`ChainExists`, `DownExists`); so these properties hold for
lines of any length. The assumption says that NUL is no character of a line and NULL,
which ends argv, is no string.

**The life of a program.** For any number of slots, handlers, files and nested
activities. `Shape` says what the stack looks like: every activity but the outermost
is a handler's, the end has begun just when the outermost is of it, and while the
library starts every signal is ignored. On that rest three invariants, each inductive
with `Shape`. `FileInv` is `ListInv`, that the list has each open file at most once
and nothing the library has in hand, now or once what is under way goes on, and
`OpenInv`: an open file is on the list, in the hand of the innermost call (being
linked, or left to be closed), or in `caught`. What lies below a handler that broke
in is caught already; and what the handler puts on the list, which the broken `link`
or the closing will not see, is caught as it is opened. `ExitInv`: before the end the
handlers fill the table from the bottom; after that, if `m` of the early ones have
not run, they are the first `m` and still in the first `m` slots, every loop that is
under way, however many there are one inside the other, is still above them, and
those that ran came in descending order. Handlers that are registered meanwhile take
other slots. The loop therefore takes the `m`th next or one that is not early, and
cannot come to its end before `m` is 0. `SignalInv`: a signal under way is blocked,
so `raise` chooses the default handler for it, which never returns but for the signal
that is ignored. `QuietSteps` sorts the steps, so that each invariant is shown for
the few that matter to it and once for all others.

**The clock.** The base of the clock and the frozen time differ from the host's
time by what was spent waiting; a call is waiting just when the clock is frozen,
which rests on the host's time not being 0 when the program starts.

**getenv.** `ValueHeld` becomes inductive with the types, and with what the first
block's size can be when there is none.

**Random numbers.** For any degrees and separations, any seeds and tables of any size.
The assumptions are of the tables in the source: a separation is less than its
degree, no two types have the same degree (so that the property can tell from the
words alone which trinomial is meant), and the rest of the modulus divided by the
multiplier is not more than the quotient (2836 and 127773), which is what Schrage's
way rests on (`Schrage`: it gives the product modulo the prime, with no number larger
than the prime). `RandInv` says that the places of the generator in use are a
separation apart in the words of its type, and it makes no claim about the first words
of the tables but that they are numbers. The words in a ring behind the front place
(`Ring`) are what decides the numbers: a draw shifts them by one (`RingShifts`), the
first word of a saved table gives back the type and the place (`FirstWordFact`,
`SaveLeaves`), and every call but `random` leaves the ring of each table as it was or
begins it again (`Spared`). The first `Rounds10 * degree` draws after a seed are a
recursive function, whose value is a generator by the same argument as for the command
line (`AdvancedKeeps`).

**Sorting and searching.** For arrays of any length and any numbers, with the limits
`Few` and `Many` between the strategies at any values: the assumptions are only that
the limits are natural numbers and that arrays are finite sequences of numbers. The
calls have no state to be invariant about, so the argument is about the loops: for
each, the set of states it may be in after `k` passes (`Sinking` and `Inserting` for
the insertion, `Parting` for the partition, `Searching` for `bsearch`), which a pass
leads from one to the next. `LoopExists` and `LoopLeads` draw the conclusion, by the
least-number principle (`ChainExists`). `Parting` says what lies between the four
places of the partition and that they have come as many steps closer; that the exchange
of the shorter stretch on each side brings the equal elements to the middle is
`SwappedToMiddle`. `Shuffled` says that an array has the same elements and none has left
the part that was worked on: with it `PartsSorted` shows that the part sorted first is
still sorted, and still on its side, when the other has been, in either order, and
`QsortSorts` that the whole is, by the number of elements. Nothing is assumed of the
pivot but that it is one of them (`PivotFact`). `IsOrder`, what a comparison must be,
holds of the program's (`ComparisonFact`). `SortSpec` is the part of `Calls` whose calls
are `Sorts`.

**Words of a string.** For any strings and delimiters of characters other than NUL, any
number of calls, and others to cut at in each. `RoomAssumption` is the program's duty:
its string, what it appends and the terminator, one byte further on because of what
`strcat` does (section 5), end below the place of the delimiters. `AtText` says that a
text lies at an address, and `TextFound` that `EndOf`, `TextAt` and `CharsOf` then give
its end, itself and its characters; all else is about texts, not bytes. `TakenIsCut`
is the step that matters: what `strtok_r` does to the bytes (the delimiters skipped, the
word's end looked for, one byte cleared, the place behind it remembered) is what `Cut`
does to the text that is left, and nothing before the word is changed. The invariant
`TokensInv` adds to the property what is ahead of it: the words that were returned lie
below the place that is remembered, what is left lies from there on, and when no place
is remembered nothing is left (`Kept`); and there is a terminator so low that what is
appended fits (`Roomy`). `CopiedKeeps` is what `strcat` needs: a copy whose source lies
above its destination ends, changes nothing below it, and is what was copied.

**Blocks and texts.** For any memories, blocks and lengths (`ImagesAssumption`: bytes
are bytes, addresses and lengths natural numbers) and any texts and limits
(`TextsAssumption`, the program's duty: the first text and its NUL end below the second,
and no limit goes beyond the memory). The calls have no state: `MemoryAnswered` says of
each answer what it is, and the lemmas under it say that this is right:
`MemoryRight` is `BlocksMoved` and `StringsRight`.

`AfterPasses` is what the loop of `memmove` has done after `k` passes: as much of the
block as `k` bytes is moved, from below or from above, and the rest of memory is as it was.
`PassMoves` is the step, and the place where the direction matters: the byte read next has
not been written yet. For `memcpy` the same is said in terms of what the pieces of
eight and one have taken together (`Taken8`, `PiecesAre`): they lie end to end and make up
the length, whatever it is and wherever the addresses are (`MemcpyMoves`).

For comparisons, `IsSooner` is the order of two texts cut off at a limit, and
`PartingFact` says that the sign of what `Parting` gives is that order, where `Together`
are the characters the two have in common. It holds of every table of characters that
maps only NUL to NUL (`IsTable`), which the three of the code do (`CaseTables`); a text
with the table applied is what the property calls lowered (`ShownAs`). With the length of
the first text as the limit the order is that of the whole texts (`WholeOrder`).
`strstr` asks `strncmp` at every place: `FoundAt` says that it answers 0 just where the
second text lies. The other searches look in memory for what the property looks for in
the text: `Searches` shows that the two sets are the same but for the address where the
text begins. `StrcpyCopies` follows from `CopiedKeeps`. `MemorySpec` is the part of
`Calls` whose calls are `Moves` and `Asks`.

Only model-checked: the liveness properties (`ExitEnds`, twice), for the prover has
no ENABLED; `BlockFilled`, for the provers have no bits and `memset` is about or'ing them;
and the other properties of `Calls` (`PrintedRight`, `CalendarRight`, `NumbersRead`,
`FloatsRounded`, `MathsRight`), which are about functions that are
recursive or defined by the arithmetic of powers. `Calls` uses modules with RECURSIVE
definitions.

## 5. Where code and text disagree, and what else was met

Shown by a run:

* `freopen` that fails on an opened file frees the block and leaves it on the
  chain (`io-file-fopen-lesser.c:33`); exit may then never end. The release notes
  of 0.04 say that exit clears up what was opened.
* The last word of a command line is not terminated where decoding left it
  (`main.c:364`), so a quoted last word arrives with characters behind it. The
  release notes of 0.16 say that arguments in quotes are handled.
* A short `fread` divides by the number of items (`io-file-read.c:67`). The
  release notes of 0.14 say that the item count is right.
* `snprintf` stores beyond its buffer (`io-sprintf.c:64`): `str_writec` does not lower what
  is left, so that a piece of text behind `n` single characters and newlines is stored up
  to `n` bytes too far. The release notes of 0.14 say that it terminates rather than
  overruns, and so do the comments at `io-sprintf.c:20` and `:59`.

Read in the source, modelled as it is, no run claims otherwise:

* `exit` closes the streams and frees none of their blocks: the list is taken
  away first, so `fclose` does not find them (`io-init.c:35`).
* Escape during the closing of the files leaves those not yet reached open; so it does a
  file that the host has opened and that is not on the list yet (`io-file-fopen.c:153-161`),
  when it ends the program; and of a file that its handler opens between the two
  statements of the linking the list loses sight.
* A function registered by an exit handler takes a slot the loop has passed and
  never runs (`atexit.c:36`, against the comment at line 56).
* `signal` stores SIG_DFL, a null pointer, which `raise` ignores
  (`signal.c:98`, against line 82).
* In a memory stream, SEEK_END moves from the position (`io-memstream.c:173`); a
  flush writes its terminator at the position, over data after a seek back and
  outside the buffer after a seek behind it (`:45`, against `:35`); a write behind
  the buffer stores nothing.
* The accumulator's `realloc` copies out of a block it has freed, into one that
  may overlap it after a failed request (`accumulator.c:65`).
* `calloc` multiplies into an `int` and clears `size` bytes
  (`malloc.c:127-130`); the last sizes below SIZE_MAX wrap in `malloc`.
* A byte pushed back is lost when `fread` fails, is not counted when it is short,
  and is not taken into account by SEEK_CUR; `fgetc` at the end of a file returns
  a byte, for nothing looks at the flag of OS_BGet; `fputc` returns what the
  dispatcher's `write_byte` returned; `fputs` appends a newline.
* An escape that begins a word is lost (`main.c:311`), and main is given the
  count of words from before the redirections were taken out (`main.c:367`).
* `fgets` on a host file ends behind its first character (`fs-io.c:167`, an
  assignment for a comparison), where `io-internal.h:59` says "read to \n".
* `fputc` to a file returns 0 when it succeeds (`fs-io.c:93`, through
  `io-file-write.c:90`).
* `getenv` terminates the value behind what the host wrote, which may have filled
  the buffer (`sysvars.c:49`).
* A clock frozen when the host's time is 0 is not known to be frozen; a single
  character that the host refuses is counted as written; `read_multiple` of the
  console returns 0 (its FIXME).
* *Printing.* A negative precision given by `*` is not taken as none; `%#o` with a
  precision has a zero too many; `%+.0d` of 0 prints `+0`. `snprintf`'s
  buffer, besides: a text of single characters keeps one
  character less than fits, a limit of 1 leaves no terminator, a line end first may
  write at the offset equal to the limit, `sprintf(buf, "")` stores nothing at all.
* *Dates.* `gmtime` leaves the first second of a minute, an hour, a day and a year in the
  one before; has 0 for every month, and counts the day of the month from New Year; does
  not take 1900 from the year; and takes off the days found in its table at -1
  (`time-gmtime.c:126-127`): in a leap year 365, in a common year what the build put there.
  `from_gm_time` of what it filled in is 0.
* *Reading.* `strtod` drops the digits after the eighteenth, leading zeros counted
  (against `strtod.c:148`), and takes the `e` of "1e"; `strtof` calls itself for ever
  (`strtod.c:269`); `sscanf` stores an empty word for `%s` at the end of the text, and a
  literal of the format is compared but not passed.
* *Strings.* `strcat` and `strncat` append behind the terminator (`strcat.c:7`
  says "Find the end of the string"), and `strncat` has no regard for its limit;
  `strncpy` does not pad; `strspn` counts what is not in the set (against
  `strspn.c:6`); `strstr` of an empty text returns the end; `strpbrk` with three
  characters or more loses those whose low six bits are 32 or above, and points
  to the terminator when it finds none; `memset` and `memchr` take a character
  outside a byte as it is; `tolower` accepts 256.
* *Random.* `rand` starts its generator again at each call, for the flag that says
  it was started is never set (`rand.c:52`); `setstate` of the table in use goes back
  to the place written when it was last put away (`random.c:392` says it is all
  right).
* *Floating point.* A quotient that is a tie below the smallest normal number
  becomes 0 (against `divtf3.c:170`); conversion to an integer of an exponent one
  below the width wraps (against `fp_fixint_impl.inc:30`); `pow` of 1 or -1 to an
  infinite power is 1 (against `e_pow.c:35`; `pow` is not modelled).

The properties of `Calls` leave out the arguments for which this list says that the
answer is wrong; the operators give the answer that the code gives.

## 6. Not modelled, and what is left

`PROJECT.json` says for each component what is there. Not modelled:

* veneers, where each function is one system call and what it does is outside the
  repository: the OS_Heap heap, file names, the kernel;
* `errno` and its texts, which are tables (`errno` itself is in `Malloc` and `Reading`
  where it is set);
* code that runs before the program or makes it: relocation, build tools, linker
  scripts, the module header; example programs and tests;
* in `Malloc`, the branch of relocatable modules, which passes the call to OS_Module;
  in `Lifecycle`, the size checks, the zero initialisation and the registers saved
  for the parent; in `StreamData`, the dispatchers of the console, appending,
  `fputs` and the calls that change nothing;
* the functions of `maths` that approximate (logarithms, powers, circular functions)
  and the rounding of `strtod`: what could be wrong there is an error bound, which
  is analysis and not a matter of states;
* `localtime`, which is `gmtime`, and the time zone of `%z` and `%Z`.

Left to do: `ModuleMemory`, the OS_Module branch of `malloc` with a heap other
programs use; a program that is restarted with what `atexit` left in its table
(`clib.c:33`), as `Stdio` does for the streams.
Liveness and definitions by recursion over data stay with
TLC.
