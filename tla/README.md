# gigatron-lcc in TLA+

Models, model checks and proofs of the parts of this repository whose
correctness depends on long sequences of operations, on interleavings, or on
what an algorithm remembers: the heap allocator, the streams, the trees and the
sort of the C library, the preemptive threads, the placement of code and data by
the linker, and the stages of the compiler and of the preprocessor that keep a
state: scopes, statements and their labels, initializers, constant folding, common
subexpressions, switches, registers, macros and conditional groups.

Line numbers are those of the files in `src/` (`gigatron/glink.py` is
`src/gigatron/glink.py`, and so on).

## The system

The repository is a C compiler for the Gigatron, a computer without a
microprocessor whose virtual CPU (vCPU, 16 bits) is interpreted by its ROM.
Compiling goes through `glcc` (driver), `cpp` (preprocessor), `rcc` (lcc 4.2
with a Gigatron back end), then `glink`, a linker in Python that also is the
assembler: every object file is a Python module whose functions emit bytes.
The C library and the arithmetic runtime are linked from such modules, and the
program runs on the machine or in `gtsim`.

| component | state it keeps | operations | makes it correct |
|---|---|---|---|
| heap allocator (`libc/malloc.c`, `calloc.c`, `realloc.c`) | headers of blocks on two circular lists, in memory that the linker chains at `__glink_magic_heap` | `malloc_init`, `malloc`, `calloc`, `realloc`, `free` | objects are disjoint and intact, free space is neither lost nor left in pieces, misuse is caught |
| threads (`stuff/threads/threads.s`) | ring of threads, current thread, next one to time out, clock; in each thread what it waits for | `gt_start`, `gt_kill`, `gt_exit`, `gt_yield`, `gt_join`, `gt_wait`, `gt_sleep`, mutexes, conditions; the interrupt | mutual exclusion, one ring, waits end when they should and not before, every ready thread runs |
| linker: placement (`glink.py` 2507-2735, 2770-2797) | list of segments, each filled up to its pc; fragments done | `make_segments`, `find_segment`, `assemble_fragments`, `hop`, magic lists | no byte is owned twice, constraints on addresses are honored, code stays in its page, what is loaded and what is cleared is right |
| linker: modules and labels (`glink.py` 2419-2504, 2737-2744) | required symbols, exporters, label values of the last pass | `compute_closure`, `run_passes` | the closure is complete; the passes settle |
| linker: image (`glink.py` 2861-2990) | - | `collapse_segments`, `save_gt1` | each byte goes to its address |
| maps (`gigatron/map*/map.py`) | tables of segments | - | segments are apart |
| start and exit (`_start.s`, `atexit.c`, `_init1.c`) | the init and fini chains, four slots | `_start`, `exit`, `_exit`, `atexit` | each function is called once, in the right order |
| signals (`signal.c`, `raise.s`, `_sigcall.s`) | vector of handlers | `signal`, `raise` | a handler is called once; unhandled signals end the program |
| streams (`_iob.c`, `fopen.c`, `fread.c`, `ungetc.c` ...) | flags, a pushed back byte and a descriptor per FILE; positions on the host | open, close, read, write, push back, seek, flush, `exit` | what is read is what is ahead, once and in order; descriptors are neither lost nor shared |
| clock, sound (`clock.s`, `sound.s`) | tick count, table position | interrupt handler, `clock`, players | the clock is monotonic; no interrupt is lost |
| console (`cons_*.c`, `cons_*.s`) | cursor, window, line being edited | output, scrolling, line editor | - |
| AVL trees (`_avladd.c`, `_avldel.c`, `_avlbal.s`), sorting (`qsort.c`, `bsearch.c`) | the caller's nodes or array | add, delete, find; sort, search | a dictionary, balanced enough for its stack; sorted, nothing lost |
| conversions, formats, arithmetic runtime | none | pure functions | equal to a reference |
| preprocessor (`cpp/`) | table of macros, hidesets; nested `#if`s and files | expansion; `#if` ... `#endif`; evaluation | expansion ends, arguments stay whole, the right groups are kept |
| compiler, front end (`src/decl.c`, `sym.c`, `init.c`, `expr.c`, `simp.c`, `stmt.c`, `dag.c`) | tables of symbols; trees; table of common subexpressions; list of cases; code list and labels | declarations, uses; layout and initializers; folding; listing; statements, dispatch | a name denotes what its scope and linkage say; code and data are what the source means |
| compiler, back end (`src/gen.c`, `gigatron.md`) | free registers, registers of each symbol | allocation, spills, reloads | each instruction finds its operands |
| drivers, lexer, instruction selection, simulator | - | - | - |

How they interact:

* The linker hands memory to the library through linked lists whose first
  record lies in the segments themselves: `__glink_magic_heap` to
  `malloc_init`, `__glink_magic_bss` to `_init_bss`, `__glink_magic_init` and
  `__glink_magic_fini` to `_start`. The theorem
  `HeapServesMalloc` of `SegmentsProofs` says that the heap list, and the place of `head`, are
  what `Malloc` assumes in `MallocAssumption`.
* The thread library takes the vertical blank interrupt over from `clock.s`. An
  interrupt may fall between any two vCPU instructions; `VSAVE` and `VRESTORE`
  of the ROM mask it while the scheduler runs.
* The compiler is a pipeline in which each stage reads what the one before it
  left in memory: `expr.c` and `enode.c` build the trees that `simp.c` folds and
  `dag.c` lists; `dag.c` names with temporaries the values that `gen.c` keeps in
  registers. `Dags` uses the trees of `Trees`, and `Registers` starts from
  temporaries as `Dags` leaves them.
* `fopen` and the others call the host through `sys_io_*` (`gtsim.c`); a stream
  only knows its descriptor, the host the position in the file.
* `malloc`, the streams and the console know nothing of threads: programs must
  serialize their uses.

Hard to test: where an interrupt falls in a library call; what remains in the
scheduler of a wait that is over; the shape of the heap after many calls; the
order in which segments have been cut when a fragment is placed; sizes close to
65536; what happens when memory is nearly full. `PROJECT.json` lists these
hazards at the lines where they bite.

## Modules

| module | models | proofs, instances |
|---|---|---|
| `HeapSpec` | what the allocator promises: blocks in areas | `HeapSpecProofs`; instantiated by `Malloc` |
| `Malloc` | the allocator, header by header | `HeapLists`, `HeapCalls`, `MallocProofs`; `MCMalloc` |
| `Threads` | the scheduler, the library and the interrupt | `ThreadsProofs`, `MCThreads` |
| `Segments` | one pass of the linker and the lists it makes | `SegmentsProofs`, `MCSegments` |
| `Registers` | allocation of registers in the back end | `MCRegisters` |
| `Streams` | stdio streams over the files of the host | `StreamsProofs`, `MCStreams` |
| `Rings` | no code: lemmas about circular lists and induction | used by the proofs |
| `Ints` | integer types of the target in the compiler | - |
| `Statements` | statements, the code list and its labels | `MCAlgorithms` |
| `Switch`, `Folding` | the dispatch of a `switch`; `simplify` and `root` | `MCAlgorithms` |
| `Fields`, `Initializers` | layout of structures and access to bit-fields; initializers | `MCAlgorithms` |
| `Trees`, `Dags` | trees of expressions; their intermediate code | `MCAlgorithms` |
| `Scopes` | declarations and uses of an identifier | `MCAlgorithms` |
| `Macros`, `Conditionals`, `Evaluator` | the preprocessor | `MCAlgorithms` |
| `Sorting`, `Avl` | `qsort`, `bsearch`; AVL trees | `MCAlgorithms` |

Operators whose names start with `Bad` (and `EagerIrq`, `NegativeSlice`,
`HighFits`) are the mistakes used to test the properties. Each stands before the
operator it is a mistake about, and no specification uses it.

### Malloc and HeapSpec

`mem` maps the address of each header to its five fields; a header that
disappears in a merge leaves the domain, so that any use of a dead one is an
error in TLC. The functions of `malloc.c` are operators from memory to memory
and each call of the library is one action; there is one thread. The fields of a
block that the caller owns are replaced by `UserData` (`fprev`, which the
object overlaps) and `NULL` (`fnext`, stale), which list operations may not
follow. Sizes are 16-bit: `RoundUp` wraps, `Int16` gives the signed comparisons
of `find_block`. `free` and `realloc` are also called with blocks that the
caller does not own any more, as long as a header is still there; a pointer
into a block that was merged, where the bytes of the old header or of an object
remain, has no meaning in the model. `realloc(NULL, n)` is
`malloc(n)`, `free(NULL)` does nothing.

`HeapSpec` has no lists: a request gets any vacant run of bytes, up to `Slack`
bytes longer than needed, and may be refused only if there is none. That last
part makes the refinement (`ImplementsHeapSpec`) a strong check: an allocator
that loses a block or forgets to merge refuses too early.

Bounds: areas of 24 to 48 bytes, requests of 0, 9 and 14 bytes (blocks of 12,
20 and 24). An area then holds up to four blocks, so that a free block may have
free or used neighbors on both sides, remainders are below, at and above the
size of a header, and a request may fit exactly, fit with a tail, or not at all.
Nothing in the code depends on more than two neighbors of a block. The two
areas do not touch: `malloc_init` does not merge those that do, so that
`Tiled`, which says that no two free blocks touch, and `ImplementsHeapSpec` would
not hold of them. Requests near 65536 wrap: `malloc(65528)` is served as 0 bytes
(malloc.c:146), and the product in `calloc` wraps the same way (calloc.c:8);
`PayloadFits` is checked for those below 32768. These two conditions are the operators
`AreasApart` and `RequestsFit`; with `HeadClear` (below, *The heap*) they are the hypotheses of the theorems; `TheoremsApply` in `MCMalloc`
has TLC evaluate them on the instance of the run. Deadlock is not checked: the program stops when `free` finds a corrupted header.

### Threads

`sys` is what the scheduler keeps. A passage through the scheduler is one step,
since interrupts are masked; the library functions are cut at each instruction
that another thread, or the interrupt, could tell apart. `Tick` is one video
frame: it raises the interrupt when the slice is over, wherever the current
thread is. Deadlines are stored relative to `_gt_clk`, so that the clock needs
no bound; `MaxLate` says when deadlines missed long ago are no more told apart.
`wclk` points into the stack of the thread, so that after a call the deadline
may change (`StackReused`), and a null `wclk` that the scheduler still uses
reads the bytes at address 0: both give either a past or a future value. A
scheduler that follows the next field of a dead thread is `wild` and stops
there.

`Calls` says which functions each thread may call; each run gives the calls
that make one part of the library interact. Callers unlock only what they
locked and do not lock twice. `owned` and `ended` are history variables.

`ClockExact`, `NeverEarly` and `WatchesEarliest` do not hold of every program.
Two equal deadlines make a slice of zero frames, that is a whole turn of
frameCount (threads.s:68), and the clock falls behind. A `gt_cond_timedwait` that
a signal ends leaves `_gt_nt` on a thread that no more waits (threads.s:192):
waits and joins may then end early, and an exit of that thread makes the scheduler
follow a dead one. The passing runs say for which programs they hold: one
thread that calls `gt_wait`, or two for `WatchesEarliest`. This one is about every
started thread that has stored `wchan` in `gt_wait`, wherever it was interrupted,
but for `NotYetSeen`: the thread has not yet come through the scheduler by its own
yield (threads.s:346), which is what compares it with `_gt_nt`. An interrupt
there suspends it with a deadline that nobody watches: `threads_lostwait`.

Bounds: two or three threads, one mutex, one condition, `MaxSlice` 2 instead of
4, frameCount modulo `Wrap` 4 instead of 256, delays of 1 and 3 frames: below
and above a slice, so that deadlines fall in the current slice, at its end, or
after it. Three threads give a removed thread a predecessor and a successor
that differ, and a mutex two waiters.

Fairness: frames keep coming (`WF_vars(Tick)`), and each library call goes on
when its thread keeps getting slices (`SF_vars(Library(t))`): a frame is
thousands of instructions, and the interrupt only delays them. Nothing is
assumed of what programs do between calls, so that a thread may keep a mutex
for ever. `EveryoneRuns` says that a ready thread gets a slice or stops being
ready; it is checked without deadlines, for a thread with short enough
deadlines may starve the others.

### Segments

The list of segments is a function from their starting addresses; the rank
keeps the order of the list. `Answer`, `Padded`, `Carved`, `Paged` and `Marked`
are the parts of `find_segment` in their order; `Misfit` are its errors and
`Refuted` the assertions at its end. A
function is placed whole, or instruction by instruction with a hop to another
segment when `tryhop` finds too little room: instructions are their sizes. The
16 calls to `assemble_fragments` are the stages. `buf` is the length of the
buffer that goes to the image, from which `Piece` finds where each byte will be
loaded, and each piece knows which bytes of its fragment it has. Label values are those of the last pass, and fragment sizes those
measured before; the iteration of passes is not modelled. `MagicBss` and
`MagicHeap` happen in either order, which depends on the order of the exporters
in a dictionary.

Bounds: pages of 32 bytes instead of 256, jumps of 4 bytes instead of 3 (or 10),
instructions of 4 bytes and branches of 2 or 4; thresholds scaled alike. Each
element of `Links` is a map, pragma segments and the fragments of a program.
In `Wide` two segments cover several pages, in decreasing order of addresses,
with and without pragma segments that cut them; the programs there have a function
that may need several hops, a small one, data and bss of sizes above and below
the threshold for large fragments. Links that succeed with several heap
segments, that fail, and functions in three pieces are all reached. `Narrow`
has one segment per page, one of which only takes placed fragments, and the
programs are all triples of eleven fragments with the various constraints.

`PlacesAligned`, a hypothesis of two theorems which TLC evaluates on these programs, leaves out an odd `org` or offset of aligned
data: the segment is chosen from the address and the size, and `align` then adds a byte (2549, 2647).
`BytesOwnedOnce` fails for such programs until the final verification stops the link.

`HonorsPlacement` says what the pieces of a fragment owe to its attributes: `org` at that very
address, `offset` at it, `place` between its two addresses, `nohop` in one page, and the
alignment. Three things that the headers promise do not hold, and the properties do not claim
them. Each was found in the model and seen in programs linked by `glink`:

* `place` of a function (pragma.h:100): only the size asked of `find_segment` is compared with `AMAX` (2558). For
  a function that may hop it is that of its beginning (2618) or of the room for the next
  instructions (409), and those that follow fill the segment. `HonorsPlacement` says of such a
  function (`MayHop`) that the jump that leaves a piece would fit before `AMAX`.
* `nohop` (pragma.h:90, glink.py:774): in the first go a nohop function that no segment can hold whole is started
  as one that hops (2613), and the error comes only in the second. `HonorsPlacement` says of
  such a function that each piece is in one page.
* `org` (pragma.h:93): when an address is one to three bytes after the start of a segment, the pc moves but
  the zeroes have no buffer to go to (2564). The first bytes of the segment are then loaded at its
  start, before their label. A segment that starts at an odd address does the same to the words that
  come first. `MemoryReady` asks for it, and the programs of `segments_placed` skip no byte there.

And a function whose address is in a later page than the pc of its segment (the third page, say)
goes to the end of the page of the pc, since the test at 2540 compares with that page (2535) and not with
the page of the address; this is before its address, and the assertion at 2584 fails. `Refuted` ends
the link there.

### Registers

One action of the model lists a statement, as instruction selection leaves it
(`Assign`, `Consume`, `Call`: the nodes that fetch the operands, then the one that
uses them), until the function is long enough; then `ralloc` takes the list one
node at a time as `gen` does. A register is the set of its words, so that
the two words of a long overlap two registers of an int. `lastuse` keeps the node
of the last use of each register, or `Stale` when it comes from an earlier
function: `spillee` reads it. After the last node, a machine runs the list
(`Run`): each value is the node that computed it, and `OperandsArrive` says that
every instruction finds the values that the front end meant, in registers or in
the local where they were spilled.

`nt` says what the node that consumes an operand needs of it: a register, or anything that
an instruction can read, a local included (`iarg`, gigatron.md:469-484). In the second case
`genreload` makes no node: the instruction reads the local, and has an operand less. The
loops of `spill` (gen.c:833) and of `spillr` (745) go through the operands by their index, so
that the one after it is passed over (`EachKid`); the history variable `passed` says
that this has happened.

Two things that the code or its comments say do not hold, each found in the model and seen in
`rcc` built from `src/`; the properties say under which condition they do:

* The assertion at gen.c:711, "Must be able to spill something": `spillee` looks only among the registers that
  have held a value (696). In a compiler that starts, ints may use all the words before any
  long does: the first long finds no register to spill, and `rcc` aborts.
  `FailsOnlyUnused` says that there is no other case: a class whose registers have all been
  used, in this function or an earlier one, always has one to spill, which is then free.
* "Spills registers to memory as needed for correctness" (gigatron.md:292): when two operands of a
  node are spilled together and the first is read in place, the second is passed over. It keeps a
  register that a call, or another value, overwrites: in `(a-b)^(1^g(a,b))`, where `a` and `b` are
  computed once, the subtraction reads `b` there. `OperandsArrive`
  and `FreeIffIdle` say what holds as long as no operand was passed over.

Bounds: three words, two of which pass arguments, three temporaries of which one is
a long, up to four statements with operand lists that use a temporary twice, two
temporaries in both orders, or a value in memory, one of the operands in a register or none: enough for a
spill of each width, for a call across which values live, for arguments that wait in registers while
others are computed, and for two operands of one node that are spilled together. `Earlier` has two
compilers: one that starts, and one whose earlier functions used every register.

### Streams

A flag byte is the set of its bits. `reads` is what `fread` and `fgetc` share:
the loop over `_sysread`, the pushed back character first, with the flags that
end of file and errors leave. A host read may return less than asked for,
nothing, or an error; an open may fail; the terminal is never closed. `op` remembers
what the last call gave to the program, for `ReadsInOrder`, which compares it
with what was ahead on the stream. `DescriptorsOwned` follows the descriptors
through `fopen`, `freopen`, `fclose` and `exit`.

Bounds: `stdin` on the terminal and one slot, one file besides the terminal, two
characters, files of at most two bytes and reads of at most two: a read may come
in two pieces, end in the middle, or follow a pushed back character. A second
slot would only repeat the first: slots share nothing but the descriptors of the host, and
the terminal stays open beside the slot.

Seen in the code and outside of what the properties say: the loop of writes in
gtsim.c:584 restarts from the beginning after a partial write (host writes are
complete here); mode "a" truncates, "w+" and "a+" neither create nor truncate;
`ungetc` refuses at end of file, although its line 9 clears the flag; `ftell` does
not count the pushed back character; `fread` divides by a size of zero.

### The algorithms

`MCAlgorithms` chooses one algorithm and builds an input for it, a token, a label, a
call or an operator at a time, so that every prefix is an input too; an invariant for
each compares what the code computes with a definition of its own. `Known` says
whether the inputs known to be mishandled are tried.

* `Switch`: `swcode` with its buckets, against the label of each value.
  `Width` is 4 instead of 16 and eleven values are tried as labels in any number, so
  that dense and sparse buckets, and values on both sides of the sign, appear.
* `Statements`: functions, a statement at a time, up to the first mistake. `Means`
  follows the source and `Runs` the code list: they must meet the same effects and tests, in
  the same order, for every answer that the tests may give. The code list is that of `stmt.c`, with
  labels that `equatelab` makes names of others, jumps that are dropped, labels that are left out
  when nothing uses them, and the code of a switch spliced before its body. A function
  has up to `MaxFlow` (7) statements, of one of six alphabets that make one kind of jump
  interact with another (goto; loops with break and continue; return; for with
  constant tests; switch inside loops and with two cases and a default). Both stop at the first
  test after three answers, after `Enough` (6) effects and tests, or after `Quiet` (25) steps that meet
  nothing, more than a function of this size has. The body of a switch is a block.
* `Fields`: structures and unions of up to four members (`MaxMembers`): char, int, long,
  float and bit-fields of 3, 13 and 16 bits, with and without a name, and of width 0. Members
  are apart, aligned, packed; every bit-field of every layout is assigned, from a constant or
  not, as int and as unsigned, over words of four patterns, and is read back.
* `Initializers`: rows of up to eleven tokens (`MaxInit`) for nine types: arrays of arrays, of unknown
  size, of chars with strings, structures in arrays and in structures, unions, bit-fields that
  fill one unit and the next. `Meant` first reads the whole initializer as a tree of
  lists, then says what is given to which bits. Each token has its
  own value, so that a byte tells where it came from.
* `Folding`: `simplify` and `root`, against the evaluation of the tree before folding,
  for values of the variable and of the call in {min, -1, 2, max}, calls noted. Leaves are
  constants at the limits, a variable and a call, with up to three operators. Not
  compared: calls under `0*x`, which the code drops on purpose (simp.c:293, 518), and
  what has no defined value, as `1<<(W-1)` and `0-min`, which the comments at 149 and
  179 mention and the fold gives out of range.
* `Trees` and `Dags`: expressions with side effects, conditions, comma and calls in
  `if (e)`. `Means` says what the source does to a memory; `Runs` runs the listed
  nodes on it, where a node that is not a temporary is computed each time it is
  read. The jump, the calls with their arguments and the variables must agree, whatever
  they hold. There are two globals, one of which a pointer and the function called may
  reach, and a register variable. Expressions whose meaning depends on the order of
  evaluation are left out (`Determinate`).
* `Scopes`: declarations, definitions, blocks, parameters and uses of one identifier;
  the symbol that each use finds is compared with the entity that C 6.1.2 says it
  denotes, and the storage class and segment with the linkage. Up to five
  declarations or uses, and a block inside that of a function. A typedef of the outermost block with the
  name of a parameter is not reported (decl.c:307) and not tried;
  `static int f(); int f(){}` gives a warning only.
* `Macros`: thirteen lines over four macros, ninety-six tables; the expansion must end
  within `Fuel` steps, no macro is replaced in its own replacement, and an argument expands
  as it does alone. `from` remembers, for the properties, the macros that a token comes
  from. `HSSIZ` is 5 instead of 32 so that full hidesets occur: a token that comes from more macros
  than a hideset has names is `crowded`, and `ExpansionsEnd` says nothing of a line that has one.
  It could not: a full hideset takes no further name (hideset.c:52), and with the 32 of the code a
  chain of 31 macros, the last of which names itself, makes `cpp` expand for ever. Calls are cut into arguments for every
  row of up to seven tokens. Seen: `ID(CAT(foo,bar))` gives `BADbar` (expand, 217),
  `ISVARMAC` stays after `#undef`, `k()` is refused for one parameter.
* `Conditionals`: `#if` lines in files three deep, against a stack of groups. `#elif`
  lacks the test on the `#if`s of the file that `#else` and `#endif` have (cpp.c:169);
  it is not tried where this shows.
* `Evaluator`: every row of up to seven tokens of five alphabets, against a grammar of
  its own. The loop at eval.c:229 never applies an operator of the same priority, so
  that `10-5-2` is 7 and `a ? b ? c : d : e` is "Bad ?:" (365): such rows are left out
  (`Chained`). Also `1 == 2 == 2` is true. Shifts beyond the width are 0 here; a parenthesis that
  is not closed only warns.
* `Sorting`: every array of up to seven elements over three keys, nine over two, and
  long patterned ones for the medians of three and nine; the result is sorted, a
  permutation, and `bsearch` finds exactly the keys that are there.
* `Avl`: eight nodes, two with the same key, added and deleted in any order; the tree
  holds what it should, each call returns what a dictionary would, the tree is
  balanced and each descent fits the stack (`StackSize` 5 instead of 16).

Seen in the front end, and left out of the run by `Known`, by `f.odd` or by the shape of the
inputs (each was also seen in the compiler built from `src/`):

* decl.c:345: a parameter that has the name of its function hides the declaration of the
  function from its definition: a definition after a static declaration is rejected, and a second
  definition accepted.
* init.c:114: the comma that ends an inner list is refused for a scalar, a string in braces and a
  union, as in `int a[2][2] = {{{1,},2}}`; that of an outer list is accepted.
* init.c:144: a comma before a bit-field that is not given is refused, `struct { int a:3, b:3; }
  s = {1,}`; braces around a bit-field, or around one char of an array, are refused too.
* enode.c:326: the value of `p->a = 9`, where `a` is an int of 3 bits, is 9 and not 1, which is
  what is stored: the constant is extended when its sign bit is set and not cut otherwise.

## Runs

| run | shows | about |
|---|---|---|
| `malloc_apart` | blocks tile the heap, lists agree, free blocks are merged, misuse is caught, objects are untouched, `HeapSpec` is implemented | 11000 states |
| `threads_lock` | every ready thread runs, with locks and trylocks | 8000 states, liveness |
| `threads_wait` | two threads with deadlines: the scheduler watches the earliest one, and never follows a dead thread | 40000 states |
| `threads_sleeper` | one of three threads waits for the clock: the clock is exact, no wait is early, a join ends only after its thread, also with restarts and kills | 870000 states |
| `threads_timed` | mutual exclusion, one ring: conditions with and without a deadline, kills and restarts | 710000 states |
| `threads_lostwait` | violated, see below | |
| `segments_placed` | bytes are owned once, code stays in its page and keeps room for jumps, all is placed, memory is ready when main starts, the heap list is what malloc assumes, placement constraints hold | 330000 states |
| `registers_spill` | each instruction finds its operands, a register is free exactly when nothing will read it, something can be spilled once all registers of the class were used | 210000 states |
| `streams_host` | reads give what is ahead, descriptors are owned by one stream each | 215000 states |
| `algorithms_bounded` | one invariant for each algorithm of the list above | 655000 inputs |
| `algorithms_nested`, `algorithms_flow` | violated, see below | |

The violated ones are disagreements between the code and what its comments, its
assertions, its headers or the ANSI C draft in `stuff/doc` say; `PROJECT.json` quotes both
sides. Those about the compiler, the preprocessor and the linker were also seen in the programs
built from `src/`.

* `threads_lostwait`: an interrupt in `gt_wait` before it registers the deadline
  suspends the thread for ever.
* `algorithms_nested`: the value of `&&` or `||` used inside the operand of another one:
  the loads listed on a path that may not be taken are used after it (dag.c:116), as in
  `if (a && (y = *p + ((b && *p) ? 1 : 0)))`.
* `algorithms_flow`: `switch (x) case 1: y = z;`, whose body is not a block: what the body
  listed and `walk` has not yet visited stays in the forest when the code of the switch
  is spliced before it (stmt.c:353), and comes out on the other side of the jump.

Deadlock is not checked where the system stops: after a
halt of `free`, at the end of a function or of a program, and when an input is complete.

## Proofs

TLC checks a few blocks, slots or threads; the theorems hold for any number of them.

### The heap

`MallocProofs` proves every property that the run `malloc_apart` checks, for any chain of
areas that satisfies `MallocAssumption` and any sequence of calls. All suppose `HeadClear` and
`RequestsFit`, two of them `AreasApart`:

| theorem | for any areas and calls | besides |
|---|---|---|
| `HeapTypeOK` | each link of a header leads to a header or is `NULL` | |
| `HeapListsAgree` | both lists are circular and doubly linked, reach every block, every free block, once, in the same order | |
| `HeapPayloadFits` | the bytes asked for are in the block | |
| `HeapUsedIffOwned` | a block is marked used exactly while a caller owns it; `free` stops the program only for a pointer its caller does not own | |
| `HeapObjectsUntouched` | no call writes in an object that stays with its caller | |
| `HeapTiled` | no byte is lost or in two blocks; no two free blocks touch | `AreasApart` |
| `HeapImplements` | `Spec => ImplementsHeapSpec`, step by step | `AreasApart` |

`RequestsFit` keeps the sizes below 32768: above, `RoundUp` (malloc.c:146) and the product of
`calloc` (calloc.c:8) wrap, and the object is longer than its block. `AreasApart` says that no
area starts where another one ends: `malloc_init` does not merge such areas, so that two
free blocks may touch and a request that would fit in both is refused. `HeadClear` says that the
variable `head` does not start where an area ends. Its size is 0, which is even: to
`try_merge_with_next` (malloc.c:72) it is a free block, and were it next to the last block of an area, the
two would be merged, after which the lists go round without `head`.

The linker guarantees `MallocAssumption` (`HeapServesMalloc`), but neither `AreasApart` nor
`HeadClear`. Areas touch where a segment was cut at the end of a page. As for `head`: with
`--large-data-fragments-first` a large bss may be placed at the beginning of a segment; the first
code or data that follows it there skips to the next page (glink.py:2553), and what is left of the
page goes to malloc. If that first fragment is `head`, it is where an area ends. `Segments` has such
links: on pages of 32 bytes with `Ldff = 30`, a segment from 64 to 152, a bss of 36 bytes and data of
10 bytes give malloc the area from 100 to 128 and place the data at 128. In `Malloc`, with that area and `HeadAt = 128`,
the first `malloc(9)` and `free` leave the block linked to itself. The maps of the repository make
it improbable, since smaller data fit in the holes of earlier segments; the theorems cannot do without it.

None of the properties is inductive. The invariant `Inv` has two forms. While
`malloc_init` follows the chain, `Linking`: the areas seen so far are blocks of one
area each, on both lists. Afterwards `HeapOK`, that is `Well` and `Owned`: the headers are typed;
both lists are rings; the blocks tile the areas; two blocks that touch are not both free; the used
blocks are those below the objects of the callers. A ring is stated with heights, numbers that
decrease along the links down to 0 at `head`. The free list is a ring with the *same*
heights as the block list: this is what makes them agree on the order, and it is what
`find_block` relies on when it inserts the block it splits off, and `free` when it looks for the next
free block along the block list (`next_free`). Heights are quantified, which is why TLC checks the
consequences of `Inv` and not `Inv` itself.

The argument has three layers below the actions. `Rings`: inserting, removing and merging in rings; that a walk
of any length visits each element once. `HeapLists`: what each assignment of the C code does to the
headers, up to `try_merge`, `find_block`, `free_block`. `HeapCalls`: tiling, sizes and marks through a
merge and a split, then the three whole operations, `malloc_init`, take and free.
`MallocProofs` composes them into the actions. What recursive functions compute
(`FirstFit`, `NextFree`, the walks of `ListsAgree`) is found from the least number with or
without a property: `LeastNat`, `GreatestNat` and `NatInd` state induction over sets of
numbers, which the provers can instantiate.

`HeapSpecProofs!HeapSpecSafe` says that in `HeapSpec` allocations are inside an area and
disjoint, for every set of areas, requests, slack and grain. `HeapImplements` carries it over to the
blocks of malloc. The hard step of the refinement is the refusal: a run of free bytes cannot
cross a block that is used, nor two free blocks that touch, so it lies in one free block, which
`FirstFit` would have found.

### The segments

`SegmentsProofs` proves the invariants of the run `segments_placed`, for any maps, pragmas
and programs, and any sizes of pages, jumps and instructions that satisfy `SegmentsAssumption`: the
segments of the map are apart, those of the pragmas too, and an instruction with its jump fits in a page.

| theorem | for any link | hypotheses |
|---|---|---|
| `BytesOwned` | `BytesOwnedOnce`: a byte belongs to one segment, one piece, or malloc | `PlacesAligned` |
| `LinkedBytesOwned` | segments are apart at every step; `BytesOwnedOnce` holds of a program that links | |
| `CodeStaysInPage` | `CodeInPage`: no piece of code crosses a page; there is room for the jump of a hop | |
| `EveryBytePlaced` | `AllPlaced`: each byte of a linked program is in one piece | |
| `HeapAlwaysUsable` | `HeapUsable`: areas are aligned, long enough and apart, in heap segments | |
| `PlacementHonored` | `HonorsPlacement`: org addresses, places, offsets, pages, alignments; of functions that may hop, as said above | `PlacesAligned` |
| `PiecesReady` | each piece of a linked program that is loaded at its address is ready when `main` starts | |
| `MemoryIsReady` | `MemoryReady`: all code and data are loaded, each byte at its address, bss is loaded or cleared, nothing loaded is cleared | `NothingSkipped` |
| `NothingOffTheMap` | the pieces of a linked program and the areas of malloc are inside the spans of its map and pragmas | |
| `HeapServesMalloc` | the heap list satisfies what `MallocAssumption` says of areas; no fragment, `head` included, has bytes in them | `MapsForMalloc` |

`find_segment` is described twice. `Suits` is what it promises of the address that it chose
(`AnswerSuits`, from the tests in their order); `Splits` is what its cuts do to the
segments (`OpenedOK`: a pad, then the cut before the fragment, then that at the end of the page): the
segments remain apart and non-empty, a used part is never given away, and the segment returned starts
to fill at the address. The actions need nothing more of it.

The invariant `IInv` says that each piece is inside the used part of a segment (`Held`), that the used
parts do not exceed their segments (`Fitted`), that pieces respect the constraints of their
fragments (`PiecesHonored`), that the current segment of a function has room for a jump, its page included
(`CurRoomy`), and after the pass that what malloc gets is at the end of heap segments, behind
the used part. Pieces of segments that are apart are then apart (`OwnedOnce`). `Fitted` is where
`PlacesAligned` is used; without it, it is an equivalence that the invariant keeps: some segment
is overfull, or all pieces are apart; and `Verify` links only if none is.

`CoverInv`, for `EveryBytePlaced`, counts bytes: the pieces of a fragment are the first `Emitted` bytes of it,
each once, whether it is placed, in the course of its hops, or not yet begun. That none
is forgotten is because of the last stage, which selects everything and never goes on after a fragment
that has no place.

`MemInv`, for `PiecesReady` and `MemoryIsReady`, follows each piece from the moment when it is emitted (`Backed`): its bytes are in the buffer of a
segment of its kind (`Stored`) or, once `MagicBss` has taken the buffer of a segment of bss, in the list
for the runtime (`Listed`). The relation `Grown` is what makes this stay: where bytes were emitted,
a cut, a pad, a mark or a hop keeps the kind of the segment and never shrinks its used part or its
buffer. `MagicBss` does shrink buffers, of segments of bss only; the segments are apart, so what it lists
cannot clear what is loaded. That a piece is loaded where it was assembled does not follow from the
constraints of the programs: with even addresses everywhere, a hop that emits nothing leaves
a segment whose pc moved and whose buffer does not exist. `NothingSkipped` is a condition on the steps: while a
segment has no buffer, its pc moves by the bytes that go there and no others. From it the invariant `LoadInv` of
`MemoryIsReady` follows, that the used part of a segment has as many bytes as its buffer (`AllLevel`), at every
step, through cuts, pads and hops, while fragments are placed; hence the address of each piece.

`NothingOffTheMap` and `HeapServesMalloc` rest on `OnMap`: every segment is in one span of the map or of a pragma.
`Narrows` says that a step does nothing but cut the segments and fill them; `MadeOK` says that
those made from the map minus the pragmas start so. `MapsForMalloc` asks
that spans start after address 0, end in the memory and be shorter than 32768 bytes, as do those of all the
maps of the repository: a longer one would make an area whose size is a negative `int`. What a pragma adds is the programmer's.
TLC evaluates it with `PlacesAligned` (`TheoremsApply` in `MCSegments`).

### The streams

`StreamsProofs` proves what the run `streams_host` checks, for any finite set of slots, any names,
modes and files and any bounds: `StreamsTyped` (`TypeOK`), `DescriptorsKept`
(`DescriptorsOwned`) and `ReadsKeepOrder` (`ReadsInOrder`). The invariant `IInv` adds to the types
that each stream has a descriptor above 2 of its own while it is open, and that no other such
descriptor is open on the host. Since there are no more of them than slots, a free
slot means a free descriptor (`LowestFree`, a pigeonhole argument), and each of open, reopen and close
keeps the correspondence. `ReadsInOrder` is an action property: `LoopOutcomes` says how the loop over
`_sysread` may end, whatever pieces the host gives, and `AheadSplit` that the pieces are what
was ahead. Hypotheses: `StreamsAssumption`, `ModesAssumption`.

### The threads

`ThreadsProofs` proves every invariant that the passing runs of `Threads` check, for any
number of threads, mutexes and conditions, any sequence of calls and any moments of the
interrupts:

| theorem | for any threads, calls and interrupts | hypotheses |
|---|---|---|
| `MutexesExclude` | a mutex has at most one holder; its byte is 1 exactly while it has one | |
| `SchedulerTyped` | types; a passage through the scheduler resumes a thread or finds that none can run | |
| `RingKept` | the started threads are on one circular list through the main thread | |
| `NeverGoesWild` | the scheduler never follows a dead thread | `Untimed` |
| `EarliestWatched` | `_gt_nt` waits for a deadline, and nobody in `gt_wait` for an earlier one, but a thread interrupted before its yield (`NotYetSeen`) | `Untimed` |
| `JoinsWait` | `gt_join` returns only after the thread has terminated | `Untimed` |
| `WaitsLongEnough` | `gt_wait` does not return early while the clock is exact | `Untimed` |
| `ClockStaysExact` | the clock is exact, and `gt_wait` never returns early | and `SingleWaiter` |

All rest on `ThreadsAssumption`. `Untimed` says that no thread calls `gt_cond_timedwait`: after
one that a signal ends, `_gt_nt` is stale and TLC finds each of these four violated, which is why
no run checks them of `OneTimed`. `SingleWaiter` says that one thread at most calls
`gt_wait`: two equal deadlines make an empty slice, and the clock falls behind.
`TheoremsApply` in `MCThreads` has TLC evaluate both on the programs of the runs.

Mutual exclusion alone is not inductive: `PlacesOK` adds what each place of the library knows of its
registers (who is in `gt_mutex_lock` names a mutex, who is in `gt_cond_wait` owns the
mutex it will release), `ObjectsOK` the types. Nothing is assumed of the scheduler, so
that this proof also covers the runs in which it goes astray.

`Typed` adds to this `Inv` the scheduler: `Settled`, the started threads are a ring (`Ringed`, with
the heights of `Rings`) and the current thread is one of them, unless all sleep; and
`LinksOK`, who is in `gt_start` names a thread that is not started and that nobody else
starts. One description of a passage, `Irqed`, serves every action: a thread times out, or one is
resumed, or there is none; `RoundReaches` says that the search meets every thread of the ring.

`Timely` adds what relates threads to deadlines. `Calm`: the thread that is watched waits for its
deadline (`WatchOK`); the byte that a thread waits for fits the place it is at (`RestOK`); who joins still
waits for its thread, or that thread has ended (`JoinOK`); who is in `gt_wait` has no earlier deadline than
the watched one (`WaitOK`). `Beyond` adds that whoever `gt_wait` resumed has its deadline behind
(`OverNow`), that the current thread waits for nothing, and that nobody could run while
all sleep. `Before` is what holds inside the scheduler, where deadlines count from `_gt_clk`;
`IrqCalm` leads from `Before` to `Beyond` and `PresentBefore` back. A step of one thread outside of
the scheduler changes what is known of that thread alone (`OwnBeyond`); its
passage into it is a change of its own followed by `Irq` (`Enters`). That a deadline behind
stays behind during the slice is where the length of the slice matters (`PastStays`); that the slice is
not empty, for `ClockStaysExact`, where the single deadline does (`EntersExact`).

### Only model-checked

`EveryoneRuns`, and `WaitEnds` which is refuted under fairness: liveness and
`ENABLED` are out of the reach of the prover. The invariants of `Registers`, for which no
proof was written. What
the algorithms compute, which is recursion over their data throughout.

## Not modelled

* Strings, formats, conversions, mathematics, runtime arithmetic: functions without a
  state that outlives a call, which tests serve better.
* Lexers, the printing of code, the matcher of instructions, the drivers: text
  to text, or tables generated when the compiler is built. The other back ends of lcc are
  unused here. Tests, examples and games are programs to compile.
* Of the compiler: old-style definitions, tags, enumerators, attributes; floating
  point, pointers and their scaling, volatile; assignments of whole structures, structures as
  arguments, initializers of locals, of wide strings, of addresses, and of unions that begin with a
  bit-field; the `asm` statement and the counts of references; `requate` and
  `moveself`, the preallocation into vAC, register variables, arguments on the stack.
* Of the preprocessor: the definition of macros itself, assertions, predefined macros,
  the search for files.
* Of the library: the console, whole lines (`fgets`, `fputs`), `tmpfile`, sound, signals
  and the chains of `exit` (each is a call, nothing is asynchronous there), the clock, whose
  count depends on the timing of a frame.
* Of the linker: machine code of the maps, banked memory, the choice of modules, labels
  and the iteration of passes, the image file. Of the allocator: blocks of 32768 bytes or more. Of the
  threads: `_gt_fini` and the video timing inside a frame.

## Plan

1. Proofs about `Registers` (registers that are free, until an operand is passed over).
2. `Closure` and `Passes` of the linker above `Segments`, `Exit` with its chains.
