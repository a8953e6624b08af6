# Verification of velho

velho is a collection of C libraries and programs: thread primitives (`src/usr/lib/mt`) on top of
machine primitives (`src/usr/lib/mach`), an allocator and hash tables (`src/usr/lib/zen`), fragments of
two operating-system kernels and a virtual machine (`src/sys`), and two games (`src/usr/games`). This
directory holds TLA+ models of its parts, the TLC runs that check them and the TLAPS proofs about them.
`PROJECT.json` is the index: components, runs, mutants, the map from definitions to source lines, the
findings, the hazards and the theorems.

## Inventory

| Component | State | Operations | What is hard | What makes it correct |
|---|---|---|---|---|
| fast mutex, `mt/mtx.h` | lock word | try, lock, unlock | racing compare-and-swap, lazy release, store order | one owner, its stores visible to the next, somebody always enters |
| ticket lock, `mt/tktlk.h` | two halves of one word | lock, try, unlock | independent wrap-around, half-word increments, stale try | one owner, first come first served, refused only if taken |
| priority lock, `mt/priolk.c` | owner, wait bits, a priority per thread | set, get, release; a free list of priorities | priorities written by other threads, bits shared by equals, stale owner | one owner, no bit outlives its waiters, progress |
| pool barrier, `mt/bar.c` | seq and cnt in one 64-bit word, nref | wait, free | early and late arrivals, lost wake-ups, signals, destruction | nobody leaves early, one serial thread, everybody released returns |
| barrier `mtbar`, `mt/bar.c` | counter with a flag bit, sleep queue | wait, free | waiting with the lock held | as above |
| condition variables, `mt/cond.c`, `mt/thr.c` | queue of sleepers, a flag for each | wait, with or without a time; wake one, some, all | a sleeper that is woken while it gives up, a mutex held while asleep | queue and flags agree, nobody is woken twice or missed |
| semaphore, `mt/sem.c` | counter, fast mutex | wait, trywait, post | try-lock loops, limits 0 and maximum | the counter is changed by the lock's owner only, a unit goes to one who waits |
| recursive mutexes, `mt/mtx.h`, `mt/mtx.c` | lock word with an identity, depth | try, lock, unlock | re-entry | the owner may re-enter, nobody else |
| bit locks, `mach/asm.h`, `mt/lk.h` | one bit of a word | try, lock, unlock | neighbouring bits change meanwhile | one owner for each bit, the other bits stay |
| atomic operations, `mach/x86/asm.h`, `mach/x86-64/asm.h` | a word | add, exchange, compare and exchange, bits | operands that the assembly does not name | memory and result as `mach/mach.h` says |
| random numbers, `prng/randmt64.c` and others | words of a generator, index, two mutexes | seed, next, refill | a mutex that is made on first use, a state refilled in place, lags longer than the buffer | no word read outside the state, numbers reproducible from a seed, calls return |
| hash functions, `zero/hash.c`, `zero/hash.h` | none | mix a word, hash a key, remainder | inverses, tails of a key | a mixer is one-to-one, a key is read once and no further |
| read-write spin locks, `mt/spinrw.h` | reader count, writer bit | lock, unlock for both | writer waits for readers | does not compile as it stands |
| lock-free stacks and pools, `mt/tmp` | chain heads in a table | push, pop | an item taken between read and swap | nothing lost, nothing twice, somebody finishes |
| slab allocator, `zen/mem.c` | list of buffer headers under a bit of its pointer; queues and a map of slabs per size | get, put, resize | the lock shares its word with the list, refilling, blocks entered by bits, alignment afterwards | a header has one user, the links agree whenever the bit is off, blocks lie apart |
| hash tables, `zen/tabhash.h` | chains under bit locks | add, find, remove | moving between buckets | found once added |
| zen scheduler, `sys/zen/ule.c` | ready queues, bitmaps, current and next set, table of deadlines | set ready, set deadline, switch | several cores between two scans, stale bits | no task lost or run twice, the most urgent first |
| arithmetic, `zero/trix.h`, `zen/bitop.h`, `zen/fastudiv16.c` | none; a table of multipliers | quotients, scans of bits, rounding, saturation, fields, choices without a branch | approximations at the edges; the table is filled on first use | as the exact definition |
| velho core, `dev/velho/bit.h`, `divc.h`, `sys/v0/shift.h` | tables of bytes | counts, scans, divisions by a constant, shifts | magic numbers, words of all ones | as the exact definition |
| checksum, `sys/zen/net/ip4.c` | none | sum a packet by two bytes or by eight | carries, odd sizes, tails | all sums agree, a packet with its sum adds up to zero |
| graphics, `gfx/rgb.h`, `alpha.h`, `fade.h`, `pipe.h` | pictures; brightness of the next frame | blend, fade, convert, copy; fade and crossfade for a given time | carries between components, edges of pictures, a clock read between frames | as with each component alone; frames in order, the last one whole |
| C library, `c/string.c`, `c/qsort.c` | memory | copy, move, fill, compare, search, sort | overlap, alignment, tails; a sort in two phases | as the standard says |
| Core War assembler, `games/corewar/rc.c` | core, line buffer | parse, load; disassemble | defaults, signs, comments, overlap | what is loaded is what was written |
| Core War display, `games/corewar/x11.c`, `zeus.c` | picture of the core, selection, listings, buttons | press, release, expose, run, stop, step | events are handled inside the game, which runs inside a handler | the picture is that of the core, windows lie apart, each move costs a turn |
| caves, `games/mjolnir/cell.c` | map, numbers, tables of cells, a corridor | generate, find, remove, connect | recursion over growing tables, turns of a corridor | each cave is a region, corridors join two |
| rooms, `games/mjolnir/room.c` | parts of a level, rooms, lines | split, place, connect | parts too small to place a room, arithmetic of lines | parts tile the level, rooms lie apart, lines stay inside |
| Core War machine, `games/corewar/cw.c` | core, two process queues, turn counts | eleven instructions, turn loop | programs that rewrite themselves and each other | queues in shape, fair turns, an end |
| other | | | | see the components in `PROJECT.json` |

The locks call the machine primitives; barriers, semaphores and condition variables use the fast mutex;
the scheduler and the allocator use ticket locks and fast mutexes. Threads interact through shared words
only, so the models interleave single reads, single stores and single locked instructions. The Core War
machine is one thread; its two programs interact through the core.

## Modules

| Module | What it is |
|---|---|
| `Lock`, `FifoLock` | abstract locks: an exclusive one, and one that serves in order of arrival |
| `FastMutex` | `mt/mtx.h`, one action per read, locked instruction or store, with the primitives of x86 or arm |
| `TicketLock` | `mt/tktlk.h`, likewise; `Width` is the number of values of a half word |
| `PrioLock` | `priolkset`, `priolkget`, `priolkrel` |
| `BarrierPool` | `barwaitpool` and `mtfreebarpool` over futexes |
| `Mars` | `cw.c`: `cwgetargs`, one action per instruction handler with the tail of `cwexec` and the step of `cwloop`, and what the loader leaves in the core |
| `ItemPool` | abstract pool: an item is in it or has one user |
| `StkPool` | `mt/tmp/stkpool.h`: push and pop of chains, one action per read or compare-and-swap |
| `HdrPool` | `memgetbuf` and `memputbuf` of `zen/mem.c` under the bit lock of `mt/lk.h`, one action per access |
| `Semaphore` | `mt/sem.c`: wait, trywait and post over the mutex word, one action per access |
| `RecMutex` | the recursive mutex of `mt/mtx.h` |
| `RandLock` | how `prng/randmt64.c` makes and takes its mutexes, and the index of the next word |
| `Atomics`, `AtomicCalls` | what each operation of `mach/x86*/asm.h` can do to a word; calls of them and what the comments of `mach/mach.h` say |
| `BitLock` | locks that are one bit of a word each: `mtlkbit`, `m_lkbit`, `m_trylkbit`, `m_unlkbit`; the word is a function of its bits |
| `Trix`, `BitTricks` | the arithmetic of `zero/trix.h`, each function an operator with its wrap-around; its fields, choices, counts and scans |
| `VelhoBits` | `dev/velho/bit.h` and `divc.h`, the counts of `zen/bitop.h`, the shifts of `sys/v0/shift.h` |
| `Checksum` | `sys/zen/net/ip4.c`: the three sums of a packet, sent and received |
| `Pixels` | the pixels of `gfx/rgb.h`, `alpha.h`, `fade.h`, `xfade.h`, `swap.h` and the copy loops of `gfx/pipe.h` |
| `Fades` | the loops of `gfx/pipe.h` over time, one action per frame and per reading of the clock; what a frame shows is an operator of `Pixels` |
| `Slab` | queues of buffers, and `memget`, `memresize`, `memput` of `zen/mem.c` above the headers, one action per call |
| `Generators` | the generators of `prng` and the dice of `mjolnir/dice.c`, one action per number drawn |
| `Conditions` | `mt/cond.c` and `mt/thr.c`, one action per change of the queue, of a flag or of the mutex |
| `FastDiv` | `zen/fastudiv16.c`: the table, its filling and the divisions, with several callers |
| `Strings`, `Qsort` | `c/string.c`, a function per operator; `c/qsort.c`, one action per loop turn |
| `Ule` | `sys/zen/ule.c`: what a core does under the lock is one action |
| `Redcode` | `rc.c` and `cwdisasm`: one action per line read |
| `Zeus` | `x11.c` and `cwexec` under it: one action per event and per instruction, with a stack of the handlers at work; where the windows lie and what a cell looks like |
| `Caves` | `mjolnir/cell.c`: one action per cell of the search and of a corridor |
| `Rooms` | `mjolnir/room.c`: one action per part, room and line |
| `Hash` | `zero/hash.c` and `zero/hash.h`: mixers at a smaller width, the bytes that each string hash reads, remainders of Mersenne primes |
| `MC...` | instances for TLC; `MCPools` and `MCLibrary` hold several modules that do not interact, and run one of them at a time. `FastMutex`, `TicketLock` and `BarrierPool` are their own instances |
| `FastMutexProofs`, `TicketLockProofs`, `PrioLockProofs`, `BarrierPoolProofs`, `MarsProofs`, `PoolsProofs`, `LibraryProofs`, `CavesStringsProofs` | theorems |

How state and actions correspond to the code:

* A thread's `pc` is the point it has reached in the library function it called. Threads outside the
  library are `idle`; a thread may call again or never. Local variables that matter are functions of the
  thread (`tkt`, `myseq`, `prio`, `mask`).
* `FastMutex` and `TicketLock` have store buffers: a plain store (`*lp = MTMTXINITVAL`, `tp->s.val++`)
  goes to `lkbuf`, `databuf` or `valbuf` and reaches memory by a `Drain` action at any later time; the
  buffered stores of one thread drain in any order. `m_membar` and locked instructions wait until the
  buffer is empty. This is weaker than what x86 allows (it drains in order), so what holds here does not
  rest on that order. `FastMutex` adds a caller's critical section, a counter that is read and written
  back incremented. On arm `m_membar` stops the compiler only, and `CasStores` says what the
  compare-and-swap leaves in the word.
* In `PrioLock` a priority is the number of its bit; `waitbits & (prio - 1)` becomes the set of waiting
  levels below `mask`. Steps that are separate in the code (test `waitbits`, swap the owner, compare, lend)
  are separate actions. Reads and writes are sequentially consistent there: the code has barriers or
  locked instructions around all of its stores but the loan, `owner->val = prio`.
* In `BarrierPool` the store that opens the barrier is one 64-bit store, as on 64-bit machines; `seq` and
  `cnt` change together. `syswait` is a futex: the kernel compares once more before it lets the thread
  sleep (`Wait`), and a sleep may end because of a signal (`Interrupted`). `Free` assumes what any user
  of a barrier must ensure: no new callers, and nobody left who waits for an opening. `m_fetchaddu32`
  is taken to add one here; what its x86 version does is the subject of `TicketLock`.
* In `Mars` an instruction has one addressing mode per operand; the sign bits, which only the disassembly
  reads, are left out. `runqtab` and `proccnt` become a sequence, `curproc` is counted from one. An operand that
  is decremented from zero at address 0 gives the index -1, which is also `CWNONE`. A jump to it has stored it in
  the last slot of the queue when `cwexec` takes it for the answer of a dead process (`Die`): the process leaves the
  queue, those behind it move up, and the game is over if it was the only one. A handler that reads or writes the
  core at -1, and a turn of a process that stands there, are undefined in C: status `outside` (`FallOff`). A `SPL` may
  put such a process into the queue; a turn later it is met. The loop that also serves a window (`ZEUS`) is left out.

* In `StkPool` the load of the head, the load of its link and the swap are separate, so a pop may read the
  link of an item that others have taken. Items come from `malloc` and are never given back
  (`stkpoolputitem` is empty), which is what keeps the swap from succeeding with a stale link: the mutant
  that hands them out again breaks it. `stack` and `gone` are history variables, what is in the pool and how
  often each item has been taken, for the comparison with `ItemPool`. That the links reach all of a pool is said without
  counting steps: no part of it is without a link from outside (`StkReached`, `HdrReached`).
* In `HdrPool` the first word holds a pointer and the lock bit, and `m_cmpsetbit` returns what the bit was (see `BitLock`); the store of the new head gives the lock
  back. On refill the first header's `next` is never set, so the other headers of the mapping never get into
  the list: `GetWrite` has that. Plain stores are sequentially consistent in both pools.
* In `Semaphore` the mutex is one word that a try-lock takes in one step, as `FastMutex` shows. A `Vals` outside
  0..`SEM_MAXVAL` does not arise: the code tests before it adds or subtracts. `holder`, `taken` and `posted` are history.
* In `RecMutex` a thread's identity is the thread; `nested` records that somebody took the mutex twice, after which the
  first unlock frees it for others.
* In `RandLock` seeding calls itself from inside, one level deep; `back` is the point to which the inner call returns. `settled` is the
  time from which the mutex is made for good. The state has `NSTATE` words whose values do not matter.
* `Atomics`: a register that the assembly reads and nothing loads holds any value of `Garbage`. A byte has `ByteBits` bits and
  a word four bytes, so that all places of a bit are few. `BitLock` says the same of `m_cmpsetbit` and `m_clrbit32` bit by bit:
  a register of the result holds zero, all ones or something else (`Registers`), and the bit that an unlock clears is the place itself
  in the word that is as many words further on as the place has bytes before it. A call that sets a clear bit may so be told that it was set, and
  nobody clears it (`lost`); a call on a set bit may be told that it was clear (`stolen`). Both are history, and what the lock
  promises is said of the locks to which it has not happened. `HdrPool`, which uses this lock, takes the answer of `m_cmpsetbit`
  as right: what it shows holds for a build in which the register holds the zero that the source assigns to `val`.
* `Hash`: words have `HashBits` bits, shifts are in proportion and constants are cut; that a multiplication by an odd constant
  and a fold are one-to-one does not depend on the width. For a string hash the result is the set of bytes it reads: `pphash` stops after
  two characters, and `razohash` takes its length to tell a pointer (8) from a string, so that a key of four bytes hashes to the seed.
* `Rooms`: `mjolrand` is any of a few values, an uninitialised column any of `Junk`. The macros that would tell walls
  and doors are NULL in this build (`mjol.h:188`-191), so a line is drawn to its end. The sides of
  a level are at least 16. That lines stay inside is claimed from 52 columns on: a column may be raised by a number that was drawn
  for a height (`room.c:347`-350), which in a narrow level leads out of it.
* `Trix`: a word is a number below 2^32, a signed result stays one of 32 bits, and `Bitset` arguments are sets of the
  one-bits. `Width` shortens words only where every pair is tried (saturating sums, `chkmulrng32`).
* `Strings`: memory is a function from addresses to bytes; an unsigned count that passes below zero
  gives `Wild` or `Lost`, a loop that cannot end gives `Hang`. Words of `Long` bytes make the aligned and
  unaligned heads and tails occur. A variable that was not set (`retval` of `memcmp`) is -1, 0 or 1.
* `FastDiv`: the test of the first item and each store of the filling are separate steps, so that two callers may find the
  table empty and fill it side by side. `overlap` is history: the callers during whose call somebody else was filling it.
* In `Qsort` positions are indices of items; comparisons below the array or past it are `outside`.
* In `Ule` a task jumped to that is not there, or a store through NULL, halts the machine. The macros
  that nothing in the repository defines (the score of a task, the key of a deadline, the swap of the sets)
  are choices. The bits that a scan sees are those of whole words (`SeenBits`), and a core takes from the least of them.
* In `Redcode` a line is a comment, blank, code or other, code has a mnemonic by letters and operands by
  sigil, sign and value; a field that is missing takes what the memory behind the line happens to hold
  (`Remains`). Crashes and exits are outcomes. `cwdisasm` is one text: in the code a second operand without a sign goes to
  stderr whatever file is asked for (`cw.c:83`), which shows only if that is another one; the single call, compiled out, passes stderr. A cell counts as free when it is zero, so an instruction that is zero may be overwritten by
  a later one, of the other program or, where a program is longer than the core, of its own; `LoadedWhole` allows just that.
* In `Zeus` handlers are frames of a stack, since events are handled before each instruction of a game that a handler
  runs. The picture is the set of cells drawn before their last change; which cells an instruction changes is open, `Mars`
  has that. The turns may pass zero, and are followed for `MaxDebt` below.
* `BitTricks` and `VelhoBits`: a word is a set of its one-bits where the code fixes its width, else a number below
  `2^Width`; a 32-bit word that is divided is a pair of halves, for TLC's integers end at 2^31 - 1.
* `Checksum`: a byte has `ChkBits` bits, so that carries are frequent; a packet has the byte behind it as its last item.
* `Pixels`: a component has `PixelBits` bits, constants and shifts are in proportion; types of a pixel that no header
  declares are tried with a sign and without. `Fades` adds the clock, which only never goes back. The share
  of the time that is gone is exact there; the code rounds it to a float, which keeps the order of two shares.
* `Slab` has lines of `CLSIZE` bytes and pages of a multiple of that, at least four; an alignment divides the page or
  is larger. It is one thread, with the table `t_memtls` that no code allocates present and empty. `memput` ends the program
  because `MEM_INIT_BIT` is never set: it is the outcome `aborts`, and so are the waits and the NULL stores.
* In `Generators` randk is as large as in the code; the others have shorter words and tables.
* In `Conditions` the queue is how often each thread stands in it; its changes are atomic, and who is taken from it is open. The mutex knows
  its owner only as history, `strange` counts the unlocks by others, on which every return rests.
* In `Caves` the recursion of `dngfindcave` is a stack of frames with the local copies of the table's size that
  each call has. `Wild` memory (phase `wild`) is the end. Random choices are nondeterministic.

Mutants (operators whose comment begins with *Mutant:*) stand before the definition they are a faulty
version of; each makes TLC find the property of its entry in `PROJECT.json` violated.

## Runs

| Run | Bounds | What it shows |
|---|---|---|
| `fmtx` | 3 threads, counter modulo 3 | exclusion, no lost update, refinement of `Lock`, somebody enters |
| `fmtx_arm` | 2 threads | with the arm compare-and-swap two threads enter (finding) |
| `tktlk` | 3 threads, 4 tickets | exclusion, fair refusal, refinement of `FifoLock`, everyone is served |
| `tktlk_xadd` | 2 threads, addend of any value | with the x86 `m_xaddu32` two threads enter (finding) |
| `priolk` | 3 threads, 2 levels, two threads of one level | ownership, bits, masks, progress |
| `priolk_overtake` | as `priolk` | a more urgent waiter is overtaken (finding) |
| `barpool` | 3 callers, groups of 2 and 3, 2 calls each, `seq` modulo 3, `cnt` up to 4 | early leaving, serial thread, single opener, no lost wake-up |
| `barpool_free` | 2 callers, 1 call each | the destroying thread never returns (finding) |
| `mars` | core of 10, 3 processes, 14 turns, 10 warriors, 3 bases | shape of the queues, fair turns, isolation, end |
| `mars_dat` | as `mars`, 2 bases | a DAT ends the game of a program with other processes (finding) |
| `pools` | below | both pools refine `ItemPool`, sleepers and flags agree, one owner per lock, what locks guard stays whole, somebody always finishes |
| `library` | below | exact arithmetic, checksums, pictures and generators, blocks, strings, sorting, blocks of memory apart, sound caves, rooms and corridors, a game that counts right under its buttons, no task lost, the best first, what is loaded is what was written, atomic operations as described |

`pools` runs one of seven concurrent parts, chosen at the start. Stacks: 3 threads, 2 slots, 3 items, 2 pops. Headers: 3 threads,
4 headers mapped 2 at a time, 2 tries, 3 gets. Semaphore: 3 threads with one call each, values 0 to 2. Recursive mutex: 3
threads, nesting of 2. Generator: 2 threads, 4 calls, a state of 2 words. Bits: 4 threads, two locks in a word of 8 bits with
another word behind it. Conditions: 3 threads, 5 calls, wake-ups of one, of two and of all, timed sleeps that may be interrupted.
Its properties speak of several parts: `LinksSound` of stacks, headers and the queue of sleepers, `OneInside` of the
recursive mutex (while nobody nests), the generator (once its mutex is made) and the bits, `GuardedHolds` of what is
under the locks (the units of the semaphore and its lock, the index of the generator, the other bits of a word) and of the
mutex that sleepers hold.

`library` runs one of eighteen parts without concurrency, or with a lock around each action, chosen at the start. Its bounds: words near powers of two
and their multiples, small ones and multiples of 65535, bits in all pairs of places and in rows, and all pairs of 5-bit words
for arithmetic that wraps; every map of 4 by 3 cells, one round of the automaton, caves of 2 to 6 cells, tables that
start at 2; 66 bytes, words of 2, all blocks of up to 21 bytes from eleven places each, all texts of seven letters;
all arrays of up to 6 items of 3 keys, and 247 with 13 or 18 items that reach the quick phase, in items of 1 and 4 bytes; four tasks of
four classes on two cores, three queues with a map of two bits per word so that the last queue is behind the
last whole word; a core of seven, all pairs of operands in all modes, and programs of every kind of line, overlapping
or not, and a first program longer than the core; two callers of a 4-bit division table; three levels, two rooms for each part, four draws for a line; every atomic operation on words of 8 bits
with five possible garbage values; all words of 12 bits and keys of up to 33 bytes for the hashes.
The display: a core of four cells in two rows and two columns, two turns for each program, three events, a drawing after
every second instruction, a turn of debt, buttons of 7 by 2 and letters of 2 by 3. Tricks: all pairs of 5-bit words, and the bitsets of the scans. Memory: lines of 8, pages of 32 and maps of 4 bits, so that
blocks, runs and own mappings all occur in four calls, and a queue of three buffers. Pictures: components of three bits, all
pairs of twelve colours, areas at all edges of pictures of up to 4 by 5. Films: tables of 4 shades, limits of 0, 1 and 7,
a clock that goes to 8, three alphas. Velho: about seven thousand words around the ends of both halves, shifts by 0, 1, 7 and 31. Numbers:
a twister of five words of five bits with a middle of 3, seeds and keys shorter and longer than that; randk with 60
draws and new seeds after 0 and 7; lags below and above a buffer of eight. Packets: 0 to 19 bytes of two bits in many patterns, where
the longest is cut at 18 by one of the sums.

Its properties join what belongs together: `WordsExact` has the scans of bits, the edges of words, the tricks, the division
table, the hashes, the words of velho, the sums of packets, memory and results of the atomic operations, and the
generators; `StringsHold` the blocks and strings; `SortHolds` the sort; `DungeonSound` the caves, their tables and corridors; `LevelSound` the parts, rooms and
lines of a level; `DisplaySound` the picture, the turns, the listings, the buttons, the places of the windows and the colours of cells;
`BlocksApart` the queue of buffers and the blocks; `PicturesTrue` blends, shades, copies and what films show,
`FramesInOrder` the levels of their frames.

The types of the fast mutex, the ticket lock, the priority lock, the pool barrier and the Core War machine are proved (`TypeCorrect` of their proof modules); the
runs leave them out.

Why the bounds are enough to be interesting. Three threads give a holder, a waiter and a third that comes
in between. `Width = 4` is the smallest ticket space the assumption allows for three threads, so every
few operations wrap, and a full circle would be reached if anything went wrong by one. Two levels with
three threads give both equal and different priorities. Two calls per thread make the released threads
meet the stragglers of the round before; groups of two among three callers produce late arrivals, and
three openings wrap `seq`. `MaxCnt` bounds only how often an interrupted late arrival counts itself in
again. The warriors include those of `corewar/warriors` that have different instructions, and others for the
remaining instructions, a full queue, self-modification into a `SPL`, an operand that leaves the core, and jumps to -1 of a
program with one process and with two.
Three threads in the pools are a holder, one between its read and its swap, and one that changes both the
head and what is behind it. Deadlock is checked in the lock runs, where a thread may always call again, and not
in the barrier, game, pool and library runs, which come to an end.

### Findings

* arm `m_cmpswap` never stores the new value (`fmtx_arm`).
* x86 `m_xaddu32` does not pass its addend to the instruction (`tktlk_xadd`). The sibling functions
  `m_xadd16`, `m_xaddu16` and `m_xadd32` in the same file have the same operands.
* `priolkget` can overtake a more urgent waiter that has announced itself (`priolk_overtake`).
* `mtfreebarpool` does not return once a caller has left the barrier (`barpool_free`).
* A DAT ends the game although ROADMAP.txt says it kills the process (`mars_dat`).

Met while modelling `cw.c` and kept in the model as the code has it: SUB without an immediate source
computes source minus destination, SLT without an immediate source never skips, DJN stays where it is when
the count reaches zero, JMP does not jump when the queue is full, a jump also stores its target in
the last slot of the queue, and a jump to -1 kills the process and sends the last one of its program out of the core.

Met in the other modules and kept as the code has it; where a property excludes a case, it is one of these:

* pools: on refill all headers of a mapping but the first are lost; `memgetptr` returns an alignment, not a pointer.
* `sem.c`: `sempost` repeats while its try-lock succeeds, so it changes the counter when somebody else has the lock and
  gives that lock back; `semtrywait` takes no lock and gives one back. `UnitsKept` holds while no such call has overlapped another.
* `mtx.h`: one `mtunlkrecfmtx` frees the mutex however often it was taken; `mtlkrecfmtx` stores the plain lock value and waits for a free
  word, so that a thread that holds the mutex waits for itself.
* `randmt64.c`: the try-lock that should let one thread make the mutex lets every later one make it again.
* atomic operations: `m_xchg64`, `m_add` and `m_xadd` use a register that nothing loads; `m_add*` return what they added;
  `m_cmpxchg` returns the earlier word where a comment says nonzero for success; the 128-bit one does not set its result;
  `m_setbit64` and `m_clrbit64` have each other's instruction; `m_clrbit32` and `m_flipbit32` use the address as a mask;
  `m_cmpsetbit` returns the carry as it is; `m_lkbit` goes on until the bit was set already. `WordsExact` speaks of the others.
* `hash.c`: `mprimod` is not below the prime at (1 << 2s) - 1 and beyond; `tmunhash64` works on 32 bits with the
  constants of `tmhash2`, `tmunhash32` returns nothing, neither inverts; `razohash` reads nothing of a key of four bytes, `pphash`
  reads two bytes at a time and may pass the end.
* `room.c`: a part narrower than the margins divides by zero; a line may end before its room; the caller is told of six
  rooms where eight are made; one column is used before it is set; a column may be raised by a number drawn for a
  height; the table of eight parts is written past its end.
* `trix.h`: `divu3(3)` is 0, `divu100b(100)` is 32, `ceilpow2l(3)` is 8, `tzero32c(4)` is 3, `satsubu32(a, 0)` is 0, `mod15u32(65535)`
  is 15, `chkmulrng32` lets a product wrap when a factor is a power of two (the source asks to verify it), `rem32(a, a)` is `a`. `lzero64b` does
  not compile.
* `fastudiv16.c`: the item that callers test is stored first, so a second caller during the filling may get 0; two callers that
  find it zero both fill the table.
* `string.c`: a long move backwards with an unaligned end misses one byte and overwrites another; `memset`
  runs wild for fewer bytes than it needs to reach a word; `memcmp` compares the bytes behind the
  words with those at the first word again, so that a difference there is never seen: it hangs, or returns what its variable held, and so for
  equal blocks; `strcmp` gives 0 for a string that begins the other; `strrchr` finds the last
  byte that is another; `strnlen` does not advance; the copy of an empty string is NULL; `strtok` goes on behind the end; `memchr` never finds a byte above 127; `strncpy` and `strncat` write one byte
  too many. `bzero` in `strings.c` clears one byte of an unaligned block and runs wild below two cache lines;
  it is not modelled.
* `qsort.c`: the number of items is compared with four times the item's size, so short arrays of wide items
  go to the insertion sort directly, which then runs off the front of the array.
* `ule.c`: bits of emptied queues are never cleared (line 323 tests an address), so a later scan jumps to a task that is not there;
  queues behind the last whole word are never scanned; an idle core marks the wrong map; the second deadline with
  the same first key is stored through NULL; a task is queued before its core has left it.
* `rc.c`, `cwdisasm`: missing operands and blank lines read what is behind the line; one blank line makes
  later unknown lines legal; the default of the B operand sets a flag of A; the disassembler takes B's `<` from A's flags; an unknown
  third letter reads through NULL; `-0` gives the size of the core; an instruction that is `DAT $0` may be overwritten unnoticed, also by a
  later line of the same program.
* `x11.c`: a step pressed during a run moves the same program twice; a step at the last turn takes the count below zero, after
  which a run has no limit; a click with shift past the end of the core touches the cell behind it; RUN looks pressed after its game has ended.
* tricks of `trix.h`: `sign` masks with a comparison where a shift was meant and gives 0
  for any field of two bits or more; `tzero32c` shifts twice; `ceilpow2l(4)` is 8; `copybits` ignores its mask and `setbits` keeps what it should
  change; `gtpow2` is true for any word with another bit; `condflgset` ignores its condition; `ldgetsign` and `ldsetsign` use bit 111, `f_ldgetsign128`
  bits that nobody sets; `chkmulrng64` compares with the limits of an int; `ham64mul` takes 32 bits. `clz64` in `bitop.h` is misspelt and gives
  32 for zero; the table of `bithamu32lut` is declared with 32 items and has 256.
* `v0/shift.h`: the rotations OR in ones, not the bits that were shifted out. `dev/velho/bit.c` names tables that do not exist.
* `ip4.c`: `ip4chksum16` of no bytes never returns; the sums by eight add the byte behind the packet when the size modulo 8 is 2, 4 or
  6, so that a receiver with something else there rejects a good packet; the result is widened with its sign. `NETIP4PKTSIZE` is defined nowhere.
* `mem.c`: `memput` always aborts; runs are taken from a header that is NULL; sizes of the last class wait for a lock that is a count;
  a mapping that fails is written to; alignments above a cache line give blocks that are too small, so that one address may be given
  twice; `memresize` leaks and returns NULL; `mempopbuf` leaves the count.
* `gfx`: the conversions to 555, 565 and 444 shift the other way; blends without a sign spill into the next component where the source
  is darker; a blend's alphas of zero and full are exchanged in the pipe, and `gfxalphablend_hiq` of alpha zero assigns nothing; the table
  that swaps bits is indexed past its end; copy loops ignore the edges of the destination, the masked one does not count its rows, and the one
  with two rows at a time is right for one pair; a map of brightness uses the larger of a value and 255; a visual with masks of 555 gets
  the format of 565; the fade loops give the copy loop arguments it does not take; the frame of alpha zero shows the whole picture too early.
* generators: `srandk` writes before its table and sets a few items of it only, so that a second seeding is not like the first; `randklc64`
  keeps 32 bits of its state; the lag of `randlfg2` is longer than its buffer; memory that was not given is written to; `srandmt32tab`
  without a key reads one. `dice.c`: options are read past the end of the arguments, and one that follows another counts as zero.
* `cond.c`, `thr.c`: a caller that holds the mutex gets -EPERM, one that does not sleeps with it taken; a timed sleep is not ended by a
  wake-up; the error of `clock_nanosleep` is looked for in errno, so that an interrupted wait fails with the mutex taken; `thrwake1` is declared
  and called as `mtwakethr1`.
* `cell.c`: a cave with more than 32 cells may be written past its table; caves of exactly the minimum size are
  removed; a failed corridor is freed and used; failing tries are not counted, so that a map with one cave never
  ends.

## Fairness

The locks spin, so their fairness is that of the scheduler: `WF_vars(Continue(t))`, a running thread is
scheduled again, and a buffered store drains. No fairness is put on calling. `SomeoneEnters` is what an
unfair lock can promise under that assumption: one thread may lose every race, all of them cannot.
`EveryoneServed` is stronger because a ticket fixes the order. In `BarrierPool` a sleeping thread is not
scheduled, `Continue` is not enabled for it, and only a wake-up or a signal changes that; signals are not fair,
so no property relies on one. In `Mars` the main loop simply goes on. `StkFair` and `HdrFair` say the same of a
thread that is in a pool: it is scheduled again. In `pools` the fairness of all parts is stated per thread
(`PoolsFair`): weak fairness for a thread inside a pool, a semaphore, a recursive mutex, a bit lock or a call on a condition (a sleep with a time ends), strong fairness for the unlock of a recursive
mutex and for the generator, where a thread that sleeps in a pthread mutex is woken when the mutex is given back again and again. `PoolsProgress`
claims no more than that can give, each part as a state that cannot last: somebody working in a pool without an operation returning, a
unit free and awaited, a mutex taken by one who is to release it, a call of the generator, a bit awaited by all that is not `lost`, a woken sleeper before a free mutex. A
pop of an empty pool may look for ever, and is not counted as something to do. `library` needs no fairness: nothing in it is claimed to happen.

## Proofs

`FastMutexProofs`, from `DataModAssumption` and, except for the type, `Arch = "x86"`; the set of
threads is arbitrary. Mutual exclusion alone is not inductive, because it does not see the stores that are
still buffered after a release. `IInv` adds: the owners are the threads in their critical section and
those whose releasing store has not drained; there is at most one; the lock word is taken exactly if there is one
(`LockWord`, `OneOwner`); a thread whose release is buffered is outside and has no data in its buffer
(`ReleaseBuffered`), a thread with data in its buffer stands before the barrier (`StoreBuffered`), and
memory is current when no data is buffered (`DataCurrent`). From it follow `Exclusive`,
`UpdatesKept` and `Refinement`, the last by one abstract step or stutter per action.

`TicketLockProofs`, from `WidthAssumption`, `ThreadsAssumption` (a finite set of fewer threads than
tickets) and `Addends = {1}`. The invariant speaks of the line, the threads whose ticket is out: places in the line
are distinct, lie between `val` and `cnt` on the circle, and the distance from `val` to `cnt` is the
number of threads in line; that is what keeps `cnt` from running into `val`. The lemmas `DistanceGrows` and
`DistanceShrinks` carry the arithmetic of the circle, `JoinLine` the two ways to draw a ticket.

`PrioLockProofs`, for every set of threads, every set of levels and every original priority, with
`NoThread` outside the threads (`ThreadsAssumption`). `IInv` is `TypeOK`, `OwnerHolds`, `NoGhostBits` and `MaskIsPrio`;
the last extends `MaskFollowsPrio` to the step that looks for a changed priority, where the two locals are updated in different
branches. Mutual exclusion (`Exclusive`) follows from `OwnerHolds`. Whether anybody gets in is `SomeoneEnters`, for TLC.

`BarrierPoolProofs`, for every finite set of callers, every size of a group and every width of `seq`. For a barrier whose
group is all of its callers (`Exact`) there is a number R of openings, and each caller is outside after R
rounds (`Out`), coming to the next (`Coming`), counted for it (`Here`) or leaving the last (`Past`); `cnt` is the number
of those counted, and whoever opened round R is the one told SERIAL (`Opened`). So `seq` cannot come round
to the value that a caller has seen while that caller sleeps. `NoEarlyLeave` and `OneSerial` follow; `OneOpener` needs no such
restriction. The type theorem is about `BarType`: the bounds of `nref` in `TypeOK` need a sum over the threads and stay with TLC.

`MarsProofs`, from `SizesAssumption` and `WarriorsAssumption` (a warrior has an instruction that is not a DAT), for every
core and every two programs. All handlers but DAT end alike (`Handled`): they leave a core,
and a queue in which at most the running and the last process have changed (`Queued`), or have taken the running process out
of it because they returned `CWNONE`, which only a jump does (it has stored -1 in the last slot by then). Types, `EvenTurns` and `OnlyLastDragged`
are proved from that, with one lemma per group of handlers.

`PoolsProofs` begins with the two pools, for every number of threads, slots, items, headers and calls. *Stacks*: an item that has been pushed keeps its link for
ever, because only its maker writes it, and only before the push. So a link that a pop has read is still the link of
the head when the swap finds the same head again (`PopTakes`). The invariant says that items on their way in belong to
one thread and are in no chain (`StkOwn`), that heads and links lead to pushed items (`StkClosed`), that what a
thread has read stays true (`StkSeen`), that one way leads to each item (`StkOneLink`), and that no part of a pool is
cut off (`StkReached`). A reuse of items breaks `StkSeen`. *Headers*: the bit is set exactly while one thread is inside (`HdrOneInside`); while nobody is, forward
and back links agree along the list and the list holds the available headers (`HdrInOrder`); each
point inside has its own account of what is unlinked or half linked (`HdrStage`). Both implement `ItemPool` step by step.

It goes on with the other concurrent parts, for every finite set of threads and every bound, and then the composition:
in each step one part moves and the others stutter, so that `PoolsTypes`, `PoolsLinks`, `PoolsInside`, `PoolsGuarded` and
`PoolsAbstract` state for every instance what the run `pools` checks on one.

* *Recursive mutex* (`RecInv`): the word says whether it is taken, and as long as nobody nests the owners inside are at most one.
* *Semaphore* (`SemInv`): the counter and the units taken are together the units there were and those posted, at every step; what a test has
  read is still so; one thread has the lock, and a lock that nobody is about to give back was left by a `sempost` of a full semaphore. All but the types
  holds while no `semtrywait` or `sempost` has overlapped another call.
* *Generator* (`RandInv`): after the first moment without callers (`settled`) one thread at a time works on the state; before it, only
  if calls have not overlapped. The index stays within the words while they have not, and is never more than the words and the calls that have written
  it (`Owing` are those that have not yet).
* *Conditions* (`CondInv`): a thread stands in the queue as its flag says, and the waits that have returned, with those that sleep
  without the mutex (`Robbed`), are no more than the unlocks by strangers.
* *Bits* (`BitOwned`, `BitKept`): a bit that is on and was not stolen has one owner or is lost, every other bit keeps its value.

The last needs one hypothesis, which says where the code is right. `InFirstByte`: the bits lie in the first byte of the word, as the only two
that the sources use do (`MT_MEM_LK_BIT_OFS`, `MEM_LK_BIT_OFS`); further on `m_clrbit32` clears a bit of another word. Of the register that
`m_cmpsetbit` returns nothing is assumed, in the proofs as in the run: exclusion is lost only for a bit that a call has taken while it was set (`stolen`;
`BitSafe`), and as long as it has not been the bit is set exactly for its owner, or for nobody once a call that set it was told otherwise (`lost`; `BitExact`).

`LibraryProofs` is about the sequential parts.

* *Divisions*: one lemma for each function of `trix.h`, which the SMT solver proves from the definition by linear
  arithmetic; `Remainders` and `Leap` follow from the quotients, and `ReturnsExact` goes through the questions. `QuotientsAlways` holds
  for any choice of 32-bit words, where the run has the interesting ones; `MillionExact` is about `divu1000000`, whose
  product TLC cannot represent and which is therefore proved only.
* *Scheduler* (`UleInv`): a task is in one place (`SomewhereOnly`). A place is a core, a queue, a list or one of the two ends away from both; every step moves one
  task from one place to another (`Moves`, `Moved`) or exchanges the two sets of queues (`SwapStep`), and what it moves was there. With it: no task twice
  in a queue (`OnceEach`), a queue with tasks is marked (`Marked`), lists hang below a key that leads to them (`Reached`). A machine that has
  halted, as after a jump to a task that is not there, is outside of it. `LowestServed` is an action property: the
  queue a core takes from is the least of those a scan of whole words sees.
* *Display* (`ZeusInv`): while the game plays, the innermost frame runs it (`PlayingRuns`); the turns that are left and the moves and
  ties there were add up to what was granted, but for the steps that are still on the stack (`TurnsPaid`, `Stepping`), as many as handlers
  are nested. That count is what the bare property lacks to be inductive.
* *Allocator* (`SlabInv`): the links of the queue of buffers agree with its order position by position (`QueueInv`); slabs lie
  apart, the head of each size has its map (`HeadsOK`, `SlabsApart`), and an area that was given is clear in the map of
  the slab that it lies in (`AllClear`). Rounding, classes of sizes and alignment are lemmas about multiples (`Times`, `Divided`, `Rounded`, `Page`, `Classes`).
* *Assembler* (`RcInv`): instructions in the core have a shape that a line can give (`Shaped`); the instructions of the lines read so far stand
  in the core and are counted (`SoFar`), and a cell that is not zero is never written again (`Stays`). `WrittenAgain` is the round trip through
  `cwdisasm`: marks, signs and numbers come back, and `rcfindop` knows each of the eleven mnemonics.
* *Sort* (`SortInv`): the items are those that were given, in another order (`Permuted`). The two pointers of a pass have what is not above
  the pivot on one side and what is not below it on the other (`Approaching`, `Parted`); the parts put off are apart, and nothing in front of one is above an
  item of it and nothing behind it below (`PutOff`); the least item comes to the front or lies among the first five when the quick phase ends
  (`LeastNear`), and the insertion sort, which does not look for the front, stops behind it (`Inserting`). For every array of integers.
* *Rooms* (`RoomsInv`, from sides of 16 or more): widths and heights of the parts add up to the sides of the level, so that each cell is
  in exactly one part (`CoveredSum`); a room lies in its part with a margin (`RoomIn`), hence apart from others; a line ends
  within the level by cases on how its two ends lie (`LineInside`). The attempt to prove the last for every level found the narrow ones that leave it.
* *Films* (`FilmInv`): the level of the next frame is that of the time gone by or still the first (`Clocked`, `Unclocked`), it is not behind the last
  one drawn, and between a frame and the next look at the clock it is that one. Levels follow the clock in order (`NearestIs`, `LevelsAre`). What frames
  show is a parameter, for `Pixels` uses the bit operations of a library module that the provers do not read.

`CavesStringsProofs` is about the dungeon's caves, for every map, every random start, every size of the tables and all limits of the
corridors (`CavesRight`). `CavesInv` is `MapInv`, of the search, and `CorInv`, of the corridor. `DungeonSound` alone says nothing of a search that is under way. So
`Calling` gives each cell of the cave a call that is at it or has left none of its neighbours free, from which it follows that the
cave is complete when the first call returns (`Complete`), and every cell was entered from a neighbour, so the
cave hangs together. `Room` relates the table's size to the copies of it that the calls hold: until a cave has more cells than twice the
first table, each copy is one of two sizes. The reference definition of a component adds neighbours in rounds; `ComponentIs` shows by
counting cells that as many rounds as there are cells are enough. A corridor starts beside a cell of the first cave because
the cell before the first open one in a direction is closed, and belongs to that cave as the neighbour of one that does (`EdgeBeside`).

It is also about the blocks and strings of the C library, for every size of memory and of a word, all places and lengths of blocks and
all lengths of strings (`StringsRight`). Each function is computed in one step, so the proof is of lemmas on the functions. A copy of units is one of bytes if no
unit is read that was written before (`CopiedUp`, `CopiedDown`); rounds of eight words, the rest and the leading bytes then add up to the block, and only the
bytes that `_memcpybk` takes from behind the ends are wrong. A search stops at the first offset that has a property
the end of the string has as well (`ScanIs`). Between calls of `strtok` the string from the place to go on at is as the caller wrote it (`Going`),
from which each token is a longest run without separators (`TokenIs`), for three calls in a row. What the functions do otherwise than one expects is stated as it is, see `string.c` above.

There is no induction theorem that the provers can instantiate. Where a function is recursive (the sums of parts, the passes of the
sort, the rounds of a component, the units of a copy) the proof goes by the least counterexample: a nonempty set of numbers has a least member
(`LeastIn`, from the well-foundedness of the natural numbers), whose predecessor is no counterexample (`Reaches`).

`TicketLockProofs` also has `Refinement`, that the ticket lock implements `FifoLock`. The abstract queue is the line in the order of
the places: the i-th of it has the i-th ticket from `val` on (`QueueIsLine`, from as many threads in line as tickets that are out). So a
drawn ticket appends (`QueueGrows`), and a release takes away the first (`QueueShrinks`, `ServedFirst`). Every step is one abstract step or a stutter.

Only model-checked: the liveness properties, which are out of the prover's reach (fairness, ENABLED); what recursion over data
computes in `Hash`, `BitTricks`, `VelhoBits`, `Generators`, `Checksum` and `Pixels` and in the bit operations of `Atomics`, and with it `WordsExact` and
`PicturesTrue`, of which `QuotientsAlways` and `ReturnsExact` prove the divisions (they also reach the module `Bitwise`, whose recursive
operators the provers cannot use); and the bounds of `nref` in the barrier, a sum over its callers.

## Not modelled

What is left has no behaviour to check, or none that differs from a statement of its mistake:

* `mtbar`: `barwait` calls `mtwaitcond` with the lock it must take, gets -EPERM (`Conditions`) and spins for ever.
* the adaptive mutex of `mt/mtx.c` needs headers that are missing; `spinlk` is inverted, `spinrw.h` does not compile.
* `lfset`, `lfdeq`, `nbstk`, `lwlk`, `maplk`, `lfseq`, `mtdeq`, `waitq`: unfinished, do not compile or have no callers.
* `priolkinit`, `priolkfin`: a free list that is popped like `StkPool` but takes its elements back.
* `zen/mem.c`: the queues that threads share and the table of hashes, which stay empty because `memput` aborts. `tabhash.h` tests a
  variable that is not set and leaves a bucket locked.
* string functions: `strncmp` does not compile, `strstr` reads past both ends, `bzero` runs wild on short blocks, `rawmemchr`; `malloc.c`
  wraps an allocator that is elsewhere, where `calloc` asks for the size of one item and clears NULL, and `realloc` returns the old pointer.
* `chr.c` of mjolnir uses cells that are NULL; the rest of the game is tables and terminal output. What the eighth split of
  `room.c` does to the heap behind its table of eight is not modelled, only that the parts are made.
* `sys/vas/vas.c` does not compile: names of its tokens are declared nowhere and its loop reads no token. `sys/v0` likewise, but for its
  shifts. `perm.c`, `tmr.c`, `vm.c`: fragments and headers.
* the words of `randmt64` are those of `randmt32` at another width. `efl.c`, the other toolkit of Core War, is compiled out; text and images of the
  display have no state that another part reads.

The map covers about three tenths of the lines. The rest are declarations and tables, tests and generators of tables, drawing
and terminal output, second copies of the kernel, and the code above that does not compile.

Preemption inside a single machine instruction, memory exhaustion other than where a module says so, and
thread creation are outside all of the models.
