# A TLA+ verification of Computer-Systems

The repository holds eight independent systems programs. This directory keeps,
beside them, TLA+ modules translated from their source, the TLC configurations
that check them on small instances, and theorems that TLAPS proves for all
instances. `PROJECT.json` lists the components, the runs, the source lines of
every definition, the hazards that the properties are about, and the theorems.

Run a configuration with `tlc -config X.cfg M`, a proof with `tlapm M.tla`.

## The system's parts

| Part | Source | Modules | Run |
|---|---|---|---|
| Thread pool: queue | `threadpool/src/queue.c` | `FifoQueue`, `Queue`, `QueueProofs` | `pool` |
| Thread pool: pool | `threadpool/src/thread_pool.c` | `WorkPool`, `ThreadPool`, `MCThreadPool`, `ThreadPoolProofs`, `WorkPoolProofs` | `pool` |
| Thread pool: password cracker | `threadpool/src/password_cracker.c` | `PasswordCracker`, `MCThreadPool`, `PasswordCrackerProofs` | `pool` |
| Thread pool: a test client | `threadpool/tests/recursive_add_work.c` | `RecursiveAddWork` | `recursive_test` |
| malloc: simulated memory | `malloc/src/memlib.c` | `MemLib` | `malloc` |
| malloc: explicit free list | `malloc/src/mm-explicit.c` | `ExplicitMalloc` | `malloc` |
| malloc: implicit list | `malloc/src/mm-implicit.c` | `ImplicitMalloc` | `malloc` |
| malloc: trace driver | `malloc/driver/mdriver.c` | `MDriver`, `MallocDriver` | `malloc` |
| malloc: what both promise | both allocators | `BlockHeap`, `BlockHeapProofs` | `block_heap` |
| Address sanitizer | `signal-handler/myasan.c`, `util.c` | `MyAsan`, `MyAsanProofs` | `asan` |
| WeensyOS: memory | `mini-operating-system/kernel.c`, `util.c`, `k-vmiter.*`, parts of `k-hardware.cc` | `PhysMem`, `VMIter`, `AddressSpace`, `PageWalk` | `page_walk` |
| WeensyOS: processes | `kernel.c`, `k-exception.S`, `k-memviewer.cc`, `p-allocator.cc`, `p-fork.cc` | `Kernel`, `WeensyOS`, `MCWeensyOS` | `weensyos` |
| WeensyOS: formatted output and console | `lib.cc`, `u-lib.cc`, parts of `k-hardware.cc` | `Console` | `machine` |
| WeensyOS: keyboard | `k-hardware.cc` (`keyboard_readc`, `check_keyboard`) | `Keyboard` | `machine` |
| WeensyOS: boot loader and restart | `boot.cc`, `k-hardware.cc` (`stash_kernel_data`) | `Boot` | `machine` |
| WeensyOS: panic, backtrace and the whole machine | `k-hardware.cc`, `kernel.c` | `Machine`, `MCMachine`, `MachineProofs` | `machine` |
| TeenyJVM | `java-virtual-machine/jvm.c`, `read_class.c`, `heap.c` | `ClassFile`, `JVM`, `JavaMachine`, `TeenyJVM`, `MCTeenyJVM` | `jvm` |
| TeenyBASIC compiler | `assembly-compiler/src/*.c`, `runtime/` | `BasicParser`, `BasicCompiler`, `BasicSemantics`, `TeenyBasic`, `MCTeenyBasic` | `basic`, `basic_fold` |
| FAT16 recovery | `file-directory-tree/src/*.c` | `DirectoryTree`, `Recover`, `MCRecover` | `recover` |
| Meltdown demonstration | `meltdown/src/*.c` | not modelled | |

The programs do not call one another. Inside each, the table's order is that of
the layers: the pool calls the queue, the driver calls an allocator which calls
the simulated memory, the kernel uses the iterators which use physical memory,
and so on. Definitions carry the names of the functions they model; where one
function is split into several steps, `map` in `PROJECT.json` says which lines
each step stands for. A definition whose name ends in `_` and a word, under a
comment `variant:`, is a plausible mistake in the definition that follows it.
It is not used by any specification; it is what the property that would notice
the mistake has been tried on.

## Thread pool

`Queue` models the doubly linked list between two dummy nodes, with a program
counter for each thread and one step for each stretch of statements between two
pointer writes, so nothing but the mutex keeps two operations apart. Its state
is the fields of `node_t` by address, the addresses that `malloc` gave out and
`free` did not take back, `size`, the owner of the mutex, the threads blocked on
the condition variable, and the locals of each thread. Freed addresses may be
given out again and their fields hold `Junk`. `pthread_cond_wait` may return for
no reason. `order` is a ghost: the nodes enqueued and not yet dequeued.
`FifoQueue` is what `queue.h` promises.

`ThreadPool` adds `thread_pool.c`: `CreateWorker`, `AddWork`, the worker loop of
`thread_execute`, the NULLs and joins of `thread_pool_finish`, and the final
frees. The client obeys `thread_pool.h`: it calls `thread_pool_finish` when no
running work will add any more. Work functions may add work. `WorkPool` is the
promise: work is started in the order in which it was added, once each, and the
pool is closed only when all of it is done.

`PasswordCracker` is the program built on the pool. Its main thread reads hashes
up to an empty line, forms candidates (a dictionary word with a digit at every
place) and adds one piece of work per candidate and hash; `hashes_match` is the
work. Strings and `hashpass_t` are kept by address, since main goes on forming
passwords while workers still read earlier ones. `form_word` appends with
`strcat` to memory that `malloc` does not clear: what is there before (`Dirt`) is
a choice. `crypt_r` is external and taken to be injective.

**Run `pool`** chooses its client at the start: one that adds any work in any
order (three pieces, one of which adds another), or the password cracker in one
of three sessions. There are two workers and four node addresses. `ListIntact`,
`NoLostWakeup` and `ImplementsFifo` are about the queue; `FinishIsClean` and
`ImplementsWorkPool` about the pool; `PasswordsFound` about the cracker's answer;
`FinishReturns` and `WorkIsPerformed` hold under fairness for both clients. Two
workers are the least with which one can take the item that the other was woken
for; three values in the queue are the least for which order, front, middle and
end differ. The sessions have two words, two digits, an input with lines behind
the empty one, and two hashes of one password. `MaxQueued` lets main add only
when the queue is empty, so the four node addresses are enough; the general
client has no such bound. `MaxDirty` is the number of passwords spoilt by what
the memory held, and `PasswordsFound` says that no more than those are missed.

**Run `recursive_test`** finds a disagreement. `tests/recursive_add_work.c`
counts its outstanding work in `remaining_work`, but a piece is handed to the
pool before it is counted. The count can be zero while work is still being
added; `main` then finishes the pool and the rest of the work is never run.

*Fairness.* Each thread takes a step when it continuously can: weak fairness for
main and for each worker, which the scheduler of the operating system gives.
Neither the mutex nor the condition variable is assumed to be fair. Spurious
wakeups do not go on for ever.

## malloc

Memory is kept by 8-byte words, so headers, footers and links can be overwritten
and read back as they are in C. `ExplicitMalloc` and `ImplicitMalloc` define each
function of the allocators as an operator from heap to heap, and a store outside
the region sets `fault`, the death of the process. `MDriver` is `mdriver.c`: it
calls the allocator in any order, fills each block with data of its own, checks
payloads with `add_range` and data with `check_index` (`eval_mm_valid`). A trace
that was found valid is evaluated again by `eval_mm_util`, which keeps count of
the payload, and by `eval_mm_speed`, any number of times, on a heap that still
has the contents of the last evaluation; then comes the next trace. `mm_calloc`
has no caller in the repository; `Calloc` is a client of the same kind. The load
through NULL in the first `mm_malloc` of the implicit allocator is undefined; the
variable `null_load` chooses between a build that performs it and one that does
not. `MallocDriver` chooses which of the two programs runs.

`BlockHeap` abstracts from tags and lists: a heap is a set of block boundaries
and the set of blocks in use. Both allocators refine it, the explicit one with
joins at each `free`, the implicit one with `Deferred` joins at each `malloc`.

**Run `malloc`** (the explicit list with up to five blocks of 16 or 32 bytes in a
region of 168, the implicit one with four of 8 or 40 in 104): `HeapTiled`,
`FreeListExact`, `DriverSatisfied`, `ImplementsBlockHeap`, and `StaleNeverRead`:
what a call does never depends on words the allocator did not write for itself,
so the later evaluations measure the layout that the first one found valid. Five
small blocks are the least with three free blocks that do not touch, so a block
can leave the middle of the free list. With tags the blocks have 32 and 48 bytes,
so what is left of a free block may be nothing, too little for a free block (16
bytes), just enough or more. There may be any number of traces; only a
trace with at most `MaxStale` bytes of heap is evaluated again. **Run
`block_heap`** checks the abstract heap itself: `Tiling`, `UsedBlocksStay`.

## Address sanitizer

`MyAsan` models `malloc`, `free`, the handler of SIGSEGV and the leak check at
exit. State: `current_page`, the header at each page, the protection of each
page, the allocations made (ghost) and the buffer that `printf` allocates through
this same `malloc`. The program is any sequence of allocations, frees of any
address, accesses to any address, output, and `exit`. Reports allocate too, so a
report on a full heap faults again.

**Run `asan`** (eight pages of two bytes; sizes 0, 1, 3 and 4, so payloads that
are empty, that fill and that do not fill a page; every address from a page
before the heap to its end): `ProtectionExact`, `MisuseCaught`, `FreeExact`,
`ExitExact`, which also says what becomes of a heap that is full to its last page.

## WeensyOS

`PhysMem` is `pages[]` with `kalloc` and the reserved addresses; `VMIter` the two
iterators of `k-vmiter.cc` as records and operators, with `try_map`. Entries hold
an address and permissions. **Run `page_walk`** moves an iterator over tables of
four levels while `memory_map` calls change them, until there is no memory for a
table: `MoveExact`, `RangePermExact`, `VisitsEachTableOnce`,
and `ImplementsAddressSpace`, the refinement of a plain function from addresses
to pages (`AddressSpace`).

`Kernel` is `kernel.c` with its entry and exit paths, and `WeensyOS` the machine:
the accounting of `k-memviewer.cc`, the program of `p-allocator.cc` one statement
at a time, the first calls of `p-fork.cc`, the timer, page faults and the keyboard. The whole state is one record `k`; a kernel entry is one step,
since interrupts are off in the kernel. `memshow`, which allocates a page for the
viewer, is part of every entry.

**Run `weensyos`** (two allocators, one of which may use a null pointer; 26 pages;
keys that reboot into the allocators or into fork, or switch off): `OnlyFaultyFail`,
`PagesAccounted`, `MemoryIntact`, `EveryoneRuns`. Both memory and address space run out. A
reboot happens in any state, that after a panic included.

The page tables have four levels in `page_walk` and two in `weensyos`, where a
level has 24 entries: as on the real machine the heap begins in one table and
ends in the next.

*Fairness.* The timer interrupts again and again (`TimerTicks`), since hardware
drives it. No process has to yield and no key has to be typed.

### The machine around the kernel

`Machine` is what the user of WeensyOS sees, with memory and processes left to
the modules above. `Console` is `printer::vprintf` and `vsnprintf`, directive by
directive with flags, width, precision and argument, and the
`console_printer` with scrolling and colors; `Keyboard` the two key tables and
`keyboard_readc`; `Boot` the loader on a disk of sectors, and the copy of the data
segment from which a soft reboot restarts. A session, chosen at the start, says
which of this goes on:

- *boot*: `boot`, `LoadSegment`, `JumpToKernel` and `kernel_start`, for kernel files
  whose segment begins and ends anywhere in a sector, and for one without the
  magic number;
- *keys*: keys are pressed and released, their bytes arrive one at a time
  (`ByteArrives`), and the kernel polls in between, in `check_keyboard` at every
  entry and for every empty place of the process table in `schedule`; a key may
  reboot the kernel or turn the machine off;
- *screen*: processes print, one character a step (`PutNext`), are preempted
  between any two by the timer, by the memory viewer or by a fault message of the
  kernel, and fail assertions, which ends in `sys_panic`;
- *format*: `snprintf` with every directive, argument and buffer size;
- *panic*: `vpanic` and `assert_fail` of the kernel on good and on damaged stacks,
  with a backtrace of one frame a step, and `fail`, which waits for a key. Where
  the return address of a frame is not mapped the backtrace faults, and the kernel
  panics in the panic (`KernelPageFault`). The frames of the handler, which come
  first in the second backtrace, and the end of the kernel's stack are left out.

**Run `machine`** checks `KernelPristine`, `KeysRight`, `ScreenRight`,
`SnprintfRight` and `BacktraceRight`. The console has 4 rows of 2 columns, so two
calls wrap and scroll; two processes in three places of the table are the least
for which one prints into the other's text and one place is empty; eight keys
have every kind of table entry (letters, another character under shift, an
escape byte, modifiers, two keys of one modifier, Caps Lock). Ints have 4 bits
and longs 6, so both signs and both lengths differ; sectors have 4 bytes, so
segments share one with their neighbours. `MaxCalls`, `MaxBytes` and `MaxHeld`
bound the calls of `console_printf` of a process, the bytes under way and the
keys that are down. `MaxBytes` is the longest sequence one key sends (an arrow with shift held).

A character is put in one step. A real interrupt may come inside the loop of a
newline or a scroll, but then the interrupting text is written into the same
cells, and of the text of a call that was printed into `ScreenRight` says nothing.
Caps Lock is not held down, since it would toggle with each repetition. No fairness
is assumed: `BacktraceRight` itself says that `rbp` grows, so a backtrace ends,
if only in a fault. It also says where that can be: `check` has the two words of
a frame looked up by `range_perm(16)`, which sees the page of the first only, and
keeps them apart at the top of the stack's page but not beyond.
Deadlock is not an error, since the machine may be off or hang after a failed
boot. `TICK_LIMIT`, 0 in the ordinary build, is left out.

## TeenyJVM

`JVM` has one action for each instruction handler of `jvm.c`, on a stack of calls
of `execute`; `ClassFile` has what `read_class.c` asserts and builds. Loads and
stores outside an array, the stack or the locals end in state `asan`, as the
sanitized build of the Makefile would. `JavaMachine` is the reference: operands
with their types, checked arrays, exceptions, and `Verified`, what the verifier of
Java guarantees of code. `TeenyJVM` lets both execute the same program. The
program is not fixed: an instruction is chosen when execution first reaches an
address, so all programs up to a size are tried and none has dead code.

**Run `jvm`** has three kinds of programs (`MCKits`): five instructions of
arithmetic and output; five of jumps and locals, up to twelve steps; eight of
calls and arrays, up to three frames. Integers have 16 bits, the width of the
operand of `sipush`. Properties: `Lockstep`, which includes that both end
together, with the two exceptions it names: SIGFPE for the least integer divided
by -1 (`LeastByMinusOne`), and exit code 1 for an instruction that `jvm.h` does
not name (`Unnamed`); and `AssertsExactly` over eleven class files that are wrong
in one place.

## TeenyBASIC

`BasicParser` is the recursive descent of `parser.c` over tokens, `BasicCompiler`
the code that `compile_ast` emits, with folding in place as the code does it.
`BasicSemantics` is the reference: the meaning of a program and its text.
`TeenyBasic` parses, compiles, and executes the result on a model of the
processor, in which `print_int` clobbers the registers that it may.

**Run `basic`**: all expressions of two levels, and IF, ELSE and WHILE in and after
one another, and texts of up to `MAX_DAMAGED` tokens with one token left out or one
put in: `ParsesRight`, `PrintsRight`, `CodeSound`, `EndsToo`. `ParsesRight` names the
two damaged texts that the parser accepts, a condition without its operator and an
ELSE branch that cannot be parsed and is dropped. Such a program has no meaning to
compare with; its code is executed for `MAX_STEPS_DAMAGED` steps, for `CodeSound`.
Numbers have 4 bits, so overflow happens. `FUEL` bounds the loops of the reference
and `MAX_STEPS` the execution. Expressions of which folding replaces a part are
given to LET, which does not fold. **Run `basic_fold`** finds what happens to them in PRINT: folding
stores into a node that the tree keeps using, and `PRINT 1 + 2 + A` prints
`5 + A`.

*Fairness.* The processor executes the next instruction (`WF_vars(Execute)`).

## FAT16 recovery

`Recover` is `recover.c`: the position of the open disk and the stack of calls of
`follow` are state, one step reads one entry; then the tree is printed, created
and freed. A file's contents are the place on the disk it was read from.
`DirectoryTree` holds the operations on the tree.

**Run `recover`**: all disks with three entries in the root, directories in one
another, deleted and hidden entries, and an empty file: `RecoversAll` (which
includes that each node is freed once) and `ListingMatches` (which includes that directories are sorted).
Deleted entries lose their first letter, so two may have one path; the
properties say exactly what happens then. The assertion in `follow_file` fails if
there is an empty file to read, and only then. `STACK_DEPTH` stands for the C stack: a
search that goes round in circles would exceed it.

## What is proved

All proofs are for every value of the constants that satisfies the module's
`ASSUME`s, which TLC evaluates in the runs.

- **`QueueProofs`**, from `QueueConstants` (dummy nodes and `Junk` are told from
  nodes, finitely many threads): `QueueTypeCorrect`, `QueueMutualExclusion`,
  `QueueListIntact`, `QueueNoLostWakeup`, `QueueImplementsFifo`, for any number of
  threads and nodes that call any operation in any order. `ListIntact` speaks of
  moments when the mutex is free, so it is not inductive. `QueueInv` adds
  `Shape`: for every place where the owner of the mutex may be, which links are
  already changed. It also adds `Blocked`, which relates each waiting thread to
  its program counter. `NoLostWakeup` is inductive relative to
  `QueueInv`, by counting the threads on their way to an item.
- **`ThreadPoolProofs`**, on top of `QueueProofs`: `FinishLeavesNothing`,
  `PoolListIntact`, `PoolNoLostWakeup` and `PoolQueueIsFifo`, and
  **`WorkPoolProofs`** on top of it: the refinement `PoolIsWorkPool` and all five
  together, `PoolCorrect`, for any number of workers and any work.
  They are stated for `AnyClient`, which starts as the pool does and takes only
  steps of the pool, so that each client gets them by showing that its own steps
  are such steps. `FinishIsClean` speaks of the end only. `IInv` is
  `QueueInv` and `PoolInv` until the pool is freed: where each thread is in the
  pool's functions and in the queue's (`Control`); work that is added and not done
  is on its way to the queue, in it or in one worker's hands, in one place only
  (`Work`); no work comes behind a NULL (`PillsLast`); and each NULL that was sent
  is on its way, in the queue, or has stopped a worker (`PillsCounted`). At the
  last join all `NumWorkers` NULLs have stopped a worker, so the queue is empty.
  The refinement maps the queue of `WorkPool` to the work in the items before the
  first NULL; `NullsAtTheEnd` finds that NULL.
- **`PasswordCrackerProofs`**: `CrackerPoolCorrect`, the five results above for the
  cracker as the client, and `PrintsOnlyPasswords`: what `hashes_match` prints is
  the password of a hash that `main` read. The assumption `CrackerConstants` says
  that no work of the cracker adds other work.
- **`BlockHeapProofs`**: `HeapTiling`, `HeapUsedBlocksStay`, for
  any limit and any block sizes that are multiples of 16. The invariant is
  `Good(s)` (boundaries and uses fit) and, unless joins are deferred, `Apart(s)`.
  Joining is a choice of the least and greatest boundary around a block, for which
  the lemmas show that they exist.
- **`MyAsanProofs`**: `HeapOrdered`, `HeapProtected`, `MisuseIsCaught`,
  `FreeIsExact`, `ExitIsExact`, for any page size and number of pages. The invariant
  joins types, `Placed` (each allocation lies below `current_page`), `HeadersTrue`
  (each header tells the allocation behind it), `AllocationsOrdered` and
  `ProtectionExact`. `MisuseCaught` follows from it by arithmetic on pages. The
  leak check at exit walks from header to header, a recursive function. `WalkInv`
  adds that the allocations leave no gap (`Chain`) and that no other page looks
  allocated, so the walk meets each allocation once. That the recursive function
  exists and gives the first leak follows from the least number for which it
  would not (`LeastNat`), since induction itself is not available.
- **`MachineProofs`**: `KernelStartsPristine`, `BacktraceIsRight` and
  `KeysAreRight`, each with an invariant of its own. `BootInv`: while the kernel
  runs its text is as loaded and its data is in the stash. It assumes
  `FilesLoadable`: one segment per file, as `build/kernel.ld` makes it, with bss
  behind data. `TraceInv`: the frames shown so far are right and the backtracer is
  at the next one, which `check` has let pass and which is above `rsp`. From this,
and from the arithmetic of pages (`NextWord`, `AboveTop`), follows where the return
address may be unmapped. It assumes `StacksReadable` and `SymtabSorted`.
  The binary search of `lookup_symbol` is a recursive function, treated as the walk
  above. `KbdInv`: the modifiers in `keyboard_readc` are the ones the user means,
  and the bytes on their way are whole keys behind the byte last read. It assumes
  `KeysLabelled`.

The symbol table may hold several symbols at one address: `mkchickadeesymtab`
sorts by address and then by size and keeps ties. There the search may
miss the symbol it is on, so `BacktraceRight` lets it find no name where another
symbol starts at the very address (`AnotherStarts`), and only there.

Only model-checked:

- Liveness (`FinishReturns`, `WorkIsPerformed`, `EveryoneRuns`, `EndsToo`), which is
  out of the prover's reach.
- The parser, the compiler and its references, `Recover`, the page table iterators,
  and with them `PageWalk`, `Kernel` and `WeensyOS`: they are recursive operators,
  in whose modules the prover has no arithmetic.
- `PasswordsFound`: that each password is printed depends on dictionaries and
  digits without duplicates, and on the memory `form_word` gets.
- `SnprintfRight`, `ScreenRight`, and of the JVM `Lockstep` and `AssertsExactly`: what
  folds over digits and bits compute needs induction over data.
- `HeapTiled`, `FreeListExact`, `StaleNeverRead`, `DriverSatisfied` and the refinement of
  `BlockHeap` by the two allocators: the proofs would have to follow tags and links
  through memory, which is not done.

`AllocationsOrdered` is proved only: no run lists it, since
`ProtectionExact` and `FreeExact` say more.

## Known divergences

Two are runs with an expected violation (`recursive_test`, `basic_fold`). The
others were met while translating the source. The models contain these
behaviours, and the properties of the passing runs are stated up to them. In the
rows marked (*) the code is modelled, but no run has the input that shows it; in
those marked (-) it is in a part that is left out.

| Where | What the code does | What a doc or test says |
|---|---|---|
| `mm-explicit.c:292`, `mm-implicit.c:193` | `mm_realloc` on a full heap copies to NULL and dies (`DriverSatisfied` says: only then) | `mdriver.c:839` expects NULL |
| `mm-explicit.c:225` (*) | a block of zero bytes is smaller than a free block; freeing it writes over the next header | `mm-explicit.c:260` "Releases a block to be reused" |
| `mm-implicit.c:66` | the first `mm_malloc` loads a header through NULL | `mm-implicit.c:124` "Allocates a block with the given size" |
| `mdriver.c:513` | `add_range` accepts a payload that contains another | `mdriver.c:511` "must not overlap any other payloads" |
| `myasan.c:136` (*) | the upper bound of the heap is in the wrong unit, so `free` of a pointer behind it ends as a segmentation fault, exit code 10 | `hello_invalid_free7.c` expects 20 |
| `myasan.c:75` | the leak check reads one header past a heap that is full to the last page, and the process is killed (`ExitExact` says: only then) | `hello_malloc_free.c` expects 0 |
| `k-vmiter.cc:8` | `range_perm` of a short range that crosses a page looks at one page only, so that a backtrace may fault (`BacktraceRight` says where) | `k-vmiter.hh:39` "intersection of permissions" |
| `kernel.c:322` | fork and exit are unknown system calls and panic the kernel | `u-lib.hh:104` promises a return |
| `kernel.c:342` | `sys_page_alloc` over a page never frees the old one | `u-lib.hh:93` "should be freed" |
| `jvm.c:188` | division by zero gives 0, the remainder the negated dividend | Java throws |
| `jvm.c:189` | the least integer divided by -1 kills the interpreter (`Lockstep` says: only then) | Java computes the least integer |
| `jvm.c:160` | instructions that `jvm.h` does not name, such as `pop`, end the interpreter | Java executes them |
| `parser.c:267` | an ELSE branch that cannot be parsed is dropped (`ParsesRight` names it) | `compiler.c:60` "Parse error" |
| `parser.c:206` | a condition without operator is accepted (`ParsesRight` names it) | `ast.h:93` "'<', '=', or '>'" |
| `directory_tree.c:59` | two deleted entries may get the same name, and one file is written over the other | `directory_tree.h:41` "duplicates are not permitted" |
| `recover.c:53` | an empty file fails `assert(read == 1)` (`RecoversAll` says: only then) | `recover.h:38` "reads in the file's contents, creates the file" |
| `password_cracker.c:47` | `form_word` appends to memory that is not cleared, so a password may be missed (`PasswordsFound` says: only then); it also allocates a byte too few, and no password is ever freed | `passwords.txt` lists the passwords |
| `lib.cc:354` | a negative precision given by `*` counts as 0, and a negative width does not align to the left | C's printf: as if omitted; as the flag `-` |
| `lib.cc:453` | `%.0d` of 0 prints `0` | C's printf: nothing |
| `u-lib.cc:13` (-) | `panic` of a process looks behind its buffer of 160 bytes if the message does not fit | |
| `k-hardware.cc:712` (-) | the warning of `log_backtrace` has no argument for its `%s` | |
| `k-hardware.cc:643` | of two symbols at one address the search may miss the one it looks at and take the wrong half | `k-hardware.cc:626` "look up `addr`" |
| `k-hardware.cc:530` | releasing one of two shift keys ends the shift; a held Caps Lock (*) toggles again and again; modifiers held over a soft reboot are forgotten | |
| `k-hardware.cc:813` | after an exception the backtrace begins with the `rbp` of the kernel's frame, and may go on into the process's, read through the kernel's page table | |
| `k-hardware.cc:851` | the first frame of a panic without message is printed on the row of `PANIC` | |
| `recover.c:27` | the allocation table is never read, so only files that lie in one piece are recovered whole | |

## Not modelled

- `meltdown` depends on the timing of caches and speculative execution, which no
  model of program states has.
- `threadpool/include/dictionary_words.h` is a list of words, 72,330 of the
  repository's 84,130 lines of source. The cracker is modelled for any dictionary,
  but no definition stands for those lines, so the share of all lines that `map`
  names is small whatever else is modelled.
- The clients in the tests of the queue and the pool, the malloc driver's trace
  files, statistics and timing, the Java and BASIC test programs, and the driver
  of the directory tree: the general clients of the models make their calls.
- Of WeensyOS: segment descriptors, APIC, PCI, the parallel port and the log on
  the host, the registers of the disk, the symbols the memory viewer draws, the
  string routines, `rand` and `strtol`, `assert_memeq_fail`, `panic_at`, which has
  no caller, and the buffer of `panic` in `u-lib.cc`.
- `print_ast`, the measuring of times, and the tools and scripts of the build.

Abstractions that matter: 64-bit products (`mm_calloc`) do not wrap; `malloc` of
the C library does not fail, and the byte that `form_word` writes behind its block
falls into the padding of that block; a class file is a record of values, not
bytes; the text of a BASIC program is a sequence of tokens; names on a disk have
two characters and an extension of one; a kernel file is a record of segments,
its bytes told apart by where they come from.

## Plan

Done: all parts above, with their runs, and the proofs listed. Still to do, in
this order:

1. Prove that `ExplicitMalloc` implements `BlockHeap`. It needs a relation between
   the words of the heap, the blocks of `BlockHeap` and the free list as a
   sequence, which `coalesce` and `place` keep, and then that walking the headers
   gives those blocks back.
2. Prove of `PhysMem` and `Kernel` that pages are accounted for, after replacing
   the recursive operators there by folds or recursive functions.
3. Prove that inserting a child keeps a directory sorted (`DirectoryTree`) and the
   arithmetic on clusters of `Recover`.
