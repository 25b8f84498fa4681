------------------------------- MODULE WeensyOS -------------------------------
(***************************************************************************)
(* The kernel with its processes: the programs of p-allocator.cc and       *)
(* p-fork.cc, timer interrupts, page faults and the keyboard; and          *)
(* k-memviewer.cc: how the memory viewer accounts for every physical page  *)
(* by walking the page tables, and the errors it reports.                  *)
(***************************************************************************)
EXTENDS Kernel, FiniteSets

CONSTANTS
    Allocators,   \* the programs that are started unless the keyboard asks for fork
    Keys,         \* the keys that may be typed: "a", "f", "q"
    Faulty        \* processes whose program may use a null pointer

VARIABLE k

-----------------------------------------------------------------------------
(* k-memviewer.cc.  There is always a process that is not free, so the      *)
(* branch for a kernel without processes is left out.                       *)

Viewed(ks) ==
    {p \in Pids \ {0} : /\ ks.ptable[p].state # "free"
                        /\ ks.ptable[p].pagetable \notin {nullptr, kernel_pagetable[1]}}

\* The pages the loop over a vmiter marks for the user: next and next_range pass
\* over no page that is present (MoveExact of PageWalk).
UserPages(mem, pt) ==
    {pa(mem, it) : it \in {i \in {vmiter(mem, pt, n * PAGESIZE) :
                                      n \in 0 .. (VA_LOWEND \div PAGESIZE) - 1} :
                              {"P", "U"} \subseteq perm(mem, i)}}

TablePages(mem, pt) == ToSet(Visits(mem, pt)) \cup {pt}

\* memusage::refresh: for each process the pages it uses as tables and for itself
refresh(ks) ==
    [kernel |-> TablePages(ks.mem, kernel_pagetable[1]) \cup {ks.viewer},
     tables |-> [p \in Viewed(ks) |-> TablePages(ks.mem, ks.ptable[p].pagetable)],
     user   |-> [p \in Viewed(ks) |-> UserPages(ks.mem, ks.ptable[p].pagetable)]]

\* memusage::symbol_at: whether it reports a page table error for page p
page_error(v, p) ==
    LET tableOf == {i \in DOMAIN v.tables : p \in v.tables[i]}
        userOf == {i \in DOMAIN v.user : p \in v.user[i]}
    IN  /\ p # CONSOLE_ADDR
        /\ IF allocatable_physical_address(p)
           THEN userOf # {} /\ (tableOf # {} \/ p \in v.kernel)
           ELSE userOf # {} \/ tableOf # {}

\* memusage::symbol_at: the page is shown as 'S'
shared_page(v, p) ==
    /\ p # CONSOLE_ADDR
    /\ \E i, j \in DOMAIN v.user : i # j /\ p \in v.user[i] \cup v.tables[i]
                                         /\ p \in v.user[j] \cup v.tables[j]

-----------------------------------------------------------------------------
(* p-allocator.cc.  The registers are those of Kernel plus p, the process ID. *)

HeapStart(image) ==
    LET last == Images[image][Len(Images[image])] IN last.va + last.pages * PAGESIZE

stack_bottom == MEMSIZE_VIRTUAL - PAGESIZE

Running(pc) == k.mode = "run" /\ k.cpu.pc = pc

Jump(pc) == [k EXCEPT !.cpu.pc = pc]

\* A trap into the kernel, after which the program goes on at pc.
Trap(pc, number, arg) == k' = syscall(Jump(pc), number, arg)

GetPid ==
    \E start \in {[pc |-> "start", then |-> "main"], [pc |-> "forker", then |-> "fork"]} :
        Running(start.pc) /\ Trap(start.then, "getpid", 0)

StartMain ==
    /\ Running("main")
    /\ k' = [k EXCEPT !.cpu.pc = "loop", !.cpu.p = k.cpu.rax,
                      !.cpu.top = HeapStart(Allocators[k.current])]

\* rand() decides whether this round allocates.
Loop ==
    /\ Running("loop")
    /\ \E pc \in {"alloc", "yield"} : k' = Jump(pc)

\* Out of address space or memory, a program goes on yielding; compiled with
\* NO_SLOWDOWN it tries again after each.
GiveUp == \E pc \in {"yield", "done"} : k' = Jump(pc)

Alloc ==
    /\ Running("alloc")
    /\ IF k.cpu.top = stack_bottom THEN GiveUp ELSE Trap("write", "page_alloc", k.cpu.top)

Writable(va) ==
    PWU \subseteq perm(k.mem, vmiter(k.mem, k.ptable[k.current].pagetable, va))

\* The program writes to its new page and to the console.
Write ==
    /\ Running("write")
    /\ LET q == Translates(k, k.ptable[k.current].pagetable, k.cpu.top) IN
       IF k.cpu.rax < 0 THEN GiveUp
       ELSE IF ~ Writable(k.cpu.top) \/ ~ Writable(CONSOLE_ADDR) THEN k' = PageFault(k)
       ELSE \E pc \in {"alloc", "yield"} :
                k' = [k EXCEPT !.mem[q] = Bytes("user", k.cpu.p), !.cpu.pc = pc,
                               !.cpu.top = @ + PAGESIZE]

Yield == Running("yield") /\ Trap("loop", "yield", 0)

Idle == Running("done") /\ Trap("done", "yield", 0)

-----------------------------------------------------------------------------
(* Other programs *)

NullPointer ==
    /\ Running("loop") /\ k.current \in Faulty
    /\ k' = IF Writable(nullptr) THEN k ELSE PageFault(k)

\* p-fork.cc begins with getpid and fork; it does not get further.
Fork == Running("fork") /\ Trap("forked", "fork", 0)

-----------------------------------------------------------------------------
TimerInterrupt == k.mode = "run" /\ k' = Timer(k)

Boot == [c \in {"a", "f"} |-> kernel_start(IF c = "f" THEN <<"fork">> ELSE Allocators)]

\* check_keyboard, which every entry to the kernel, schedule() and a panic call.
\* Reaching TICK_LIMIT ends the machine as "q" does.
check_keyboard ==
    /\ k.mode # "off"
    /\ \E c \in Keys : k' = IF c = "q" THEN [PowerOn EXCEPT !.mode = "off"] ELSE Boot[c]

Init == k = Boot["a"]

Process ==
    \/ GetPid \/ StartMain \/ Loop \/ Alloc \/ Write \/ Yield \/ Idle
    \/ NullPointer \/ Fork

Next == Process \/ TimerInterrupt \/ check_keyboard

\* The timer interrupts HZ times a second.  This is WF_k(TimerInterrupt), with
\* its ENABLED spelled out for TLC.
TimerTicks ==
    []<>(k.mode # "run" \/ Timer(k) = k) \/ []<><<TimerInterrupt>>_k

Spec == Init /\ [][Next]_k /\ TimerTicks

-----------------------------------------------------------------------------
Processes == {p \in Pids : k.ptable[p].state # "free"}

\* Nothing but a call of fork, which the kernel does not know, makes it panic:
\* no assertion of check_pagetable, try_map, run or the memory viewer fails and
\* it takes no fault of its own.  And no process takes a page fault but one whose
\* program is wrong.
OnlyFaultyFail ==
    /\ k.mode = "panic" => k.ptable[k.current].regs.pc = "forked"
    /\ \A p \in Processes : k.ptable[p].state = "broken" => p \in Faulty

\* A page is counted once if a process, a page table or the viewer has it, and
\* not at all otherwise: no page is lost and none is handed out twice.  The memory
\* viewer never finds a page of the kernel mapped for a process, nor one that two
\* processes share.
PagesAccounted ==
    LET v == refresh(k) IN
    /\ \A q \in {x \in PAs : allocatable_physical_address(x)} :
          k.pages[q] = Cardinality({p \in DOMAIN v.tables : q \in v.tables[p]})
                     + Cardinality({p \in DOMAIN v.user : q \in v.user[p]})
                     + (IF q = k.viewer THEN 1 ELSE 0)
    /\ \A q \in PAs : ~ page_error(v, q) /\ ~ shared_page(v, q)

Regs(p) == IF p = k.current THEN k.cpu ELSE k.ptable[p].regs

PageAt(p, va) == k.mem[Translates(k, k.ptable[p].pagetable, va)]

ImageOf(p) == IF Regs(p).pc \in {"forker", "fork", "forked"} THEN "fork" ELSE Allocators[p]

\* A process finds in its heap what it wrote there and, in pages it has not yet
\* written, zeroes; its program is as it was loaded.
MemoryIntact ==
    k.mode = "run" => \A p \in Processes : k.ptable[p].state = "runnable" =>
        /\ Regs(p).top # 0 =>
              \A va \in {x \in HeapStart(ImageOf(p)) .. Regs(p).top - 1 : x % PAGESIZE = 0} :
                 PageAt(p, va) = Bytes("user", p)
        /\ Regs(p).pc = "write" /\ Regs(p).rax = 0 => PageAt(p, Regs(p).top) = Bytes("zero", 0)
        /\ \A i \in 1 .. Len(Images[ImageOf(p)]) :
              LET seg == Images[ImageOf(p)][i] IN
              \A j \in 1 .. seg.pages : PageAt(p, seg.va + (j - 1) * PAGESIZE) = Loaded(seg)[j]

\* A runnable process gets the processor again, whatever the others do, unless
\* a reboot or the end of the machine takes it away.
EveryoneRuns ==
    \A p \in Pids :
        k.ptable[p].state = "runnable" ~> k.ptable[p].state # "runnable" \/ k.current = p

==============================================================================
