-------------------------------- MODULE Kernel --------------------------------
(***************************************************************************)
(* mini-operating-system/kernel.c and what it calls of k-hardware.cc and   *)
(* k-exception.S.  The kernel runs with interrupts disabled on one         *)
(* processor, so each of its entries is one step.  Its state k is a record *)
(* of                                                                      *)
(*   mem, pages  physical memory and pages[] (PhysMem)                     *)
(*   ptable      for each process its state, page table and saved registers*)
(*   current     the process that runs                                     *)
(*   cpu         its registers                                             *)
(*   viewer      the page of the memory viewer, memusage::v_               *)
(*   mode        "run"; "spin" in schedule(); "panic"; "off"               *)
(* The registers stand for all of a process that is not in its heap pages. *)
(***************************************************************************)
EXTENDS VMIter, SequencesExt

CONSTANTS
    NPROC,
    PROC_START_ADDR,
    MEMSIZE_VIRTUAL,
    CONSOLE_ADDR,
    exception_entry,    \* an address in the kernel's code
    kernel_pagetable,   \* the addresses of the kernel's tables, the root first
    Images,             \* program images by name: sequences of segments
    StartRegs(_)        \* the registers a program starts with

KernelSpace == {"P", "W"}

Pids == 0 .. NPROC - 1

PagesFrom(lo, hi) == [i \in 1 .. (hi - lo) \div PAGESIZE |-> lo + (i - 1) * PAGESIZE]

\* op applied to base and each element of seq in turn.  The singleton sets make
\* TLC finish one step before it begins the next.
EachFrom(op(_, _), base, seq) ==
    LET done[n \in 0 .. Len(seq)] ==
            IF n = 0 THEN base
            ELSE CHOOSE r \in {op(k, seq[n]) : k \in {done[n - 1]}} : TRUE
    IN  done[Len(seq)]

\* The same, a few elements at a time, so that TLC need not nest as many calls.
Each(op(_, _), base, seq) ==
    LET blocks == [i \in 1 .. (Len(seq) + 4) \div 5 |->
                    SubSeq(seq, 5 * i - 4, IF 5 * i < Len(seq) THEN 5 * i ELSE Len(seq))]
    IN  CHOOSE r \in {EachFrom(LAMBDA k, block : EachFrom(op, k, block), b, blocks) : b \in {base}} : TRUE

panic(k) == [k EXCEPT !.mode = "panic"]

-----------------------------------------------------------------------------
(* Page tables *)

\* The kernel's own memory accesses go through kernel_pagetable, where all of
\* physical memory but the null page is mapped to itself.
KernelAccess(p) == p \in PAs \ {nullptr}

\* What a memory_map leaves, its result ignored as by all callers.
Mapped(m) == IF m.r = Asserts THEN panic(m.s) ELSE m.s

Map(k, pt, va, p, prm) ==
    IF k.mode # "run" THEN k
    ELSE IF ~ KernelAccess(pt) THEN panic(k)
    ELSE Mapped(memory_map(k, pt, va, p, prm))

map_to_nobody(k, pt, va) == Map(k, pt, va, va, {})

map_to_kernel_space(k, pt, va) == Map(k, pt, va, va, KernelSpace)
map_to_user_space(k, pt, va) == Map(k, pt, va, va, PWU)

\* memory_foreach with map_to_kernel_space, and the two exceptions to it
ShareKernel(k, pt) ==
    LET all == Each(LAMBDA j, va : map_to_kernel_space(j, pt, va), k,
                        PagesFrom(0, PROC_START_ADDR))
    IN  map_to_user_space(map_to_nobody(all, pt, nullptr), pt, CONSOLE_ADDR)

Translates(k, pt, va) == memory_virtual_to_physical(k, pt, va)

check_pagetable(k, pt) ==
    /\ pt % PAGESIZE = 0
    /\ KernelAccess(pt)
    /\ Translates(k, pt, exception_entry) = exception_entry
    /\ Translates(k, kernel_pagetable[1], pt) = pt
    /\ Translates(k, pt, kernel_pagetable[1]) = kernel_pagetable[1]

-----------------------------------------------------------------------------
(* Processes *)

\* memset and memcpy write the pages from p on, which are consecutive in
\* physical memory whatever the page table says.
Fill(k, p, kinds) ==
    IF k.mode # "run" THEN k
    ELSE IF \E i \in DOMAIN kinds : ~ KernelAccess(p + (i - 1) * PAGESIZE) THEN panic(k)
    ELSE [k EXCEPT !.mem = [q \in PAs |->
            LET i == (q - p) \div PAGESIZE + 1 IN
            IF i \in DOMAIN kinds THEN kinds[i] ELSE k.mem[q]]]

\* What a segment holds once loaded: its data, then zeroes.
Loaded(seg) == [i \in 1 .. seg.pages |-> IF i <= seg.data THEN Bytes("program", i) ELSE Bytes("zero", 0)]

\* A fresh page mapped for the process.
MapFresh(k, pt, va) == LET a == kalloc(k) IN Map(a.s, pt, va, a.pa, PWU)

process_setup(k, pid, image) ==
    LET a == kalloc_pagetable(k)
        pt == a.pa
        stack == MEMSIZE_VIRTUAL - PAGESIZE
        mapped == Each(LAMBDA j, seg :
                    Each(LAMBDA i, va : MapFresh(i, pt, va), j,
                             PagesFrom(seg.va, seg.va + seg.pages * PAGESIZE)),
                    ShareKernel(a.s, pt), Images[image])
        loaded == Each(LAMBDA j, seg : Fill(j, Translates(j, pt, seg.va), Loaded(seg)),
                    mapped, Images[image])
        k4 == MapFresh(loaded, pt, stack)
    IN  [k4 EXCEPT !.ptable[pid] = [state |-> "runnable", pagetable |-> pt, regs |-> StartRegs(image)]]

Dead == [pc |-> "none", top |-> 0, rax |-> 0, p |-> 0]

\* The saved registers are copied to the processor and not read there again
\* before exception() or syscall() has replaced them.
run(k, pid) ==
    IF k.mode # "run" THEN k
    ELSE IF k.ptable[pid].state # "runnable" \/ ~ check_pagetable(k, k.ptable[pid].pagetable)
    THEN panic(k)
    ELSE [k EXCEPT !.current = pid, !.cpu = k.ptable[pid].regs, !.ptable[pid].regs = Dead]

\* variant: the search never leaves the process it starts from
schedule_Greedy(k) ==
    LET r == {p \in Pids : k.ptable[p].state = "runnable"} IN
    IF k.mode # "run" THEN k
    ELSE IF r = {} THEN [k EXCEPT !.mode = "spin"]
    ELSE IF k.current \in r THEN run(k, k.current)
    ELSE run(k, CHOOSE p \in r : TRUE)

\* The next runnable process after the current one; the current one comes last.
schedule(k) ==
    LET r == {d \in 1 .. NPROC : k.ptable[(k.current + d) % NPROC].state = "runnable"} IN
    IF k.mode # "run" THEN k
    ELSE IF r = {} THEN [k EXCEPT !.mode = "spin"]
    ELSE run(k, (k.current + (CHOOSE d \in r : \A e \in r : d <= e)) % NPROC)

-----------------------------------------------------------------------------
(* Boot *)

\* init_kernel_memory: the tables are linked by hand and map physical memory.
KernelTables(mem) ==
    LET clear == [q \in PAs |-> IF q \in Range(kernel_pagetable) THEN Bytes("zero", 0) ELSE mem[q]]
        link(m, i) == SetEntry(m, kernel_pagetable[1], i - 2, [pa |-> kernel_pagetable[i], perm |-> PWU])
    IN  Each(link, clear, [i \in 1 .. Len(kernel_pagetable) - 1 |-> i + 1])

NoProcess == [state |-> "free", pagetable |-> nullptr, regs |-> Dead]

\* What memory holds before the boot, and after a soft reboot in the pages that
\* are free again, is not known; kalloc overwrites it.
PowerOn ==
    [mem |-> KernelTables([q \in PAs |-> Bytes("cc", 0)]), pages |-> [q \in PAs |-> 0],
     ptable |-> [p \in Pids |-> NoProcess], current |-> 0, cpu |-> Dead,
     viewer |-> nullptr, mode |-> "run"]

\* images: the programs of processes 1, 2, ...
kernel_start(images) ==
    LET pt == kernel_pagetable[1]
        k1 == Each(LAMBDA j, va : Map(j, pt, va, va, PWU), PowerOn,
                       PagesFrom(PAGESIZE, MEMSIZE_PHYSICAL))
        k2 == Each(LAMBDA j, pid : process_setup(j, pid, images[pid]), ShareKernel(k1, pt),
                       [i \in 1 .. Len(images) |-> i])
    IN  run(k2, 1)

-----------------------------------------------------------------------------
(* Entries to the kernel *)

\* memshow: the viewer takes a page the first time.
memshow(k) ==
    IF k.ptable[0].state # "free" THEN panic(k)
    ELSE IF k.viewer # nullptr THEN k
    ELSE LET a == kalloc(k) IN
         IF a.pa = nullptr THEN panic(k) ELSE [a.s EXCEPT !.viewer = a.pa]

\* exception() and syscall() save the registers first.
Enter(k) == memshow([k EXCEPT !.ptable[k.current].regs = k.cpu, !.cpu = Dead])

Timer(k) == schedule(Enter(k))

\* variant: another process takes the blame
PageFault_AfterSwitch(k) ==
    LET j == schedule(Enter(k)) IN [j EXCEPT !.ptable[j.current].state = "broken"]

\* A page fault of a process; one of the kernel is a panic.
PageFault(k) == schedule([Enter(k) EXCEPT !.ptable[k.current].state = "broken"])

\* syscall returns to the process with its registers as they were but for rax.
Return(k, rax) ==
    IF k.mode # "run" THEN k
    ELSE IF k.ptable[k.current].state # "runnable" THEN panic(k)
    ELSE [k EXCEPT !.cpu = [k.ptable[k.current].regs EXCEPT !.rax = rax],
                   !.ptable[k.current].regs = Dead]

\* variant: the new page is not cleared
ClearPage_Not(k, pt, addr) == k

ClearPage(k, pt, addr) == Fill(k, Translates(k, pt, addr), <<Bytes("zero", 0)>>)

\* a: what kalloc returned
GivePage(a, pt, addr) ==
    IF a.pa = nullptr THEN Return(a.s, -1)
    ELSE Return(ClearPage(Map(a.s, pt, addr, a.pa, PWU), pt, addr), 0)

syscall_page_alloc(k, addr) == GivePage(kalloc(k), k.ptable[k.current].pagetable, addr)

\* SYSCALL_FORK and SYSCALL_EXIT are not among the cases.
Dispatch(k, rax, rdi) ==
    IF k.mode # "run" THEN k
    ELSE CASE rax = "getpid" -> Return(k, k.current)
           [] rax = "yield" -> schedule([k EXCEPT !.ptable[k.current].regs.rax = 0])
           [] rax = "page_alloc" -> syscall_page_alloc(k, rdi)
           [] OTHER -> panic(k)

syscall(k, rax, rdi) == Dispatch(Enter(k), rax, rdi)

==============================================================================
