------------------------------- MODULE PhysMem -------------------------------
(***************************************************************************)
(* Physical memory of mini-operating-system: which pages may be allocated  *)
(* (k-hardware.cc), the page counts of kernel.c and kalloc.  A state is a  *)
(* record s with                                                           *)
(*   s.mem    the contents of each physical page                           *)
(*   s.pages  pages[].refcount                                             *)
(* A page is named by its address.  Its contents are a page table, or      *)
(* bytes of one kind.                                                      *)
(***************************************************************************)
EXTENDS Naturals, Integers

CONSTANTS
    PAGESIZE,
    NPAGES,        \* physical pages
    Reserved,      \* page numbers: the null page and the I/O hole
    KernelImage,   \* page numbers: the kernel's code, data and stack
    Fanout         \* entries of a page table

ASSUME PhysMemAssumption ==
    /\ PAGESIZE \in Nat \ {0} /\ NPAGES \in Nat /\ Fanout \in Nat \ {0, 1}
    /\ 0 \in Reserved

MEMSIZE_PHYSICAL == NPAGES * PAGESIZE

PAs == {n * PAGESIZE : n \in 0 .. NPAGES - 1}

nullptr == 0

reserved_physical_address(pa) == pa \div PAGESIZE \in Reserved

allocatable_physical_address(pa) ==
    /\ ~ reserved_physical_address(pa)
    /\ pa \div PAGESIZE \notin KernelImage
    /\ pa < MEMSIZE_PHYSICAL

-----------------------------------------------------------------------------
(* Page contents *)

\* n tells apart pages of the same kind.
Bytes(kind, n) == [is |-> "bytes", of |-> kind, n |-> n]

\* A page table entry: an address and a set of PTE_P, PTE_W, PTE_U and PTE_PS.
Absent == [pa |-> 0, perm |-> {}]

\* What bytes that are no page table look like as an entry.  0xCC has PTE_U and
\* PTE_PS set, PTE_P clear, and an address beyond 4 GiB.
FourGiB == 1000000
Junk == [pa |-> FourGiB, perm |-> {"U", "PS"}]

Entry(mem, tab, i) ==
    IF tab \notin DOMAIN mem THEN Absent
    ELSE IF mem[tab].is = "table" THEN mem[tab].entry[i]
    ELSE IF mem[tab].of = "zero" THEN Absent ELSE Junk

Entries(mem, tab) ==
    IF mem[tab].is = "table" THEN mem[tab].entry
    ELSE [j \in 0 .. Fanout - 1 |-> Entry(mem, tab, j)]

SetEntry(mem, tab, i, e) ==
    [mem EXCEPT ![tab] = [is |-> "table", entry |-> [Entries(mem, tab) EXCEPT ![i] = e]]]

-----------------------------------------------------------------------------
(* kalloc *)

Free(s) == {pa \in PAs : allocatable_physical_address(pa) /\ s.pages[pa] = 0}

\* variant: the page is handed out but not counted
kalloc_NoCount(s) ==
    IF Free(s) = {} THEN [s |-> s, pa |-> nullptr]
    ELSE LET pa == CHOOSE p \in Free(s) : \A q \in Free(s) : p <= q IN
         [s |-> [s EXCEPT !.mem[pa] = Bytes("cc", 0)], pa |-> pa]

\* The first page that is free, or nullptr.  No caller asks for more than a page.
kalloc(s) ==
    IF Free(s) = {} THEN [s |-> s, pa |-> nullptr]
    ELSE LET pa == CHOOSE p \in Free(s) : \A q \in Free(s) : p <= q IN
         [s |-> [s EXCEPT !.pages[pa] = (@ + 1) % 256, !.mem[pa] = Bytes("cc", 0)],
          pa |-> pa]

memset_zero(s, pa) == [s EXCEPT !.mem[pa] = Bytes("zero", 0)]

\* What kalloc returned, with the page cleared.
Cleared(a) == IF a.pa = nullptr THEN a ELSE [a EXCEPT !.s = memset_zero(@, a.pa)]

kalloc_pagetable(s) == Cleared(kalloc(s))

==============================================================================
