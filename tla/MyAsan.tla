-------------------------------- MODULE MyAsan --------------------------------
(***************************************************************************)
(* signal-handler/myasan.c with the reports of util.c: malloc and free     *)
(* that give each allocation pages of its own behind a header page no      *)
(* program may touch, the handler of SIGSEGV and the check for leaks at    *)
(* exit, under a program that may use them wrongly.                        *)
(*                                                                         *)
(* Pages are numbered and addresses counted from START_PAGE, so that NULL  *)
(* is negative.  Of a page's bytes only those a header has are kept; a     *)
(* program's own data is taken never to look like HEADER_MAGIC.            *)
(***************************************************************************)
EXTENDS Integers, FiniteSets

CONSTANTS
    PAGE_SIZE,
    MAX_PAGES,     \* MAX_HEAP_SIZE in pages
    START_PAGE,
    Sizes,         \* the sizes that are asked for
    Addresses,     \* the addresses that are freed and accessed
    BUFSIZ,        \* of stdout's buffer
    LINES          \* bytes of the array that backtrace_symbols allocates

ASSUME AsanAssumption ==
    /\ PAGE_SIZE \in Nat \ {0} /\ MAX_PAGES \in Nat \ {0} /\ START_PAGE \in Nat \ {0}
    /\ Sizes \subseteq Nat /\ Addresses \subseteq Int
    /\ BUFSIZ \in Nat /\ LINES \in Nat

VARIABLES
    is_initialized,
    current_page,
    page,        \* the header that the bytes of each page of the heap make
    prot,        \* whether a page may be read and written
    stdoutBuf,   \* the buffer of stdout, if malloc was asked for one
    status,      \* Running, or what the process exited with
    allocs       \* all allocations so far: page of the header, size, and whether live

vars == <<is_initialized, current_page, page, prot, stdoutBuf, status, allocs>>

NULL == -START_PAGE

Heap == 0 .. MAX_PAGES - 1

\* util.c; Killed is the exit status of a process that dies of SIGSEGV.
Running == -1
SEG_FAULT == 10
INVALID_HEAP_ACCESS == 11
INVALID_FREE == 20
DOUBLE_FREE == 21
MEMORY_LEAK == 30
Killed == 139

-----------------------------------------------------------------------------
pages_round_up(size) == (size + PAGE_SIZE - 1) \div PAGE_SIZE

\* variant: the payload begins at the first byte after the header page
get_payload_AtStart(header, size) == (header + 1) * PAGE_SIZE

\* The payload ends where its last page ends.
get_payload(header, size) == (header + 1 + pages_round_up(size)) * PAGE_SIZE - size

Header(size, is_allocated) == [magic |-> TRUE, size |-> size, is_allocated |-> is_allocated]

NoHeader == [magic |-> FALSE, size |-> 0, is_allocated |-> FALSE]

mprotect(pr, first, n, rw) ==
    [p \in Heap |-> IF first <= p /\ p < first + n THEN rw ELSE pr[p]]

\* The report_ functions exit with their code once print_backtrace is done.
\* That allocates, and a fault there is the second one: it comes while the
\* first is handled or leads to one that does.
Report(code, current) ==
    IF current + pages_round_up(LINES) \in Heap THEN code ELSE Killed

sigsegv_handler(addr, current) ==
    IF 0 <= addr /\ addr < (current + 1) * PAGE_SIZE
    THEN Report(INVALID_HEAP_ACCESS, current)
    ELSE Report(SEG_FAULT, current)

-----------------------------------------------------------------------------
Init ==
    /\ is_initialized = FALSE
    /\ current_page = 0
    /\ page = [p \in Heap |-> NoHeader]
    /\ prot = [p \in Heap |-> FALSE]
    /\ stdoutBuf = NULL
    /\ status = Running
    /\ allocs = {}

\* The process is over.
Exit(code) ==
    /\ status' = code
    /\ UNCHANGED <<is_initialized, current_page, page, prot, stdoutBuf, allocs>>

\* The body of malloc.  Where the heap ends is not checked: mprotect fails, and
\* the write to the header page raises SIGSEGV.
Allocate(size) ==
    /\ is_initialized' = TRUE
    /\ IF current_page \in Heap
       THEN /\ page' = [page EXCEPT ![current_page] = Header(size, TRUE)]
            /\ prot' = mprotect(prot, current_page + 1, pages_round_up(size), TRUE)
            /\ current_page' = current_page + 1 + pages_round_up(size)
            /\ allocs' = allocs \cup {[head |-> current_page, size |-> size, live |-> TRUE]}
            /\ UNCHANGED status
       ELSE /\ status' = sigsegv_handler(current_page * PAGE_SIZE, current_page)
            /\ UNCHANGED <<page, prot, current_page, allocs>>

malloc(size) ==
    /\ status = Running
    /\ Allocate(size)
    /\ UNCHANGED stdoutBuf

\* libc: a program's first output allocates the buffer of stdout, unless
\* asan_init was there before and made stdout unbuffered.
printf ==
    /\ status = Running
    /\ ~ is_initialized
    /\ Allocate(BUFSIZ)
    /\ stdoutBuf' = get_payload(current_page, BUFSIZ)

\* variant: the pages of the payload stay open
Release_KeepsPages(header) ==
    /\ page' = [page EXCEPT ![header] = Header(@.size, FALSE)]
    /\ prot' = mprotect(prot, header, 1, FALSE)
    /\ allocs' = {IF a.head = header THEN [a EXCEPT !.live = FALSE] ELSE a : a \in allocs}
    /\ UNCHANGED <<current_page, stdoutBuf, status>>

Release(header) ==
    /\ page' = [page EXCEPT ![header] = Header(@.size, FALSE)]
    /\ prot' = mprotect(prot, header, 1 + pages_round_up(page[header].size), FALSE)
    /\ allocs' = {IF a.head = header THEN [a EXCEPT !.live = FALSE] ELSE a : a \in allocs}
    /\ UNCHANGED <<current_page, stdoutBuf, status>>

\* variant: any pointer into the first page is taken
free_check_MagicOnly(ptr) ==
    LET header == ptr \div PAGE_SIZE - 1 IN
    IF ptr < PAGE_SIZE \/ header \notin Heap THEN Report(INVALID_FREE, current_page)
    ELSE IF ~ page[header].magic THEN Report(INVALID_FREE, current_page)
    ELSE IF ~ page[header].is_allocated THEN Report(DOUBLE_FREE, current_page)
    ELSE 0

\* What free() finds: 0 is an allocation to release, the others are errors.
free_check(ptr) ==
    LET header == ptr \div PAGE_SIZE - 1 IN
    IF ptr < PAGE_SIZE \/ ptr > MAX_PAGES * PAGE_SIZE * PAGE_SIZE
    THEN Report(INVALID_FREE, current_page)
    ELSE IF header \notin Heap THEN sigsegv_handler(header * PAGE_SIZE, current_page)
    ELSE IF ~ page[header].magic \/ get_payload(header, page[header].size) # ptr
    THEN Report(INVALID_FREE, current_page)
    ELSE IF ~ page[header].is_allocated THEN Report(DOUBLE_FREE, current_page)
    ELSE 0

\* A program has no pointer to the buffer of stdout.
free(ptr) ==
    /\ status = Running
    /\ is_initialized' = TRUE
    /\ ptr # NULL => ptr # stdoutBuf
    /\ IF ptr = NULL
       THEN UNCHANGED <<current_page, page, prot, stdoutBuf, status, allocs>>
       ELSE IF free_check(ptr) = 0 THEN Release(ptr \div PAGE_SIZE - 1)
       ELSE /\ status' = free_check(ptr)
            /\ UNCHANGED <<current_page, page, prot, stdoutBuf, allocs>>

\* variant: the buffer of stdout is not given back first
fclose_Nothing(pg) == pg

\* fclose(stdout) frees its buffer.
fclose(pg) ==
    [p \in Heap |-> IF stdoutBuf # NULL /\ p = stdoutBuf \div PAGE_SIZE - 1
                    THEN Header(pg[p].size, FALSE) ELSE pg[p]]

\* The loop looks at one more header before it finds that it has passed the last.
check_for_leaks(pg) ==
    LET at[p \in Nat] ==
            IF p \notin Heap THEN sigsegv_handler(p * PAGE_SIZE, current_page)
            ELSE IF pg[p].is_allocated THEN MEMORY_LEAK
            ELSE IF p < current_page THEN at[p + 1 + pages_round_up(pg[p].size)]
            ELSE 0
    IN  IF current_page = 0 THEN 0 ELSE at[0]

\* The program ends; atexit runs check_for_leaks if asan_init was called.
exit ==
    /\ status = Running
    /\ Exit(IF is_initialized THEN check_for_leaks(fclose(page)) ELSE 0)

Accessible(addr) ==
    LET p == addr \div PAGE_SIZE IN p \in Heap /\ prot[p]

\* A read or write of one byte in the heap or where nothing is mapped.  Before
\* asan_init there is no handler.
access(addr) ==
    /\ status = Running
    /\ IF Accessible(addr) THEN UNCHANGED vars
       ELSE Exit(IF is_initialized THEN sigsegv_handler(addr, current_page) ELSE Killed)

Next ==
    \/ \E size \in Sizes : malloc(size)
    \/ printf
    \/ \E ptr \in Addresses : free(ptr)
    \/ \E addr \in Addresses : access(addr)
    \/ exit

Spec == Init /\ [][Next]_vars

-----------------------------------------------------------------------------
PagesOf(a) == a.head + 1 .. a.head + pages_round_up(a.size)

Pointer(a) == get_payload(a.head, a.size)

\* An allocation begins after all earlier ones have ended, with at least a page
\* in between: the assertion of run_malloc in tests/malloc_driver.h.
AllocationsOrdered ==
    \A a, b \in allocs : a.head < b.head => a.head + pages_round_up(a.size) < b.head

\* The program may touch the pages of its live allocations and no others.
ProtectionExact ==
    \A p \in Heap : prot[p] <=> \E a \in allocs : a.live /\ p \in PagesOf(a)

InHeap(addr) == addr \div PAGE_SIZE \in Heap

\* Every byte of a live allocation can be used; the byte after the last of any
\* allocation, its header and everything in it once it is freed cannot.
MisuseCaught ==
    \A a \in allocs :
        /\ \A i \in 0 .. a.size - 1 :
              InHeap(Pointer(a) + i) => (Accessible(Pointer(a) + i) <=> a.live)
        /\ ~ Accessible(Pointer(a) + a.size)
        /\ \A i \in 0 .. PAGE_SIZE - 1 : ~ Accessible(a.head * PAGE_SIZE + i)

Room == current_page + pages_round_up(LINES) \in Heap

\* What free() ought to do: NULL is nothing, an allocation is released once.
Verdict(ptr) ==
    IF ptr = NULL \/ \E a \in allocs : a.live /\ Pointer(a) = ptr THEN Running
    ELSE IF \E a \in allocs : Pointer(a) = ptr THEN DOUBLE_FREE
    ELSE INVALID_FREE

\* free() accepts exactly the live allocations and tells a double free from an
\* invalid one, for every address up to the end of the heap.
FreeExact ==
    [][\A ptr \in Addresses : ptr < MAX_PAGES * PAGE_SIZE /\ free(ptr) /\ Room =>
        /\ status' = Verdict(ptr)
        /\ \A a \in allocs : a.live /\ Pointer(a) # ptr => a \in allocs']_vars

Leaks == \E a \in allocs : a.live /\ Pointer(a) # stdoutBuf

\* A program that ends is told of a leak exactly if it has one, also if stdout
\* had a buffer.  Only where the heap is full to the last page one without a leak
\* is killed: the loop of check_for_leaks reads a header behind the heap.
ExitExact ==
    [][exit => status' = IF Leaks THEN MEMORY_LEAK
                         ELSE IF current_page \in Heap THEN 0 ELSE Killed]_vars

-----------------------------------------------------------------------------
\* Addresses for the model checker: NULL, a page before the heap, and the heap.
NearHeap == {NULL} \cup (-PAGE_SIZE .. MAX_PAGES * PAGE_SIZE - 1)

==============================================================================
