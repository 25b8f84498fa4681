---------------------------- MODULE MallocDriver ----------------------------
(***************************************************************************)
(* The two programs the trace driver is linked into, bin/mdriver-explicit  *)
(* and bin/mdriver-implicit.  Which one runs is chosen at the start.       *)
(***************************************************************************)
EXTENDS Integers, FiniteSets

CONSTANTS
    MaxStale,
    \* MAX_HEAP, Ids and Sizes of MDriver for each of the two programs
    ExplicitHeap, ExplicitIds, ExplicitSizes,
    ImplicitHeap, ImplicitIds, ImplicitSizes

VARIABLES h, blocks, verdict, phase, usage,
    view    \* auxiliary: the blocks that the tags in h describe

vars == <<h, blocks, verdict, phase, usage, view>>

E == INSTANCE ExplicitMalloc WITH MAX_HEAP <- ExplicitHeap
I == INSTANCE ImplicitMalloc WITH MAX_HEAP <- ImplicitHeap

ED == INSTANCE MDriver WITH
    MAX_HEAP <- ExplicitHeap, Ids <- ExplicitIds, Sizes <- ExplicitSizes,
    mm_init <- E!mm_init, mm_malloc <- E!mm_malloc,
    mm_free <- E!mm_free, mm_realloc <- E!mm_realloc, mm_calloc <- E!mm_calloc
ID == INSTANCE MDriver WITH
    MAX_HEAP <- ImplicitHeap, Ids <- ImplicitIds, Sizes <- ImplicitSizes,
    mm_init <- I!mm_init, mm_malloc <- I!mm_malloc,
    mm_free <- I!mm_free, mm_realloc <- I!mm_realloc, mm_calloc <- I!mm_calloc

NULL == 0
Lo == E!HeapLo

\* Static storage: the pointers are NULL until mm_init sets them.
ExplicitStatics ==
    [list |-> "explicit", mem |-> [a \in E!WordAddrs |-> E!Garbage], brk |-> Lo, fault |-> FALSE,
     heap_first |-> NULL, heap_last |-> NULL, free_first |-> NULL, free_last |-> NULL]

ImplicitStatics(null_load) ==
    [list |-> "implicit", mem |-> [a \in I!WordAddrs |-> I!Garbage], brk |-> Lo, fault |-> FALSE,
     heap_first |-> NULL, heap_last |-> NULL, null_load |-> null_load]

Explicit == h.list = "explicit"
Implicit == h.list = "implicit"

\* A header is the same word for both.
Header(g, b) == IF b \in DOMAIN g.mem THEN g.mem[b] ELSE E!Garbage
SizeOf(g, b) == E!SizeIn(Header(g, b))

\* The blocks met on the way from mm_heap_first to mm_heap_last, each found by
\* the size in the header of the one before it.
HeapBlocks(g) ==
    LET met[n \in 0 .. (g.brk - Lo) \div 16] ==
            IF n = 0 THEN {g.heap_first}
            ELSE LET so_far == met[n - 1]
                 IN  so_far \cup {b + SizeOf(g, b) : b \in so_far \ {NULL, g.heap_last}}
    IN  met[(g.brk - Lo) \div 16] \ {NULL}

View(g) ==
    LET all == HeapBlocks(g) IN
    [brk |-> g.brk, bounds |-> all \cup {g.brk}, used |-> {b \in all : Header(g, b) % 2 = 1}]

Init ==
    /\ \/ ED!DriverInit(ExplicitStatics)
       \/ \E null_load \in BOOLEAN : ID!DriverInit(ImplicitStatics(null_load))
    /\ view = View(h)

Next ==
    /\ \/ Explicit /\ ED!DriverNext
       \/ Implicit /\ ID!DriverNext
    /\ view' = View(h')

Spec == Init /\ [][Next]_vars

-----------------------------------------------------------------------------
Held == {blocks[i].ptr : i \in {j \in DOMAIN blocks : blocks[j].ptr # NULL}}

\* The tags tile the heap: walking the headers from mm_heap_first ends at
\* mm_heap_last, whose end is the break; every footer of the explicit allocator
\* repeats its header; and the allocated blocks are exactly those of the payloads
\* the client holds, so none is lost and none is handed out twice.
HeapTiled ==
    LET all == view.bounds \ {h.brk} IN
    ~ h.fault =>
        /\ all = {} => h.heap_first = NULL /\ h.heap_last = NULL
        /\ all # {} =>
             /\ h.heap_first = Lo + E!Word
             /\ h.heap_last \in all
             /\ h.heap_last + SizeOf(h, h.heap_last) = h.brk
        /\ Explicit => \A b \in all : Header(h, b + SizeOf(h, b) - E!Word) = Header(h, b)
        /\ {E!payload(b) : b \in view.used} = Held

\* The free list of mm-explicit.c is exactly the set of free blocks, each on it
\* once; prev undoes next everywhere but at the first block, whose prev is never
\* read; and mm_free_last is its last block.
FreeListExact ==
    LET free == view.bounds \ ({h.brk} \cup view.used)
        len == Cardinality(free)
        nth == E!FreeBlock(h)
    IN  Explicit /\ ~ h.fault =>
        /\ {nth[n] : n \in 0 .. len} \ {NULL} = free
        /\ nth[len] = NULL
        /\ \A n \in 1 .. len - 1 : E!prev(h, nth[n]) = nth[n - 1]
        /\ h.free_last = IF len = 0 THEN NULL ELSE nth[len - 1]

\* The driver finds nothing wrong: no payload that is misaligned, outside the
\* heap or across another one, no data lost or garbled by a call, whatever the
\* sequence of calls; all it ever has to report is that memory ran out.  The process
\* dies only of a call that mm_malloc could not satisfy, in mm_realloc or
\* mm_calloc, which use its result unchecked, or, with the implicit list, of the
\* load through NULL in the first mm_malloc if the build carries that out.  The
\* utilization eval_mm_util reports is never above 1.
DriverSatisfied ==
    [][/\ verdict' \in {"ok", "no memory", "died"}
       /\ usage'.max <= h'.brk - Lo
       /\ Explicit /\ h'.fault => \E size \in ExplicitSizes : E!mm_malloc(h, size).ptr = NULL
       /\ Implicit /\ h'.fault => \/ h.null_load /\ h.heap_first = NULL
                                  \/ \E size \in ImplicitSizes : I!mm_malloc(h, size).ptr = NULL]_vars

\* The words the allocator has written for itself: the tags, and the links of
\* the free blocks but for the prev of the first.
OwnWords(g) ==
    LET t == View(g)
        all == t.bounds \ {t.brk}
        free == all \ t.used
    IN  IF g.list = "implicit" THEN all
        ELSE all \cup {b + SizeOf(g, b) - E!Word : b \in all}
                 \cup {b + E!Word : b \in free}
                 \cup {b + 2 * E!Word : b \in free \ {g.free_first}}

Wiped(g) ==
    LET own == OwnWords(g)
    IN  [g EXCEPT !.mem = [a \in DOMAIN g.mem |-> IF a \in own THEN g.mem[a] ELSE E!Garbage]]

\* What a later call can depend on.
Layout(g) == <<g.fault, View(g), IF g.list = "explicit" THEN E!FreeBlock(g) ELSE <<>>>>

SameOutcome(r, q) == r.ptr = q.ptr /\ Layout(r.heap) = Layout(q.heap)
Left(g) == [ptr |-> NULL, heap |-> g]

\* mm_realloc and mm_calloc are made of these two, memcpy and memset.
SameCalls(g, w) ==
    IF Explicit
    THEN /\ \A size \in ExplicitSizes : SameOutcome(E!mm_malloc(g, size), E!mm_malloc(w, size))
         /\ \A p \in Held : SameOutcome(Left(E!mm_free(g, p)), Left(E!mm_free(w, p)))
    ELSE /\ \A size \in ImplicitSizes : SameOutcome(I!mm_malloc(g, size), I!mm_malloc(w, size))
         /\ \A p \in Held : SameOutcome(Left(I!mm_free(g, p)), Left(I!mm_free(w, p)))

\* eval_mm_util and eval_mm_speed measure the layout that eval_mm_valid found
\* valid: a call returns the same block and leaves the same blocks and free list
\* whatever is in the words the allocator did not write for itself, the client's
\* data as well as tags and links left over from an earlier evaluation.
StaleNeverRead == ~ h.fault => SameCalls(h, Wiped(h))

-----------------------------------------------------------------------------
ExplicitBlocks == INSTANCE BlockHeap WITH
    s <- view, Lo <- Lo + E!Word, Top <- E!HeapEnd,
    BlockSizes <- {E!round_up(E!block_t + size + E!Word, E!ALIGNMENT) : size \in ExplicitSizes},
    MinRest <- E!round_up(E!free_block_t, E!ALIGNMENT), Deferred <- FALSE

ImplicitBlocks == INSTANCE BlockHeap WITH
    s <- view, Lo <- Lo + I!Word, Top <- I!HeapEnd,
    BlockSizes <- {I!round_up(I!block_t + size, I!ALIGNMENT) : size \in ImplicitSizes},
    MinRest <- 1, Deferred <- TRUE

\* The tags, the splits and the joins implement the abstract heap: a call
\* changes the division into blocks only as malloc, free and realloc may.  In
\* particular a block in use is never moved, cut or joined; with the explicit list
\* two free blocks never touch, and with the implicit one the pass of mm_malloc
\* joins every run of them; and the heap grows only when no free block is large
\* enough.  (A process that dies in mm_realloc has made a malloc that failed.)
ImplementsBlockHeap ==
    /\ IF Explicit THEN ExplicitBlocks!Init ELSE ImplicitBlocks!Init
    /\ [][IF Explicit THEN ExplicitBlocks!Next ELSE ImplicitBlocks!Next]_view

=============================================================================
