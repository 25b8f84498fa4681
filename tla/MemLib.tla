------------------------------- MODULE MemLib -------------------------------
(***************************************************************************)
(* malloc/src/memlib.c: the simulated heap below both allocators, a region *)
(* of MAX_HEAP bytes whose used part ends at mem_brk.                      *)
(*                                                                         *)
(* Addresses and sizes are in bytes; memory is kept by 8-byte word, the    *)
(* unit in which the allocators store sizes and pointers.  A heap h is a   *)
(* record with at least the fields                                         *)
(*   mem    what each word of the region holds                             *)
(*   brk    mem_brk                                                        *)
(*   fault  whether the process has died of a store outside the region     *)
(***************************************************************************)
EXTENDS Integers

CONSTANT MAX_HEAP   \* bytes (100 MB in the code)

Word == 8           \* sizeof(size_t) and sizeof(void *)
NULL == 0
Failed == -1        \* (void *) -1
HeapLo == 16        \* the region's start: page-aligned, hence 16-aligned
HeapEnd == HeapLo + MAX_HEAP
WordAddrs == {HeapLo + Word * k : k \in 0 .. (MAX_HEAP \div Word - 1)}

\* What mem_reset_brk(true) fills the heap with, 0xCC in every byte: a number
\* that is even and is no address and no size of a block.
Garbage == 1000000

\* mem_reset_brk(false) leaves the old contents for the next user to find.
mem_reset_brk(h, clear) ==
    [h EXCEPT !.brk = HeapLo,
              !.mem = IF clear THEN [a \in WordAddrs |-> Garbage] ELSE @]

mem_sbrk(h, incr) ==
    IF incr < 0 \/ h.brk + incr > HeapEnd
    THEN [heap |-> h, ptr |-> Failed]
    ELSE [heap |-> [h EXCEPT !.brk = @ + incr], ptr |-> h.brk]

mem_heap_hi(h) == h.brk - 1

\* Machine loads and stores of a word.  Only words of the region are mapped.
Load(h, a) == IF a \in DOMAIN h.mem THEN h.mem[a] ELSE Garbage

Store(h, a, v) ==
    IF a \in DOMAIN h.mem THEN [h EXCEPT !.mem[a] = v] ELSE [h EXCEPT !.fault = TRUE]

\* The words of the size bytes at p, and stores to all of them.
WordsOf(p, size) == {p + Word * k : k \in 0 .. ((size + Word - 1) \div Word - 1)}

memset(h, p, v, size) ==
    LET words == WordsOf(p, size) IN
    IF words \subseteq DOMAIN h.mem
    THEN [h EXCEPT !.mem = [a \in DOMAIN @ |-> IF a \in words THEN v ELSE @[a]]]
    ELSE [h EXCEPT !.fault = TRUE]

memcpy(h, dst, src, size) ==
    LET words == WordsOf(dst, size) IN
    IF words \subseteq DOMAIN h.mem
    THEN [h EXCEPT !.mem = [a \in DOMAIN @ |->
             IF a \in words THEN Load(h, src + (a - dst)) ELSE @[a]]]
    ELSE [h EXCEPT !.fault = TRUE]

=============================================================================
