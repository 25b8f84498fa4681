--------------------------- MODULE ImplicitMalloc ---------------------------
(***************************************************************************)
(* malloc/src/mm-implicit.c: an allocator whose blocks carry a header and  *)
(* nothing else.  Free blocks are found by walking every block of the heap *)
(* and are joined at the start of each mm_malloc, by one pass over it.     *)
(* Each function is an operator from a heap to the heap it leaves.  A heap *)
(* has the fields of MemLib, the two static variables, and                 *)
(*   null_load  whether this build of coalesce_blocks carries out the load *)
(*              of a header through mm_heap_first while that is NULL.  Its *)
(*              value is not used, so an optimiser may drop it.            *)
(***************************************************************************)
EXTENDS MemLib, FiniteSetsExt

ALIGNMENT == 2 * Word
block_t == Word             \* sizeof(block_t)

\* More blocks than a heap can hold, the bound of the walks along the heap.
MaxBlocks == MAX_HEAP \div ALIGNMENT

round_up(size, n) == ((size + (n - 1)) \div n) * n

set_header(h, b, size, allocated) == Store(h, b, size + (IF allocated THEN 1 ELSE 0))
get_size(h, b) == Load(h, b) - (Load(h, b) % 2)
is_allocated(h, b) == Load(h, b) % 2 = 1

block_from_payload(p) == p - block_t
payload(b) == b + block_t

\* What a free block holds besides its header is never read again.
Forget(h, b, size) == memset(h, payload(b), Garbage, size - block_t)

\* variant: the last block of the heap is not moved to the remainder
split_block_KeepsLast(h, b, size, block_size) ==
    set_header(set_header(h, b, size, TRUE), b + size, block_size - size, FALSE)

split_block(h, b, size, block_size) ==
    LET g == set_header(set_header(h, b, size, TRUE), b + size, block_size - size, FALSE)
    IN  IF b = g.heap_last THEN [g EXCEPT !.heap_last = b + size] ELSE g

\* One turn of the loop of coalesce_blocks, at the blocks prev and curr.
JoinStep(w) ==
    LET h == w.heap
        size == get_size(h, w.prev) + get_size(h, w.curr)
        g == IF w.curr = h.heap_last THEN [h EXCEPT !.heap_last = w.prev] ELSE h
    IN  IF h.heap_last = NULL \/ w.curr > h.heap_last THEN w
        ELSE IF ~ is_allocated(h, w.prev) /\ ~ is_allocated(h, w.curr)
        THEN [heap |-> Forget(set_header(g, w.prev, size, FALSE), w.prev, size),
              prev |-> w.prev, curr |-> w.prev + size]
        ELSE [w EXCEPT !.prev = @ + get_size(h, @), !.curr = @ + get_size(h, @)]

\* Each turn moves curr to the right by a block, so MaxBlocks turns are enough.
coalesce_blocks(h) ==
    LET start == [heap |-> h, prev |-> h.heap_first,
                  curr |-> h.heap_first + get_size(h, h.heap_first)]
        turn[n \in 0 .. MaxBlocks] == IF n = 0 THEN start ELSE JoinStep(turn[n - 1])
    IN  IF h.heap_first = NULL
        THEN IF h.null_load THEN [h EXCEPT !.fault = TRUE] ELSE h
        ELSE turn[MaxBlocks].heap

\* The n-th block of the heap, or an address past mm_heap_last.
HeapBlock(h) ==
    LET nth[n \in 0 .. MaxBlocks] ==
            IF n = 0 THEN h.heap_first
            ELSE LET b == nth[n - 1] IN IF b > h.heap_last THEN b ELSE b + get_size(h, b)
    IN  nth

\* variant: the last block is not looked at
find_fit_SkipsLast(h, size) ==
    LET nth == HeapBlock(h)
        fits == {n \in 0 .. MaxBlocks :
                    /\ h.heap_last # NULL
                    /\ nth[n] < h.heap_last
                    /\ ~ is_allocated(h, nth[n])
                    /\ get_size(h, nth[n]) >= size}
    IN  IF fits = {} THEN NULL ELSE nth[Min(fits)]

find_fit(h, size) ==
    LET nth == HeapBlock(h)
        fits == {n \in 0 .. MaxBlocks :
                    /\ h.heap_last # NULL
                    /\ nth[n] <= h.heap_last
                    /\ ~ is_allocated(h, nth[n])
                    /\ get_size(h, nth[n]) >= size}
    IN  IF fits = {} THEN NULL ELSE nth[Min(fits)]

mm_init(h) ==
    LET r == mem_sbrk(h, ALIGNMENT - block_t)
    IN  [heap |-> IF r.ptr = Failed THEN r.heap
                  ELSE [r.heap EXCEPT !.heap_first = NULL, !.heap_last = NULL],
         ok   |-> r.ptr # Failed]

\* The heap is extended by a block of size bytes, if there is room.
Extend(h, size) ==
    LET r == mem_sbrk(h, size)
        b == r.ptr
        g == [r.heap EXCEPT !.heap_first = IF @ = NULL THEN b ELSE @, !.heap_last = b]
    IN  IF b = Failed THEN [heap |-> r.heap, ptr |-> NULL]
        ELSE [heap |-> set_header(g, b, size, TRUE), ptr |-> payload(b)]

\* The process dies before it returns if the load through NULL is carried out.
mm_malloc(h, request) ==
    LET size == round_up(block_t + request, ALIGNMENT)
        g == coalesce_blocks(h)
        b == find_fit(g, size)
    IN  CASE g.fault -> [heap |-> g, ptr |-> NULL]
          [] ~ g.fault /\ b # NULL ->
               [heap |-> IF size < get_size(g, b) THEN split_block(g, b, size, get_size(g, b))
                         ELSE set_header(g, b, get_size(g, b), TRUE),
                ptr |-> payload(b)]
          [] OTHER -> Extend(g, size)

mm_free(h, p) ==
    LET b == block_from_payload(p)
        size == get_size(h, b)
    IN  IF p = NULL THEN h ELSE Forget(set_header(h, b, size, FALSE), b, size)

FreeOld(g, old_ptr) == IF g.fault THEN g ELSE mm_free(g, old_ptr)

\* size bytes of the old block move to the result r of mm_malloc, which is used
\* unchecked: when it is NULL, the memcpy kills the process.
MoveTo(r, old_ptr, size) ==
    [heap |-> FreeOld(memcpy(r.heap, r.ptr, old_ptr, size), old_ptr), ptr |-> r.ptr]

mm_realloc(h, old_ptr, size) ==
    LET old_size == get_size(h, block_from_payload(old_ptr)) - block_t IN
    CASE old_ptr = NULL -> mm_malloc(h, size)
      [] old_ptr # NULL /\ size = 0 -> [heap |-> mm_free(h, old_ptr), ptr |-> NULL]
      [] OTHER -> MoveTo(mm_malloc(h, size), old_ptr,
                         IF old_size < size THEN old_size ELSE size)

ClearNew(r, size) == [heap |-> memset(r.heap, r.ptr, 0, size), ptr |-> r.ptr]

mm_calloc(h, nmemb, size) == ClearNew(mm_malloc(h, size * nmemb), size * nmemb)

=============================================================================
