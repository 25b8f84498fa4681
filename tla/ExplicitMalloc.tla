--------------------------- MODULE ExplicitMalloc ---------------------------
(***************************************************************************)
(* malloc/src/mm-explicit.c: an allocator with boundary tags (a header and *)
(* a footer holding size | is_allocated) and an explicit, doubly linked,   *)
(* last-in first-out list of the free blocks, threaded through their       *)
(* payloads.  The allocator is sequential: each function is an operator    *)
(* from a heap to the heap it leaves, and to the pointer it returns.       *)
(* A heap has the fields of MemLib and the four static variables.          *)
(***************************************************************************)
EXTENDS MemLib, FiniteSetsExt

ALIGNMENT == 2 * Word
block_t == Word             \* sizeof(block_t)
free_block_t == 3 * Word    \* sizeof(free_block_t): header, next, prev

\* More blocks than a heap can hold, the bound of the walks along lists.
MaxBlocks == MAX_HEAP \div ALIGNMENT

round_up(size, n) == ((size + (n - 1)) \div n) * n

Tag(size, allocated) == size + (IF allocated THEN 1 ELSE 0)
set_header(h, b, size, allocated) == Store(h, b, Tag(size, allocated))
set_footer(h, b, size, allocated) == Store(h, b + size - Word, Tag(size, allocated))
set_tags(h, b, size, allocated) ==
    set_footer(set_header(h, b, size, allocated), b, size, allocated)

SizeIn(tag) == tag - (tag % 2)
get_size(h, b) == SizeIn(Load(h, b))
is_allocated(h, b) == Load(h, b) % 2 = 1

next(h, b) == Load(h, b + Word)
prev(h, b) == Load(h, b + 2 * Word)
set_next(h, b, v) == Store(h, b + Word, v)
set_prev(h, b, v) == Store(h, b + 2 * Word, v)

\* What a free block b holds besides its tags and its two links is never read
\* again: it becomes Garbage, as memory nobody has written.
Forget(h, b, size) == memset(h, b + free_block_t, Garbage, size - free_block_t - Word)

\* variant: the old first block's prev is left alone
add_to_freelist_NoBackLink(h, b) ==
    LET g == set_tags(Forget(h, b, get_size(h, b)), b, get_size(h, b), FALSE) IN
    IF g.free_first = NULL
    THEN LET e == [g EXCEPT !.free_first = b, !.free_last = b]
         IN  set_next(set_prev(e, b, NULL), b, NULL)
    ELSE [set_next(g, b, g.free_first) EXCEPT !.free_first = b]

\* A block pushed on a list that is not empty keeps whatever its prev held.
add_to_freelist(h, b) ==
    LET g == set_tags(Forget(h, b, get_size(h, b)), b, get_size(h, b), FALSE) IN
    IF g.free_first = NULL
    THEN LET e == [g EXCEPT !.free_first = b, !.free_last = b]
         IN  set_next(set_prev(e, b, NULL), b, NULL)
    ELSE LET e == set_next(set_prev(g, g.free_first, b), b, g.free_first)
         IN  [e EXCEPT !.free_first = b]

remove_from_freelist(h, b) ==
    CASE b = h.free_first /\ b = h.free_last ->
            [h EXCEPT !.free_first = NULL, !.free_last = NULL]
      [] b = h.free_first /\ b # h.free_last ->
            set_prev([h EXCEPT !.free_first = next(h, b)], next(h, b), NULL)
      [] b # h.free_first /\ b = h.free_last ->
            set_next([h EXCEPT !.free_last = prev(h, b)], prev(h, b), NULL)
      [] OTHER ->
            LET g == set_prev(h, next(h, b), prev(h, b))
            IN  set_next(g, prev(g, b), next(g, b))

\* The n-th block of the free list, NULL past its end.
FreeBlock(h) ==
    LET nth[n \in 0 .. MaxBlocks] ==
            IF n = 0 THEN h.free_first
            ELSE LET b == nth[n - 1] IN IF b = NULL THEN NULL ELSE next(h, b)
    IN  nth

\* The first block on the list that is large enough, or NULL.  (It is the
\* caller that takes it off the list here, at once.)
find_fit(h, size) ==
    LET nth == FreeBlock(h)
        fits == {n \in 0 .. MaxBlocks :
                    /\ h.free_last # NULL
                    /\ nth[n] # NULL
                    /\ get_size(h, nth[n]) >= size}
    IN  IF fits = {} THEN NULL ELSE nth[Min(fits)]

block_from_payload(p) == p - block_t
payload(b) == b + block_t

\* variant: the free list is not emptied
mm_init_KeepsList(h) ==
    LET r == mem_sbrk(h, ALIGNMENT - block_t)
    IN  [heap |-> [r.heap EXCEPT !.heap_first = NULL, !.heap_last = NULL], ok |-> TRUE]

mm_init(h) ==
    LET r == mem_sbrk(h, ALIGNMENT - block_t)
    IN  [heap |-> IF r.ptr = Failed THEN r.heap
                  ELSE [r.heap EXCEPT !.heap_first = NULL, !.heap_last = NULL,
                                      !.free_first = NULL, !.free_last = NULL],
         ok   |-> r.ptr # Failed]

\* Cuts block b in two: its first size bytes are allocated, the rest is free.
split_block_exp(h, b, size, block_size) ==
    LET g == add_to_freelist(
                 set_tags(set_tags(h, b, size, TRUE), b + size, block_size - size, FALSE),
                 b + size)
    IN  [g EXCEPT !.heap_last = IF b = @ THEN b + size ELSE @]

\* Joins b to the block on its left if that one is free; the result starts
\* with the joined block.
coalesce_left(h, b) ==
    LET prev_size == SizeIn(Load(h, b - Word))
        left == b - prev_size
        joins == b # h.heap_first /\ ~ is_allocated(h, left)
        g == remove_from_freelist(h, left)
        e == IF b = h.heap_last THEN [g EXCEPT !.heap_last = left] ELSE g
    IN  IF joins
        THEN [heap |-> set_tags(e, left, prev_size + get_size(h, b), FALSE), ptr |-> left]
        ELSE [heap |-> set_tags(h, b, get_size(h, b), FALSE), ptr |-> b]

coalesce_right(h, b) ==
    LET right == b + get_size(h, b)
        joins == b # h.heap_last /\ ~ is_allocated(h, right)
        g == remove_from_freelist(h, right)
        e == IF right = h.heap_last THEN [g EXCEPT !.heap_last = b] ELSE g
    IN  IF joins
        THEN set_tags(e, b, get_size(h, b) + get_size(h, right), FALSE)
        ELSE set_tags(h, b, get_size(h, b), FALSE)

\* The free block b is taken off the list and used, whole or split.
Use(g, b, size) ==
    LET block_size == get_size(g, b)
    IN  IF block_size >= round_up(size + free_block_t, ALIGNMENT)
        THEN split_block_exp(g, b, size, block_size)
        ELSE set_tags(g, b, block_size, TRUE)

Take(h, b, size) == Use(remove_from_freelist(h, b), b, size)

\* The heap is extended by a block of size bytes, if there is room.
Extend(h, size) ==
    LET r == mem_sbrk(h, size)
        b == r.ptr
        g == [r.heap EXCEPT !.heap_first = IF @ = NULL THEN b ELSE @, !.heap_last = b]
    IN  IF b = Failed THEN [heap |-> r.heap, ptr |-> NULL]
        ELSE [heap |-> set_tags(g, b, size, TRUE), ptr |-> payload(b)]

mm_malloc(h, request) ==
    LET size == round_up(block_t + request + Word, ALIGNMENT)
        b == find_fit(h, size)
    IN  IF b # NULL THEN [heap |-> Take(h, b, size), ptr |-> payload(b)]
        ELSE Extend(h, size)

FreeJoined(l) == add_to_freelist(coalesce_right(l.heap, l.ptr), l.ptr)

mm_free(h, p) ==
    IF p = NULL THEN h
    ELSE FreeJoined(coalesce_left(h, block_from_payload(p)))

FreeOld(g, old_ptr) == IF g.fault THEN g ELSE mm_free(g, old_ptr)

\* variant: the old block is freed before its contents are copied
MoveTo_FreesFirst(r, old_ptr, size) ==
    [heap |-> memcpy(mm_free(r.heap, old_ptr), r.ptr, old_ptr, size), ptr |-> r.ptr]

\* size bytes of the old block move to the result r of mm_malloc, which is used
\* unchecked: when it is NULL, the memcpy kills the process.
MoveTo(r, old_ptr, size) ==
    [heap |-> FreeOld(memcpy(r.heap, r.ptr, old_ptr, size), old_ptr), ptr |-> r.ptr]

mm_realloc(h, old_ptr, size) ==
    LET old_size == get_size(h, block_from_payload(old_ptr)) - 2 * block_t IN
    CASE old_ptr = NULL -> mm_malloc(h, size)
      [] old_ptr # NULL /\ size = 0 -> [heap |-> mm_free(h, old_ptr), ptr |-> NULL]
      [] OTHER -> MoveTo(mm_malloc(h, size), old_ptr,
                         IF old_size < size THEN old_size ELSE size)

ClearNew(r, size) == [heap |-> memset(r.heap, r.ptr, 0, size), ptr |-> r.ptr]

mm_calloc(h, nmemb, size) == ClearNew(mm_malloc(h, size * nmemb), size * nmemb)

=============================================================================
