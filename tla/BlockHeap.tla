------------------------------ MODULE BlockHeap ------------------------------
(***************************************************************************)
(* What a heap is to the client of malloc/src/mm-explicit.c and            *)
(* mm-implicit.c once headers, footers and lists are abstracted away: the  *)
(* region from Lo is cut into blocks, some of which are in use.  A state s *)
(* is a record of                                                          *)
(*   brk     the end of the last block                                     *)
(*   bounds  the addresses at which the region is cut, brk among them; each*)
(*           of the others starts a block that ends at the next one        *)
(*   used    the starts of the blocks in use                               *)
(***************************************************************************)
EXTENDS Integers

CONSTANTS
    Lo,          \* where the first block starts
    Top,         \* the end of the memory the break may reach
    BlockSizes,  \* the sizes of block the client can ask for
    MinRest,     \* a block is split if at least so much would be left over
    Deferred     \* free blocks are joined by the next malloc, not by free

ASSUME HeapAssumption ==
    /\ Lo \in Nat /\ Top \in Nat /\ Lo <= Top
    /\ Lo % 16 = 8
    /\ MinRest \in Nat /\ MinRest > 0
    /\ Deferred \in BOOLEAN
    /\ \A n \in BlockSizes : n \in Nat /\ n > 0 /\ n % 16 = 0

VARIABLE s

Empty == [brk |-> Lo, bounds |-> {Lo}, used |-> {}]

\* The block that starts at b ends at c.
Ends(t, b, c) ==
    /\ b \in t.bounds /\ c \in t.bounds /\ b < c
    /\ \A d \in t.bounds : d <= b \/ c <= d

\* The free blocks on both sides of c touch.
Touch(t, c) ==
    /\ c \notin t.used
    /\ \E a \in t.bounds \ t.used : Ends(t, a, c)
    /\ \E d \in t.bounds : Ends(t, c, d)

\* variant: a free block also swallows the block in use on its right
Joined_Greedy(t) ==
    [t EXCEPT !.bounds = {c \in t.bounds :
        ~ \E a, d \in t.bounds \ t.used : Ends(t, a, c) /\ c < d}]

Joined(t) == [t EXCEPT !.bounds = {c \in t.bounds : ~ Touch(t, c)}]

\* The free blocks, as pairs of start and end, that hold n bytes.
Fitting(t, n) ==
    {p \in (t.bounds \ t.used) \X t.bounds : p[2] - p[1] >= n /\ Ends(t, p[1], p[2])}

\* One of them is used, and is split if enough is left over.
Taken(t, p, n) ==
    [t EXCEPT !.bounds = IF p[2] - p[1] - n >= MinRest THEN @ \cup {p[1] + n} ELSE @,
              !.used = @ \cup {p[1]}]

Grown(t, n) ==
    [brk |-> t.brk + n, bounds |-> t.bounds \cup {t.brk + n}, used |-> t.used \cup {t.brk}]

\* The heaps a malloc of n bytes may leave.  Which free block is used is open,
\* but the heap grows only if none is large enough, and only as far as Top.
Allocated(t, n) ==
    LET j == Joined(t) IN
    IF Fitting(j, n) # {} THEN {Taken(j, p, n) : p \in Fitting(j, n)}
    ELSE IF j.brk + n <= Top THEN {Grown(j, n)}
    ELSE {j}

\* variant: the freed block is joined to no other
Freed_Apart(t, b) == [t EXCEPT !.used = @ \ {b}]

Freed(t, b) ==
    LET u == [t EXCEPT !.used = @ \ {b}] IN IF Deferred THEN u ELSE Joined(u)

-----------------------------------------------------------------------------
Init == s = Empty

Malloc(n) == s' \in Allocated(s, n)

Free(b) == s' = Freed(s, b)

\* The old block is freed once the new one is there.
Realloc(b, n) ==
    \E t \in Allocated(s, n) : t.used # s.used /\ s' = Freed(t, b)

Reset == s' = Empty

Next ==
    \/ \E n \in BlockSizes : Malloc(n) \/ \E b \in s.used : Realloc(b, n)
    \/ \E b \in s.used : Free(b)
    \/ Reset

Spec == Init /\ [][Next]_s

-----------------------------------------------------------------------------
Tiled(t) ==
    /\ t.bounds \subseteq Lo .. t.brk
    /\ Lo \in t.bounds /\ t.brk \in t.bounds
    /\ t.brk <= Top
    /\ t.used \subseteq t.bounds \ {t.brk}
    /\ \A b \in t.bounds : (b + 8) % 16 = 0

\* The blocks tile the memory from Lo to the break, which mem_sbrk never lets
\* pass Top; a block in use is one of them; and every payload, 8 bytes into its
\* block, is aligned to 16 bytes.  Where mm_free joins free blocks at once, no two
\* of them touch, not even after mm_malloc has split a block.
Tiling ==
    /\ Tiled(s)
    /\ ~ Deferred => \A c \in s.bounds : ~ Touch(s, c)

\* No call moves, cuts or joins a block that stays in use.
UsedBlocksStay ==
    [][\A b \in s.used \cap s'.used : \A c \in s.bounds :
            Ends(s, b, c) => Ends(s', b, c)]_s

==============================================================================
