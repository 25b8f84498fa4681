----------------------------- MODULE MyAsanProofs -----------------------------
(***************************************************************************)
(* Proofs about MyAsan, for every page size, heap size and set of sizes    *)
(* and addresses.  The invariants are not inductive by themselves: a free  *)
(* is right because the header page says of its allocation what is true,   *)
(* and an allocation because everything behind current_page is unused.     *)
(***************************************************************************)
EXTENDS MyAsan, WellFoundedInduction, TLAPS

N(a) == pages_round_up(a.size)

\* Allocations lie before current_page and are told apart by their headers.
Placed ==
    /\ \A a \in allocs : a.head + N(a) < current_page
    /\ \A a, b \in allocs : a.head = b.head => a = b

\* The headers in memory are those of the allocations.
HeadersTrue ==
    /\ \A a \in allocs : page[a.head] = Header(a.size, a.live)
    /\ \A p \in Heap : page[p].magic => \E a \in allocs : a.head = p

Types ==
    /\ current_page \in Nat
    /\ page \in [Heap -> [magic : BOOLEAN, size : Nat, is_allocated : BOOLEAN]]
    /\ prot \in [Heap -> BOOLEAN]
    /\ allocs \subseteq [head : Heap, size : Nat, live : BOOLEAN]

IInv == Types /\ Placed /\ HeadersTrue /\ AllocationsOrdered /\ ProtectionExact

-----------------------------------------------------------------------------
\* pages_round_up counts the pages that hold size bytes and no more.
LEMMA RoundUp ==
    ASSUME NEW size \in Nat
    PROVE  /\ pages_round_up(size) \in Nat
           /\ size <= pages_round_up(size) * PAGE_SIZE
           /\ pages_round_up(size) * PAGE_SIZE < size + PAGE_SIZE
  BY AsanAssumption, Z3T(30) DEF pages_round_up

\* A number of pages is a natural number.
LEMMA RoundUpNat == \A size \in Nat : pages_round_up(size) \in Nat
  BY RoundUp

\* The page of an address
LEMMA PageOf ==
    ASSUME NEW k \in Int, NEW i \in Int, 0 <= i, i < PAGE_SIZE
    PROVE  (k * PAGE_SIZE + i) \div PAGE_SIZE = k
  BY AsanAssumption, Z3T(30)

\* Before the first call nothing is allocated.
LEMMA InitIInv == Init => IInv
  BY AsanAssumption DEF Init, IInv, Types, Placed, HeadersTrue, AllocationsOrdered, ProtectionExact, NoHeader, Heap

-----------------------------------------------------------------------------
(* Allocations *)

\* The page that is written and those that are opened are behind all others.
LEMMA AllocateIInv ==
    ASSUME IInv, NEW size \in Nat, Allocate(size)
    PROVE  IInv'
<1> DEFINE n == pages_round_up(size)
           new == [head |-> current_page, size |-> size, live |-> TRUE]
<1>n. n \in Nat
  BY RoundUpNat
<1>1. CASE current_page \notin Heap
  <2>1. UNCHANGED <<page, prot, current_page, allocs>>
    BY <1>1 DEF Allocate
  <2>2. QED
    BY <2>1 DEF IInv, Types, Placed, HeadersTrue, AllocationsOrdered, ProtectionExact, N, PagesOf
<1>2. CASE current_page \in Heap
  <2>1. /\ page' = [page EXCEPT ![current_page] = Header(size, TRUE)]
        /\ prot' = mprotect(prot, current_page + 1, n, TRUE)
        /\ current_page' = current_page + 1 + n
        /\ allocs' = allocs \cup {new}
    BY <1>2 DEF Allocate
  <2> HIDE DEF n
  <2>t. Types
    BY DEF IInv
  <2>f. \A a \in allocs : a.head \in Nat /\ a.size \in Nat /\ N(a) \in Nat
    <3> SUFFICES ASSUME NEW a \in allocs
                 PROVE  a.head \in Nat /\ a.size \in Nat /\ N(a) \in Nat
      OBVIOUS
    <3>1. a.head \in Heap /\ a.size \in Nat
      BY <2>t DEF Types
    <3>2. QED
      BY <3>1, RoundUpNat, AsanAssumption DEF Heap, N
  <2>p. \A a \in allocs : a.head + N(a) < current_page
    BY DEF IInv, Placed
  <2>m. N(new) = n /\ new.head = current_page
    BY DEF N, n
  <2>3. Types'
    <3>1. current_page' \in Nat
      BY <2>1, <2>t, <1>n DEF Types
    <3>2. page' \in [Heap -> [magic : BOOLEAN, size : Nat, is_allocated : BOOLEAN]]
      BY <2>1, <2>t DEF Types, Header
    <3>3. prot' \in [Heap -> BOOLEAN]
      BY <2>1, <2>t DEF Types, mprotect
    <3>4. allocs' \subseteq [head : Heap, size : Nat, live : BOOLEAN]
      <4>1. new \in [head : Heap, size : Nat, live : BOOLEAN]
        BY <1>2
      <4>2. QED
        BY <4>1, <2>1, <2>t DEF Types
    <3>5. QED
      BY <3>1, <3>2, <3>3, <3>4 DEF Types
  <2>4. Placed'
    <3>1. \A a \in allocs' : a.head + N(a) < current_page'
      <4>1. current_page \in Nat /\ current_page' = current_page + 1 + n
        BY <2>1, <2>t DEF Types
      <4>2. new.head + N(new) < current_page'
        BY <4>1, <2>m, <1>n
      <4>3. \A a \in allocs : a.head + N(a) < current_page'
        BY <4>1, <2>f, <2>p, <1>n
      <4>4. QED
        BY <4>2, <4>3, <2>1
    <3>2. ASSUME NEW a \in allocs', NEW b \in allocs', a.head = b.head
          PROVE  a = b
      <4>1. CASE a \in allocs /\ b \in allocs
        BY <4>1, <3>2 DEF IInv, Placed
      <4>2. CASE a = new /\ b = new
        BY <4>2
      <4>3. CASE a = new /\ b \in allocs
        BY <4>3, <3>2, <2>f, <2>p, <2>t DEF Types
      <4>4. CASE a \in allocs /\ b = new
        BY <4>4, <3>2, <2>f, <2>p, <2>t DEF Types
      <4>5. QED
        BY <4>1, <4>2, <4>3, <4>4, <2>1
    <3>3. \A a \in allocs' : (N(a))' = N(a)
      BY DEF N, pages_round_up
    <3>4. QED
      BY <3>1, <3>2, <3>3 DEF Placed
  <2>5. HeadersTrue'
    <3>1. ASSUME NEW a \in allocs'
          PROVE  page'[a.head] = Header(a.size, a.live)
      <4>1. CASE a = new
        BY <4>1, <2>1, <2>t, <1>2 DEF Types
      <4>2. CASE a \in allocs
        <5>1. a.head # current_page
          BY <4>2, <2>f, <2>p, <2>t DEF Types
        <5>2. QED
          BY <5>1, <4>2, <2>1, <2>t, <1>2 DEF Types, IInv, HeadersTrue
      <4>3. QED
        BY <4>1, <4>2, <2>1
    <3>2. ASSUME NEW p \in Heap, page'[p].magic
          PROVE  \E a \in allocs' : a.head = p
      <4>1. CASE p = current_page
        BY <4>1, <2>1, <2>m
      <4>2. CASE p # current_page
        BY <4>2, <3>2, <2>1, <2>t, <1>2 DEF Types, IInv, HeadersTrue
      <4>3. QED
        BY <4>1, <4>2
    <3>3. QED
      BY <3>1, <3>2 DEF HeadersTrue, Header
  <2>6. AllocationsOrdered'
    <3>1. ASSUME NEW a \in allocs', NEW b \in allocs', a.head < b.head
          PROVE  a.head + N(a) < b.head
      <4>1. CASE a \in allocs /\ b \in allocs
        BY <4>1, <3>1 DEF IInv, AllocationsOrdered, N
      <4>2. CASE b = new /\ a \in allocs
        BY <4>2, <2>p, <2>m
      <4>3. CASE a = new /\ b \in allocs
        BY <4>3, <3>1, <2>f, <2>p, <2>t DEF Types
      <4>4. CASE a = new /\ b = new
        BY <4>4, <3>1, <2>t DEF Types
      <4>5. QED
        BY <4>1, <4>2, <4>3, <4>4, <2>1
    <3>2. QED
      BY <3>1 DEF AllocationsOrdered, N, pages_round_up
  <2>7. ProtectionExact'
    <3>1. ASSUME NEW p \in Heap
          PROVE  prot'[p] <=> \E a \in allocs' : a.live /\ p \in PagesOf(a)
      <4>0. p \in Int /\ current_page \in Nat
        BY <2>t, AsanAssumption DEF Heap, Types
      <4>1. PagesOf(new) = current_page + 1 .. current_page + n
        BY DEF PagesOf, n
      <4>2. CASE p \in PagesOf(new)
        <5>1. prot'[p] = TRUE
          BY <4>0, <4>1, <4>2, <2>1, <1>n DEF mprotect
        <5>2. QED
          BY <5>1, <4>2, <2>1
      <4>3. CASE p \notin PagesOf(new)
        <5>1. prot'[p] = prot[p]
          <6>1. ~ (current_page + 1 <= p /\ p < current_page + 1 + n)
            BY <4>0, <4>1, <4>3, <1>n
          <6>2. QED
            BY <6>1, <2>1 DEF mprotect
        <5>2. (\E a \in allocs' : a.live /\ p \in PagesOf(a))
                 <=> (\E a \in allocs : a.live /\ p \in PagesOf(a))
          BY <4>3, <2>1
        <5>3. QED
          BY <5>1, <5>2, <3>1 DEF IInv, ProtectionExact
      <4>4. QED
        BY <4>2, <4>3
    <3>2. QED
      BY <3>1 DEF ProtectionExact, PagesOf, pages_round_up
  <2>8. QED
    BY <2>3, <2>4, <2>5, <2>6, <2>7 DEF IInv
<1>3. QED
  BY <1>1, <1>2

-----------------------------------------------------------------------------
(* Frees *)

\* What was read from the header is what is known of the allocation, and no
\* other allocation has one of the pages that are closed.
LEMMA ReleaseIInv ==
    ASSUME IInv, NEW h \in Heap, page[h].magic, Release(h)
    PROVE  IInv'
<1> DEFINE dead(a) == IF a.head = h THEN [a EXCEPT !.live = FALSE] ELSE a
           n == pages_round_up(page[h].size)
<1>t. Types
  BY DEF IInv
<1>1. /\ page' = [page EXCEPT ![h] = Header(page[h].size, FALSE)]
      /\ prot' = mprotect(prot, h, 1 + n, FALSE)
      /\ allocs' = {dead(a) : a \in allocs}
      /\ current_page' = current_page
  BY DEF Release
<1>2. PICK c \in allocs : c.head = h
  BY DEF IInv, HeadersTrue
<1>3. page[h].size = c.size
  <2>1. page[h] = Header(c.size, c.live)
    BY <1>2 DEF IInv, HeadersTrue
  <2>2. QED
    BY <2>1 DEF Header
<1>4. ASSUME NEW a \in allocs
      PROVE  /\ a \in [head : Heap, size : Nat, live : BOOLEAN]
             /\ a.head \in Int /\ N(a) \in Nat
  <2>1. a \in [head : Heap, size : Nat, live : BOOLEAN]
    BY <1>t DEF Types
  <2>2. QED
    BY <2>1, RoundUpNat, AsanAssumption DEF Heap, N
<1>5. ASSUME NEW a \in allocs
      PROVE  /\ dead(a) \in [head : Heap, size : Nat, live : BOOLEAN]
             /\ dead(a).head = a.head /\ dead(a).size = a.size
             /\ dead(a).live <=> a.live /\ a.head # h
  BY <1>4
<1>n. n = N(c) /\ n \in Nat
  BY <1>3, <1>4 DEF N
<1>6. ASSUME NEW b \in allocs'
      PROVE  \E a \in allocs : b = dead(a)
  BY <1>1
<1>7. \A a \in allocs : dead(a) \in allocs'
  BY <1>1
<1> HIDE DEF dead, n
<1>8. \A a \in allocs : N(dead(a)) = N(a) /\ PagesOf(dead(a)) = PagesOf(a)
  BY <1>5 DEF N, PagesOf
<1>9. Types'
  <2>1. page' \in [Heap -> [magic : BOOLEAN, size : Nat, is_allocated : BOOLEAN]]
    <3>1. page[h].size \in Nat
      BY <1>t DEF Types
    <3>2. QED
      BY <3>1, <1>1, <1>t DEF Types, Header
  <2>2. prot' \in [Heap -> BOOLEAN]
    BY <1>1, <1>t DEF Types, mprotect
  <2>3. allocs' \subseteq [head : Heap, size : Nat, live : BOOLEAN]
    BY <1>5, <1>6
  <2>4. QED
    BY <2>1, <2>2, <2>3, <1>1, <1>t DEF Types
<1>10. Placed'
  <2>1. ASSUME NEW b \in allocs'
        PROVE  b.head + N(b) < current_page'
    <3>1. PICK a \in allocs : b = dead(a)
      BY <1>6
    <3>2. QED
      BY <3>1, <1>5, <1>8, <1>1 DEF IInv, Placed
  <2>2. ASSUME NEW b \in allocs', NEW d \in allocs', b.head = d.head
        PROVE  b = d
    <3>1. PICK a \in allocs : b = dead(a)
      BY <1>6
    <3>2. PICK e \in allocs : d = dead(e)
      BY <1>6
    <3>3. a = e
      BY <3>1, <3>2, <2>2, <1>5 DEF IInv, Placed
    <3>4. QED
      BY <3>1, <3>2, <3>3
  <2>3. QED
    BY <2>1, <2>2 DEF Placed, N, pages_round_up
<1>11. HeadersTrue'
  <2>1. ASSUME NEW b \in allocs'
        PROVE  page'[b.head] = Header(b.size, b.live)
    <3>1. PICK a \in allocs : b = dead(a)
      BY <1>6
    <3>2. page[a.head] = Header(a.size, a.live) /\ a.head \in Heap
      BY <1>4 DEF IInv, HeadersTrue
    <3>3. CASE a.head = h
      <4>1. page[h].size = a.size
        BY <3>2, <3>3 DEF Header
      <4>2. page'[h] = Header(a.size, FALSE)
        BY <4>1, <1>1, <1>t DEF Types
      <4>3. b.live = FALSE
        BY <3>1, <3>3, <1>4 DEF dead
      <4>4. QED
        BY <4>2, <4>3, <3>1, <3>3, <1>5
    <3>4. CASE a.head # h
      BY <3>1, <3>2, <3>4, <1>1, <1>t DEF Types, dead
    <3>5. QED
      BY <3>3, <3>4
  <2>2. ASSUME NEW p \in Heap, page'[p].magic
        PROVE  \E b \in allocs' : b.head = p
    <3>1. page[p].magic
      BY <2>2, <1>1, <1>t DEF Types
    <3>2. PICK a \in allocs : a.head = p
      BY <3>1 DEF IInv, HeadersTrue
    <3>3. QED
      BY <3>2, <1>5, <1>7
  <2>3. QED
    BY <2>1, <2>2 DEF HeadersTrue, Header
<1>12. AllocationsOrdered'
  <2>1. ASSUME NEW b \in allocs', NEW d \in allocs', b.head < d.head
        PROVE  b.head + N(b) < d.head
    <3>1. PICK a \in allocs : b = dead(a)
      BY <1>6
    <3>2. PICK e \in allocs : d = dead(e)
      BY <1>6
    <3>3. a.head < e.head
      BY <3>1, <3>2, <2>1, <1>5
    <3>4. a.head + N(a) < e.head
      BY <3>3 DEF IInv, AllocationsOrdered, N
    <3>5. QED
      BY <3>1, <3>2, <3>4, <1>5, <1>8
  <2>2. QED
    BY <2>1 DEF AllocationsOrdered, N, pages_round_up
<1>13. ProtectionExact'
  <2>1. ASSUME NEW p \in Heap
        PROVE  prot'[p] <=> \E b \in allocs' : b.live /\ p \in PagesOf(b)
    <3>0. p \in Int /\ h \in Int
      BY AsanAssumption DEF Heap
    <3>1. CASE h <= p /\ p < h + (1 + n)
      <4>1. prot'[p] = FALSE
        BY <3>1, <1>1 DEF mprotect
      <4>2. ASSUME NEW b \in allocs', b.live, p \in PagesOf(b)
            PROVE  FALSE
        <5>1. PICK a \in allocs : b = dead(a)
          BY <1>6
        <5>2. a.head # h /\ p \in PagesOf(a)
          BY <5>1, <4>2, <1>5, <1>8
        <5>3. a.head < p /\ p <= a.head + N(a)
          BY <5>2, <1>4, <3>0 DEF PagesOf, N
        <5>4. CASE a.head < h
          <6>1. a.head + N(a) < h
            BY <5>4, <1>2 DEF IInv, AllocationsOrdered, N
          <6>2. QED
            BY <6>1, <5>3, <3>1, <3>0, <1>4
        <5>5. CASE h < a.head
          <6>1. h + n < a.head
            BY <5>5, <1>2, <1>n DEF IInv, AllocationsOrdered, N
          <6>2. QED
            BY <6>1, <5>3, <3>1, <3>0, <1>4, <1>n
        <5>6. QED
          BY <5>2, <5>4, <5>5, <3>0, <1>4
      <4>3. QED
        BY <4>1, <4>2
    <3>2. CASE ~ (h <= p /\ p < h + (1 + n))
      <4>1. prot'[p] = prot[p]
        BY <3>2, <1>1 DEF mprotect
      <4>2. \A a \in allocs : p \in PagesOf(a) => a.head # h
        <5> SUFFICES ASSUME NEW a \in allocs, p \in PagesOf(a), a.head = h
                     PROVE  FALSE
          OBVIOUS
        <5>1. a = c
          BY <1>2 DEF IInv, Placed
        <5>2. h < p /\ p <= h + n
          BY <5>1, <1>n, <1>2, <3>0 DEF PagesOf, N
        <5>3. QED
          BY <5>2, <3>2, <3>0, <1>n
      <4>3. (\E b \in allocs' : b.live /\ p \in PagesOf(b))
               <=> (\E a \in allocs : a.live /\ p \in PagesOf(a))
        <5>1. ASSUME NEW b \in allocs', b.live, p \in PagesOf(b)
              PROVE  \E a \in allocs : a.live /\ p \in PagesOf(a)
          <6>1. PICK a \in allocs : b = dead(a)
            BY <1>6
          <6>2. QED
            BY <6>1, <5>1, <1>5, <1>8
        <5>2. ASSUME NEW a \in allocs, a.live, p \in PagesOf(a)
              PROVE  \E b \in allocs' : b.live /\ p \in PagesOf(b)
          <6>1. dead(a) \in allocs' /\ dead(a).live /\ p \in PagesOf(dead(a))
            BY <5>2, <4>2, <1>5, <1>7, <1>8
          <6>2. QED
            BY <6>1
        <5>3. QED
          BY <5>1, <5>2
      <4>4. QED
        BY <4>1, <4>3 DEF IInv, ProtectionExact
    <3>3. QED
      BY <3>1, <3>2
  <2>2. QED
    BY <2>1 DEF ProtectionExact, PagesOf, pages_round_up
<1>14. QED
  BY <1>9, <1>10, <1>11, <1>12, <1>13 DEF IInv

-----------------------------------------------------------------------------
\* free() releases only what a header describes.
LEMMA CheckedHeader ==
    ASSUME NEW ptr \in Int, free_check(ptr) = 0
    PROVE  LET h == ptr \div PAGE_SIZE - 1 IN
           /\ h \in Heap /\ page[h].magic /\ page[h].is_allocated
           /\ get_payload(h, page[h].size) = ptr
  BY DEF free_check, Report, sigsegv_handler, INVALID_FREE, DOUBLE_FREE, SEG_FAULT,
         INVALID_HEAP_ACCESS, Killed

\* Every call of malloc and free, every access and the exit keep IInv.
LEMMA NextIInv == IInv /\ [Next]_vars => IInv'
<1> SUFFICES ASSUME IInv, [Next]_vars
             PROVE  IInv'
  OBVIOUS
<1>0. ASSUME UNCHANGED <<current_page, page, prot, allocs>>
      PROVE  IInv'
  BY <1>0 DEF IInv, Types, Placed, HeadersTrue, AllocationsOrdered, ProtectionExact, N, PagesOf
<1>1. ASSUME NEW size \in Sizes, malloc(size)
      PROVE  IInv'
  BY <1>1, AllocateIInv, AsanAssumption DEF malloc
<1>2. CASE printf
  BY <1>2, AllocateIInv, AsanAssumption DEF printf
<1>3. ASSUME NEW ptr \in Addresses, free(ptr)
      PROVE  IInv'
  <2>1. CASE ptr # NULL /\ free_check(ptr) = 0
    BY <1>3, <2>1, CheckedHeader, ReleaseIInv, AsanAssumption DEF free
  <2>2. CASE ~ (ptr # NULL /\ free_check(ptr) = 0)
    BY <1>3, <2>2, <1>0 DEF free
  <2>3. QED
    BY <2>1, <2>2
<1>4. ASSUME NEW addr \in Addresses, access(addr)
      PROVE  IInv'
  BY <1>4, <1>0 DEF access, Exit, vars
<1>5. CASE exit
  BY <1>5, <1>0 DEF exit, Exit
<1>6. CASE UNCHANGED vars
  BY <1>6, <1>0 DEF vars
<1>7. QED
  BY <1>1, <1>2, <1>3, <1>4, <1>5, <1>6 DEF Next

\* IInv always holds.
LEMMA Inductive == Spec => []IInv
  BY InitIInv, NextIInv, PTL DEF Spec

\* malloc never gives out a page that any earlier allocation has, nor the page
\* next to it.
THEOREM HeapOrdered == Spec => []AllocationsOrdered
<1>1. IInv => AllocationsOrdered
  BY DEF IInv
<1>2. QED
  BY <1>1, Inductive, PTL

\* malloc and free leave open exactly the pages of the live allocations.
THEOREM HeapProtected == Spec => []ProtectionExact
<1>1. IInv => ProtectionExact
  BY DEF IInv
<1>2. QED
  BY <1>1, Inductive, PTL

-----------------------------------------------------------------------------
(* From pages to addresses *)

\* An address between the starts of two pages is in a page between them.
LEMMA PageRange ==
    ASSUME NEW x \in Int, NEW lo \in Int, NEW hi \in Int,
           lo * PAGE_SIZE <= x, x < hi * PAGE_SIZE
    PROVE  x \div PAGE_SIZE \in Int /\ lo <= x \div PAGE_SIZE /\ x \div PAGE_SIZE < hi
  BY AsanAssumption, Z3T(30)

\* A payload ends with a page and begins in the page behind the header.
LEMMA PointerPage ==
    ASSUME IInv, NEW a \in allocs
    PROVE  /\ a.head \in Nat /\ a.size \in Nat /\ N(a) \in Nat
           /\ Pointer(a) \in Int
           /\ (a.head + 1) * PAGE_SIZE <= Pointer(a)
           /\ Pointer(a) + a.size = (a.head + 1 + N(a)) * PAGE_SIZE
           /\ a.size # 0 \/ Pointer(a) = (a.head + 1) * PAGE_SIZE
           /\ Pointer(a) \div PAGE_SIZE = a.head + 1
<1>1. a.head \in Nat /\ a.size \in Nat
  BY AsanAssumption DEF IInv, Types, Heap
<1>2. /\ N(a) \in Nat
      /\ a.size <= N(a) * PAGE_SIZE /\ N(a) * PAGE_SIZE < a.size + PAGE_SIZE
  BY <1>1, RoundUp DEF N
<1>3. Pointer(a) = (a.head + 1 + N(a)) * PAGE_SIZE - a.size
  BY DEF Pointer, get_payload, N
<1>4. (a.head + 1 + N(a)) * PAGE_SIZE = (a.head + 1) * PAGE_SIZE + N(a) * PAGE_SIZE
  BY <1>1, <1>2, AsanAssumption
<1>5. (a.head + 1) * PAGE_SIZE \in Int /\ N(a) * PAGE_SIZE \in Int /\ PAGE_SIZE \in Nat
  BY <1>1, <1>2, AsanAssumption
<1> DEFINE base == (a.head + 1) * PAGE_SIZE
           whole == N(a) * PAGE_SIZE
<1>6. Pointer(a) = base + (whole - a.size) /\ 0 <= whole - a.size /\ whole - a.size < PAGE_SIZE
  <2> HIDE DEF base, whole
  <2>1. base \in Int /\ whole \in Int
    BY <1>5 DEF base, whole
  <2>2. Pointer(a) = (base + whole) - a.size /\ a.size <= whole /\ whole < a.size + PAGE_SIZE
    BY <1>2, <1>3, <1>4 DEF base, whole
  <2>3. QED
    BY <2>1, <2>2, <1>1, <1>5
<1>7. Pointer(a) \div PAGE_SIZE = a.head + 1
  <2> HIDE DEF whole
  <2>1. a.head + 1 \in Int /\ whole - a.size \in Int
    BY <1>1, <1>5 DEF whole
  <2>2. ((a.head + 1) * PAGE_SIZE + (whole - a.size)) \div PAGE_SIZE = a.head + 1
    BY <2>1, <1>6, PageOf
  <2>3. QED
    BY <2>2, <1>6
<1>8. a.size = 0 => whole = 0
  BY <1>2, AsanAssumption
<1>9. Pointer(a) \in Int /\ base <= Pointer(a)
  BY <1>5, <1>6, <1>1
<1>10. Pointer(a) + a.size = (a.head + 1 + N(a)) * PAGE_SIZE
  BY <1>3, <1>4, <1>5, <1>1
<1>11. a.size # 0 \/ Pointer(a) = (a.head + 1) * PAGE_SIZE
  BY <1>6, <1>8, <1>5
<1>12. QED
  BY <1>1, <1>2, <1>7, <1>9, <1>10, <1>11

\* No page belongs to two allocations.
LEMMA PagesApart ==
    ASSUME IInv, NEW a \in allocs, NEW b \in allocs, NEW p \in Int,
           a.head <= p, p <= a.head + N(a) + 1, p \in PagesOf(b)
    PROVE  b = a /\ a.head < p /\ p <= a.head + N(a)
<1>1. a.head \in Nat /\ b.head \in Nat /\ N(a) \in Nat /\ N(b) \in Nat
  BY PointerPage
<1>2. b.head < p /\ p <= b.head + N(b)
  BY <1>1 DEF PagesOf, N
<1>3. ~ (b.head < a.head)
  <2>1. b.head < a.head => b.head + N(b) < a.head
    BY DEF IInv, AllocationsOrdered, N
  <2>2. QED
    BY <2>1, <1>1, <1>2
<1>4. ~ (a.head < b.head)
  <2>1. a.head < b.head => a.head + N(a) < b.head
    BY DEF IInv, AllocationsOrdered, N
  <2>2. QED
    BY <2>1, <1>1, <1>2
<1>5. b = a
  BY <1>1, <1>3, <1>4 DEF IInv, Placed
<1>6. QED
  BY <1>2, <1>5

\* The sanitizer catches what it is for: overflows by a byte, uses after free
\* and accesses to headers, and nothing that is right.
LEMMA CatchesAll == IInv => MisuseCaught
<1> SUFFICES ASSUME IInv, NEW a \in allocs
             PROVE  /\ \A i \in 0 .. a.size - 1 :
                          InHeap(Pointer(a) + i) => (Accessible(Pointer(a) + i) <=> a.live)
                    /\ ~ Accessible(Pointer(a) + a.size)
                    /\ \A i \in 0 .. PAGE_SIZE - 1 : ~ Accessible(a.head * PAGE_SIZE + i)
  BY DEF MisuseCaught
<1>1. /\ a.head \in Nat /\ a.size \in Nat /\ N(a) \in Nat /\ Pointer(a) \in Int
      /\ (a.head + 1) * PAGE_SIZE <= Pointer(a)
      /\ Pointer(a) + a.size = (a.head + 1 + N(a)) * PAGE_SIZE
  BY PointerPage
<1>2. ASSUME NEW i \in 0 .. a.size - 1, InHeap(Pointer(a) + i)
      PROVE  Accessible(Pointer(a) + i) <=> a.live
  <2> DEFINE p == (Pointer(a) + i) \div PAGE_SIZE
  <2>1. p \in Int /\ a.head + 1 <= p /\ p < a.head + 1 + N(a)
    <3> DEFINE lo == (a.head + 1) * PAGE_SIZE
               hi == (a.head + 1 + N(a)) * PAGE_SIZE
    <3>1. lo \in Int /\ hi \in Int
      BY <1>1, AsanAssumption
    <3>2. lo <= Pointer(a) + i /\ Pointer(a) + i < hi
      <4> HIDE DEF lo, hi
      <4>1. lo <= Pointer(a) /\ Pointer(a) + a.size = hi
        BY <1>1 DEF lo, hi
      <4>2. QED
        BY <4>1, <3>1, <1>1
    <3>3. QED
      BY <3>2, <1>1, PageRange
  <2>2. p \in PagesOf(a)
    <3> HIDE DEF p
    <3>1. QED
      BY <2>1, <1>1 DEF PagesOf, N
  <2>3. \A b \in allocs : p \in PagesOf(b) => b = a
    <3> HIDE DEF p
    <3>1. QED
      BY <2>1, <1>1, PagesApart
  <2>4. p \in Heap
    BY <1>2 DEF InHeap
  <2>5. prot[p] <=> a.live
    <3> HIDE DEF p
    <3>1. QED
      BY <2>2, <2>3, <2>4 DEF IInv, ProtectionExact
  <2>6. QED
    BY <2>4, <2>5 DEF Accessible
<1>3. ~ Accessible(Pointer(a) + a.size)
  <2> DEFINE q == a.head + 1 + N(a)
  <2>1. (q * PAGE_SIZE + 0) \div PAGE_SIZE = q /\ q * PAGE_SIZE + 0 = q * PAGE_SIZE
    BY <1>1, PageOf, AsanAssumption
  <2>2. (Pointer(a) + a.size) \div PAGE_SIZE = q
    BY <2>1, <1>1
  <2>3. \A b \in allocs : q \notin PagesOf(b)
    BY <1>1, PagesApart
  <2>4. QED
    BY <2>2, <2>3 DEF Accessible, IInv, ProtectionExact
<1>4. ASSUME NEW i \in 0 .. PAGE_SIZE - 1
      PROVE  ~ Accessible(a.head * PAGE_SIZE + i)
  <2>0. a.head \in Int /\ i \in Int /\ 0 <= i /\ i < PAGE_SIZE
    BY <1>1, AsanAssumption
  <2>1. (a.head * PAGE_SIZE + i) \div PAGE_SIZE = a.head
    BY <2>0, PageOf
  <2>2. \A b \in allocs : a.head \notin PagesOf(b)
    BY <1>1, PagesApart
  <2>3. QED
    BY <2>1, <2>2 DEF Accessible, IInv, ProtectionExact
<1>5. QED
  BY <1>2, <1>3, <1>4

\* What malloc returns may be used until it is freed; the byte behind it, its
\* header and what was freed raise a fault.
THEOREM MisuseIsCaught == Spec => []MisuseCaught
  BY Inductive, CatchesAll, PTL

-----------------------------------------------------------------------------
(* free() *)

\* An allocation is found by its pointer, and by that alone.
LEMMA FoundByPointer ==
    ASSUME IInv, NEW a \in allocs
    PROVE  LET h == Pointer(a) \div PAGE_SIZE - 1 IN
           /\ h = a.head /\ h \in Heap
           /\ page[h] = Header(a.size, a.live)
           /\ get_payload(h, page[h].size) = Pointer(a)
<1>1. Pointer(a) \div PAGE_SIZE - 1 = a.head
  BY PointerPage
<1>2. a.head \in Heap
  BY DEF IInv, Types
<1>3. page[a.head] = Header(a.size, a.live)
  BY DEF IInv, HeadersTrue
<1>4. page[a.head].size = a.size
  BY <1>3 DEF Header
<1>5. QED
  BY <1>1, <1>2, <1>3, <1>4 DEF Pointer

\* Two allocations never have the same pointer.
LEMMA SamePointer ==
    ASSUME IInv, NEW a \in allocs, NEW b \in allocs, Pointer(a) = Pointer(b)
    PROVE  a = b
  BY FoundByPointer DEF IInv, Placed

\* free_check names a pointer for what it is, if a report can be made.
LEMMA CheckIsRight ==
    ASSUME IInv, Room, NEW ptr \in Int, ptr # NULL, ptr < MAX_PAGES * PAGE_SIZE
    PROVE  free_check(ptr) = IF Verdict(ptr) = Running THEN 0 ELSE Verdict(ptr)
<1> DEFINE h == ptr \div PAGE_SIZE - 1
<1>r. \A code : Report(code, current_page) = code
  BY DEF Room, Report
<1>c. INVALID_FREE # Running /\ DOUBLE_FREE # Running
  BY DEF INVALID_FREE, DOUBLE_FREE, Running
<1>1. CASE ptr < PAGE_SIZE
  <2>1. free_check(ptr) = INVALID_FREE
    BY <1>1, <1>r DEF free_check
  <2>2. ASSUME NEW a \in allocs, Pointer(a) = ptr
        PROVE  FALSE
    <3>1. a.head \in Nat /\ (a.head + 1) * PAGE_SIZE <= ptr
      BY <2>2, PointerPage
    <3>2. PAGE_SIZE <= (a.head + 1) * PAGE_SIZE
      BY <3>1, AsanAssumption
    <3>3. (a.head + 1) * PAGE_SIZE \in Int /\ PAGE_SIZE \in Int
      BY <3>1, AsanAssumption
    <3>4. QED
      BY <3>1, <3>2, <3>3, <1>1
  <2>3. Verdict(ptr) = INVALID_FREE
    BY <2>2 DEF Verdict
  <2>4. QED
    BY <2>1, <2>3, <1>c
<1>2. CASE ~ (ptr < PAGE_SIZE)
  <2>1. h \in Heap
    <3>1. 1 * PAGE_SIZE <= ptr
      BY <1>2, AsanAssumption
    <3>2. ptr \div PAGE_SIZE \in Int /\ 1 <= ptr \div PAGE_SIZE /\ ptr \div PAGE_SIZE < MAX_PAGES
      BY <3>1, PageRange, AsanAssumption
    <3> DEFINE d == ptr \div PAGE_SIZE
    <3> HIDE DEF d
    <3>3. d \in Int /\ 1 <= d /\ d < MAX_PAGES
      BY <3>2 DEF d
    <3>4. d - 1 \in Heap
      BY <3>3, AsanAssumption DEF Heap
    <3>5. QED
      BY <3>4 DEF d
  <2>2. ~ (ptr > MAX_PAGES * PAGE_SIZE * PAGE_SIZE)
    <3>1. MAX_PAGES * PAGE_SIZE <= MAX_PAGES * PAGE_SIZE * PAGE_SIZE
      <4> DEFINE m == MAX_PAGES * PAGE_SIZE
      <4>1. m \in Nat
        BY AsanAssumption
      <4> HIDE DEF m
      <4>2. m <= m * PAGE_SIZE
        BY <4>1, AsanAssumption
      <4>3. QED
        BY <4>2 DEF m
    <3>2. MAX_PAGES * PAGE_SIZE \in Int /\ MAX_PAGES * PAGE_SIZE * PAGE_SIZE \in Int
      BY AsanAssumption
    <3>3. QED
      BY <3>1, <3>2
  <2> DEFINE ok == page[h].magic /\ get_payload(h, page[h].size) = ptr
  <2>3. free_check(ptr) = IF ~ ok THEN INVALID_FREE
                          ELSE IF ~ page[h].is_allocated THEN DOUBLE_FREE ELSE 0
    BY <1>2, <2>1, <2>2, <1>r DEF free_check
  <2>4. ASSUME NEW a \in allocs, Pointer(a) = ptr
        PROVE  ok /\ (page[h].is_allocated <=> a.live)
    <3>1. page[h] = Header(a.size, a.live) /\ get_payload(h, page[h].size) = ptr
      BY <2>4, FoundByPointer
    <3> HIDE DEF h
    <3>2. page[h].magic = TRUE /\ page[h].is_allocated = a.live
      BY <3>1 DEF Header
    <3>3. QED
      BY <3>1, <3>2
  <2>5. ok => \E a \in allocs : Pointer(a) = ptr
    <3> SUFFICES ASSUME ok PROVE \E a \in allocs : Pointer(a) = ptr
      OBVIOUS
    <3>1. PICK a \in allocs : a.head = h
      BY <2>1 DEF IInv, HeadersTrue
    <3>2. page[h].size = a.size
      <4>1. page[h] = Header(a.size, a.live)
        BY <3>1 DEF IInv, HeadersTrue
      <4>2. QED
        BY <4>1 DEF Header
    <3>3. QED
      BY <3>1, <3>2 DEF Pointer
  <2>6. CASE ~ ok
    <3>1. \A a \in allocs : Pointer(a) # ptr
      BY <2>4, <2>6
    <3>2. Verdict(ptr) = INVALID_FREE
      BY <3>1 DEF Verdict
    <3>3. QED
      BY <3>2, <2>3, <2>6, <1>c
  <2>7. CASE ok
    <3>1. PICK a \in allocs : Pointer(a) = ptr
      BY <2>5, <2>7
    <3>2. \A b \in allocs : Pointer(b) = ptr => b = a
      BY <3>1, SamePointer
    <3>3. Verdict(ptr) = IF a.live THEN Running ELSE DOUBLE_FREE
      BY <3>1, <3>2 DEF Verdict
    <3>4. page[h].is_allocated <=> a.live
      BY <3>1, <2>4
    <3>5. QED
      BY <3>3, <3>4, <2>3, <2>7, <1>c
  <2>8. QED
    BY <2>6, <2>7
<1>3. QED
  BY <1>1, <1>2

\* free() accepts what malloc returned, once, and names every other pointer into
\* or before the heap for what it is.
THEOREM FreeIsExact == Spec => FreeExact
<1>1. ASSUME IInv, [Next]_vars, NEW ptr \in Addresses, ptr < MAX_PAGES * PAGE_SIZE,
             free(ptr), Room
      PROVE  /\ status' = Verdict(ptr)
             /\ \A a \in allocs : a.live /\ Pointer(a) # ptr => a \in allocs'
  <2>0. ptr \in Int /\ status = Running
    BY <1>1, AsanAssumption DEF free
  <2>1. CASE ptr = NULL
    BY <1>1, <2>0, <2>1 DEF free, Verdict
  <2>2. CASE ptr # NULL
    <3>1. free_check(ptr) = IF Verdict(ptr) = Running THEN 0 ELSE Verdict(ptr)
      BY <1>1, <2>0, <2>2, CheckIsRight
    <3>2. Verdict(ptr) # 0
      BY DEF Verdict, Running, DOUBLE_FREE, INVALID_FREE
    <3>3. CASE Verdict(ptr) # Running
      BY <3>1, <3>2, <3>3, <2>2, <1>1 DEF free
    <3>4. CASE Verdict(ptr) = Running
      <4> DEFINE h == ptr \div PAGE_SIZE - 1
      <4>1. free_check(ptr) = 0 /\ Release(h)
        BY <3>1, <3>4, <2>2, <1>1 DEF free
      <4>2. status' = Running
        BY <4>1, <2>0 DEF Release
      <4>3. page[h].magic /\ get_payload(h, page[h].size) = ptr
        BY <4>1, <2>0, CheckedHeader
      <4>4. ASSUME NEW a \in allocs, Pointer(a) # ptr
            PROVE  a \in allocs'
        <5>1. a.head # h
          <6>1. SUFFICES ASSUME a.head = h PROVE FALSE
            OBVIOUS
          <6>2. page[h] = Header(a.size, a.live)
            BY <6>1, <1>1 DEF IInv, HeadersTrue
          <6>3. page[h].size = a.size
            BY <6>2 DEF Header
          <6>4. QED
            BY <6>1, <6>3, <4>3, <4>4 DEF Pointer
        <5>2. allocs' = {IF b.head = h THEN [b EXCEPT !.live = FALSE] ELSE b : b \in allocs}
          BY <4>1 DEF Release
        <5>3. QED
          BY <5>1, <5>2
      <4>5. QED
        BY <4>2, <4>4, <3>4
    <3>5. QED
      BY <3>3, <3>4
  <2>3. QED
    BY <2>1, <2>2
<1>2. IInv /\ [Next]_vars =>
        [\A ptr \in Addresses : ptr < MAX_PAGES * PAGE_SIZE /\ free(ptr) /\ Room =>
            /\ status' = Verdict(ptr)
            /\ \A a \in allocs : a.live /\ Pointer(a) # ptr => a \in allocs']_vars
  BY <1>1
<1>3. QED
  BY <1>2, Inductive, PTL DEF Spec, FreeExact

-----------------------------------------------------------------------------
(* check_for_leaks walks from header to header.  That needs more than IInv: *)
(* each allocation begins where another one ended, a page without a header  *)
(* does not look allocated, and the buffer of stdout is an allocation.      *)

\* The allocations follow each other without a gap, from the first page on.
Chain ==
    /\ current_page # 0 => \E a \in allocs : a.head = 0
    /\ \A a \in allocs : \/ a.head + 1 + N(a) = current_page
                         \/ \E b \in allocs : b.head = a.head + 1 + N(a)

\* Only a header says that it is allocated.
OthersBlank == \A p \in Heap : page[p].is_allocated => page[p].magic

\* The buffer of stdout was allocated, and no program can free it.
BufferLive ==
    /\ stdoutBuf \in Int
    /\ stdoutBuf # NULL => \E a \in allocs : a.live /\ Pointer(a) = stdoutBuf

\* Nothing is allocated before asan_init.
NothingBefore ==
    ~ is_initialized => current_page = 0 /\ stdoutBuf = NULL

WalkInv == Chain /\ OthersBlank /\ BufferLive /\ NothingBefore

\* No allocation begins at address NULL.
LEMMA PointerNotNull ==
    ASSUME IInv, NEW a \in allocs
    PROVE  Pointer(a) # NULL
  <1>1. a.head \in Nat /\ Pointer(a) \in Int /\ (a.head + 1) * PAGE_SIZE <= Pointer(a)
    BY PointerPage
  <1>2. (a.head + 1) * PAGE_SIZE > 0
    BY <1>1, AsanAssumption
  <1> QED  BY <1>1, <1>2, AsanAssumption DEF NULL

\* Before the first call there is nothing to walk.
LEMMA InitWalkInv == Init => WalkInv
  BY AsanAssumption DEF Init, WalkInv, Chain, OthersBlank, BufferLive, NothingBefore, NULL, NoHeader, Heap

\* An allocation begins where the last one ended.
LEMMA AllocateWalkInv ==
    ASSUME IInv, WalkInv, NEW size \in Nat, Allocate(size),
           \/ stdoutBuf' = stdoutBuf
           \/ ~ is_initialized /\ stdoutBuf' = get_payload(current_page, size)
    PROVE  WalkInv'
  <1> DEFINE new == [head |-> current_page, size |-> size, live |-> TRUE]
  <1>t. Types /\ Placed
    BY DEF IInv
  <1>1. CASE current_page \in Heap
    <2>1. /\ page' = [page EXCEPT ![current_page] = Header(size, TRUE)]
          /\ current_page' = current_page + 1 + pages_round_up(size)
          /\ allocs' = allocs \cup {new}
      BY <1>1 DEF Allocate
    <2>2. pages_round_up(size) \in Nat /\ current_page \in Nat
      BY <1>t, RoundUp DEF Types
    <2>n. new \in allocs' /\ new.head = current_page
      BY <2>1
    <2>3. Chain'
      <3>1. \E a \in allocs' : a.head = 0
        <4>1. CASE current_page = 0
          BY <2>n, <4>1
        <4>2. CASE current_page # 0
          BY <2>1, <4>2 DEF WalkInv, Chain
        <4> QED  BY <4>1, <4>2
      <3>2. ASSUME NEW a \in allocs'
            PROVE  \/ a.head + 1 + N(a) = current_page'
                   \/ \E b \in allocs' : b.head = a.head + 1 + N(a)
        <4>1. CASE a = new
          BY <4>1, <2>1 DEF N
        <4>2. CASE a \in allocs /\ a.head + 1 + N(a) = current_page
          BY <4>2, <2>n
        <4>3. CASE a \in allocs /\ a.head + 1 + N(a) # current_page
          BY <4>3, <2>1 DEF WalkInv, Chain
        <4> QED  BY <2>1, <4>1, <4>2, <4>3
      <3> QED  BY <3>1, <3>2 DEF Chain, N
    <2>4. OthersBlank'
      BY <2>1, <1>t, <1>1 DEF WalkInv, OthersBlank, Types, Header
    <2>5. BufferLive'
      <3>1. CASE stdoutBuf' = stdoutBuf
        BY <2>1, <3>1 DEF WalkInv, BufferLive
      <3>2. CASE stdoutBuf' = get_payload(current_page, size)
        <4>1. Pointer(new) = stdoutBuf' /\ new.live
          BY <3>2 DEF Pointer
        <4>2. stdoutBuf' \in Int
          BY <3>2, <2>2, AsanAssumption DEF get_payload
        <4> QED  BY <4>1, <4>2, <2>1 DEF BufferLive
      <3> QED  BY <3>1, <3>2
    <2>6. NothingBefore'
      BY DEF NothingBefore, Allocate
    <2> QED  BY <2>3, <2>4, <2>5, <2>6 DEF WalkInv
  <1>2. CASE current_page \notin Heap
    <2>1. UNCHANGED <<page, current_page, allocs>> /\ is_initialized'
      BY <1>2 DEF Allocate
    <2>2. current_page # 0
      BY <1>2, AsanAssumption DEF Heap
    <2>3. stdoutBuf' = stdoutBuf
      BY <2>2 DEF WalkInv, NothingBefore
    <2> QED
      BY <2>1, <2>3 DEF WalkInv, Chain, OthersBlank, BufferLive, NothingBefore, N
  <1> QED  BY <1>1, <1>2

\* A free keeps the sizes, and the buffer of stdout is not what it frees.
LEMMA ReleaseWalkInv ==
    ASSUME IInv, WalkInv, NEW ptr \in Int, free_check(ptr) = 0, ptr # stdoutBuf,
           Release((ptr \div PAGE_SIZE) - 1), is_initialized'
    PROVE  WalkInv'
  <1> DEFINE h == (ptr \div PAGE_SIZE) - 1
             dead(a) == IF a.head = h THEN [a EXCEPT !.live = FALSE] ELSE a
  <1>t. Types /\ Placed /\ HeadersTrue
    BY DEF IInv
  <1>1. h \in Heap /\ page[h].magic /\ get_payload(h, page[h].size) = ptr
    BY CheckedHeader
  <1>2. /\ page' = [page EXCEPT ![h] = Header(page[h].size, FALSE)]
        /\ allocs' = {dead(a) : a \in allocs}
        /\ UNCHANGED <<current_page, stdoutBuf>>
    BY DEF Release
  <1> HIDE DEF h
  <1>3. ASSUME NEW a \in allocs
        PROVE  dead(a).head = a.head /\ N(dead(a)) = N(a) /\ dead(a) \in allocs'
    <2>1. a \in [head : Heap, size : Nat, live : BOOLEAN]
      BY <1>t DEF Types
    <2>2. dead(a).head = a.head /\ dead(a).size = a.size
      BY <2>1
    <2>3. dead(a) \in allocs'
      BY <1>2
    <2> QED  BY <2>2, <2>3 DEF N
  <1>4. Chain'
    <2>1. current_page' # 0 => \E a \in allocs' : a.head = 0
      BY <1>2, <1>3 DEF WalkInv, Chain
    <2>2. ASSUME NEW c \in allocs'
          PROVE  \/ c.head + 1 + N(c) = current_page'
                 \/ \E b \in allocs' : b.head = c.head + 1 + N(c)
      <3>1. PICK a \in allocs : c = dead(a)
        BY <1>2
      <3>2. c.head = a.head /\ N(c) = N(a)
        BY <3>1, <1>3
      <3>3. CASE a.head + 1 + N(a) = current_page
        BY <3>2, <3>3, <1>2
      <3>4. ASSUME NEW b \in allocs, b.head = a.head + 1 + N(a)
            PROVE  \E d \in allocs' : d.head = c.head + 1 + N(c)
        BY <3>2, <3>4, <1>3
      <3> QED  BY <3>3, <3>4 DEF WalkInv, Chain
    <2> QED  BY <2>1, <2>2 DEF Chain, N
  <1>5. OthersBlank'
    BY <1>2, <1>t, <1>1 DEF WalkInv, OthersBlank, Types, Header
  <1>6. BufferLive'
    <2>1. ASSUME NEW a \in allocs, a.live, Pointer(a) = stdoutBuf
          PROVE  a \in allocs'
      <3>1. a.head # h
        <4> SUFFICES ASSUME a.head = h PROVE FALSE
          OBVIOUS
        <4>1. page[h] = Header(a.size, a.live)
          BY <1>t DEF HeadersTrue
        <4>2. page[h].size = a.size
          BY <4>1 DEF Header
        <4> QED  BY <4>2, <2>1, <1>1 DEF Pointer
      <3> QED  BY <3>1, <1>2
    <2> QED  BY <1>2, <2>1 DEF WalkInv, BufferLive
  <1>7. NothingBefore'
    BY DEF NothingBefore
  <1> QED  BY <1>4, <1>5, <1>6, <1>7 DEF WalkInv

\* Every step keeps WalkInv.
LEMMA NextWalkInv == IInv /\ WalkInv /\ [Next]_vars => WalkInv'
  <1> SUFFICES ASSUME IInv, WalkInv, [Next]_vars
               PROVE  WalkInv'
    OBVIOUS
  <1>0. ASSUME UNCHANGED <<current_page, page, allocs, stdoutBuf>>,
               is_initialized' \/ is_initialized' = is_initialized
        PROVE  WalkInv'
    BY <1>0 DEF WalkInv, Chain, OthersBlank, BufferLive, NothingBefore, N
  <1>1. ASSUME NEW size \in Sizes, malloc(size)
        PROVE  WalkInv'
    BY <1>1, AllocateWalkInv, AsanAssumption DEF malloc
  <1>2. CASE printf
    BY <1>2, AllocateWalkInv, AsanAssumption DEF printf
  <1>3. ASSUME NEW ptr \in Addresses, free(ptr)
        PROVE  WalkInv'
    <2>1. CASE ptr # NULL /\ free_check(ptr) = 0
      BY <1>3, <2>1, ReleaseWalkInv, AsanAssumption DEF free
    <2>2. CASE ~ (ptr # NULL /\ free_check(ptr) = 0)
      BY <1>3, <2>2, <1>0 DEF free
    <2> QED  BY <2>1, <2>2
  <1>4. ASSUME NEW addr \in Addresses, access(addr)
        PROVE  WalkInv'
    BY <1>4, <1>0 DEF access, Exit, vars
  <1>5. CASE exit
    BY <1>5, <1>0 DEF exit, Exit
  <1>6. CASE UNCHANGED vars
    BY <1>6, <1>0 DEF vars
  <1> QED  BY <1>1, <1>2, <1>3, <1>4, <1>5, <1>6 DEF Next

\* WalkInv always holds.
LEMMA WalkInductive == Spec => [](IInv /\ WalkInv)
  BY InitIInv, NextIInv, InitWalkInv, NextWalkInv, PTL DEF Spec

-----------------------------------------------------------------------------
(* The walk *)

\* A set of natural numbers that is not empty has a least one.
LEMMA LeastNat ==
    ASSUME NEW T, T \subseteq Nat, T # {}
    PROVE  \E m \in T : \A i \in T : m <= i
  <1>1. PICK m \in T : \A i \in T : ~ (<<i, m>> \in OpToRel(<, Nat))
    BY WFMin, NatLessThanWellFounded
  <1>2. \A i \in T : ~ (i < m)
    BY <1>1 DEF OpToRel
  <1> QED  BY <1>2

\* Where the loop goes from the header of page p.
After(pg, p) == p + 1 + pages_round_up(pg[p].size)

\* One turn of the loop, which goes on as f says, and the whole walk.
Turn(pg, f, p) ==
    IF p \notin Heap THEN sigsegv_handler(p * PAGE_SIZE, current_page)
    ELSE IF pg[p].is_allocated THEN MEMORY_LEAK
    ELSE IF p < current_page THEN f[After(pg, p)]
    ELSE 0

IsWalk(pg, f) == f = [p \in Nat |-> Turn(pg, f, p)]

Headers == [Heap -> [magic : BOOLEAN, size : Nat, is_allocated : BOOLEAN]]

\* The loop goes forwards.
LEMMA WalkForwards ==
    ASSUME NEW pg \in Headers, NEW p \in Heap
    PROVE  After(pg, p) \in Nat /\ After(pg, p) > p
  <1>1. pg[p] \in [magic : BOOLEAN, size : Nat, is_allocated : BOOLEAN]
    BY DEF Headers
  <1>2. pages_round_up(pg[p].size) \in Nat
    BY <1>1, RoundUp
  <1>3. p \in Nat
    BY AsanAssumption DEF Heap
  <1> QED  BY <1>2, <1>3 DEF After

\* A turn depends on the walk from later pages only.
LEMMA TurnLocal ==
    ASSUME NEW pg \in Headers, NEW f, NEW g, NEW p \in Nat,
           \A q \in Nat : q > p => f[q] = g[q]
    PROVE  Turn(pg, f, p) = Turn(pg, g, p)
  <1>1. CASE p \in Heap
    <2>1. f[After(pg, p)] = g[After(pg, p)]
      BY <1>1, WalkForwards
    <2> QED  BY <2>1 DEF Turn
  <1>2. CASE p \notin Heap
    BY <1>2 DEF Turn
  <1> QED  BY <1>1, <1>2

\* The loop ends, so that the walk is defined.
LEMMA WalkExists ==
    ASSUME NEW pg \in Headers
    PROVE  \E f : IsWalk(pg, f)
  <1>m. MAX_PAGES \in Nat /\ \A p \in Heap : p \in Nat /\ p < MAX_PAGES
    BY AsanAssumption DEF Heap
  <1> DEFINE From(f, n) == \A p \in Nat : p >= MAX_PAGES - n => f[p] = Turn(pg, f, p)
             Bad == {n \in Nat : ~ \E f : From(f, n)}
  <1>0. \E f : From(f, 0)
    <2> DEFINE z == [p \in Nat |-> sigsegv_handler(p * PAGE_SIZE, current_page)]
    <2>1. ASSUME NEW p \in Nat, p >= MAX_PAGES - 0 PROVE z[p] = Turn(pg, z, p)
      <3>1. p \notin Heap
        BY <2>1, <1>m
      <3> QED  BY <3>1 DEF Turn
    <2> QED  BY <2>1
  <1>1. Bad = {}
    <2> SUFFICES ASSUME Bad # {} PROVE FALSE  OBVIOUS
    <2>1. PICK n \in Bad : \A m \in Bad : n <= m
      BY LeastNat
    <2>2. n # 0
      BY <1>0
    <2>3. n - 1 \in Nat /\ n - 1 \notin Bad
      BY <2>1, <2>2
    <2>4. PICK f : From(f, n - 1)
      BY <2>3
    <2> DEFINE g == [p \in Nat |-> IF p >= MAX_PAGES - (n - 1) THEN f[p] ELSE Turn(pg, f, p)]
    <2>5. ASSUME NEW p \in Nat, p >= MAX_PAGES - n PROVE g[p] = Turn(pg, g, p)
      <3>1. ASSUME NEW q \in Nat, q > p PROVE f[q] = g[q]
        <4>1. q >= MAX_PAGES - (n - 1)
          BY <3>1, <2>5, <1>m, <2>3
        <4> QED  BY <4>1
      <3>2. g[p] = Turn(pg, f, p)
        BY <2>4
      <3> HIDE DEF g
      <3>3. Turn(pg, f, p) = Turn(pg, g, p)
        BY <3>1, TurnLocal
      <3> QED  BY <3>2, <3>3
    <2> HIDE DEF g
    <2>6. From(g, n)
      BY <2>5
    <2> QED  BY <2>6, <2>1
  <1>2. PICK f : From(f, MAX_PAGES)
    BY <1>1, <1>m
  <1> DEFINE g == [p \in Nat |-> f[p]]
  <1>3. ASSUME NEW p \in Nat PROVE g[p] = Turn(pg, g, p)
    <2>1. p >= MAX_PAGES - MAX_PAGES
      BY <1>m
    <2>2. f[p] = Turn(pg, f, p)
      BY <1>2, <2>1
    <2>3. g[p] = f[p] /\ \A q \in Nat : q > p => f[q] = g[q]
      OBVIOUS
    <2> HIDE DEF g
    <2>4. Turn(pg, f, p) = Turn(pg, g, p)
      BY <2>3, TurnLocal
    <2> QED  BY <2>2, <2>3, <2>4
  <1>4. g = [p \in Nat |-> g[p]]
    OBVIOUS
  <1> HIDE DEF g
  <1>5. IsWalk(pg, g)
    BY <1>3, <1>4 DEF IsWalk
  <1> QED  BY <1>5

Leaking(a) == a.live /\ Pointer(a) # stdoutBuf

\* fclose frees the buffer of stdout and touches no other header.
LEMMA HeadersAtExit ==
    ASSUME IInv, WalkInv
    PROVE  /\ fclose(page) \in Headers
           /\ \A a \in allocs : /\ fclose(page)[a.head].size = a.size
                                /\ fclose(page)[a.head].is_allocated <=> Leaking(a)
           /\ \A p \in Heap : (\A a \in allocs : a.head # p) => ~ fclose(page)[p].is_allocated
  <1> DEFINE pg == fclose(page)
             buf(p) == stdoutBuf # NULL /\ p = (stdoutBuf \div PAGE_SIZE) - 1
  <1>t. Types /\ Placed /\ HeadersTrue
    BY DEF IInv
  <1>1. page \in Headers
    BY <1>t DEF Types, Headers
  <1>2. \A p \in Heap : pg[p] = IF buf(p) THEN Header(page[p].size, FALSE) ELSE page[p]
    BY DEF fclose
  <1>3. pg \in Headers
    <2>1. ASSUME NEW p \in Heap
          PROVE  pg[p] \in [magic : BOOLEAN, size : Nat, is_allocated : BOOLEAN]
      <3>1. page[p] \in [magic : BOOLEAN, size : Nat, is_allocated : BOOLEAN]
        BY <1>1 DEF Headers
      <3>2. Header(page[p].size, FALSE) \in [magic : BOOLEAN, size : Nat, is_allocated : BOOLEAN]
        BY <3>1 DEF Header
      <3>3. pg[p] = Header(page[p].size, FALSE) \/ pg[p] = page[p]
        BY <1>2
      <3> HIDE DEF pg
      <3> QED  BY <3>1, <3>2, <3>3
    <2>2. pg = [p \in Heap |-> pg[p]]
      BY DEF fclose
    <2> HIDE DEF pg
    <2> QED  BY <2>1, <2>2 DEF Headers
  <1>4. ASSUME NEW a \in allocs
        PROVE  pg[a.head].size = a.size /\ (pg[a.head].is_allocated <=> Leaking(a))
    <2>1. a.head \in Heap /\ a.size \in Nat /\ a.live \in BOOLEAN
      BY <1>t DEF Types
    <2>2. page[a.head].size = a.size /\ (page[a.head].is_allocated <=> a.live)
      <3>1. page[a.head] = Header(a.size, a.live)
        BY <1>t DEF HeadersTrue
      <3> QED  BY <3>1 DEF Header
    <2>3. CASE buf(a.head)
      <3>1. PICK b \in allocs : Pointer(b) = stdoutBuf
        BY <2>3 DEF WalkInv, BufferLive
      <3>2. b.head = a.head
        BY <3>1, <2>3, FoundByPointer
      <3>3. ~ Leaking(a)
        BY <3>1, <3>2, <1>t DEF Placed, Leaking
      <3>4. pg[a.head] = Header(a.size, FALSE)
        BY <1>2, <2>1, <2>2, <2>3
      <3> HIDE DEF pg
      <3> QED  BY <3>3, <3>4 DEF Header
    <2>4. CASE ~ buf(a.head)
      <3>1. Pointer(a) # stdoutBuf
        BY <2>4, PointerNotNull, FoundByPointer
      <3>2. pg[a.head] = page[a.head]
        BY <1>2, <2>1, <2>4
      <3> HIDE DEF pg
      <3> QED  BY <3>1, <3>2, <2>2 DEF Leaking
    <2> QED  BY <2>3, <2>4
  <1>5. ASSUME NEW p \in Heap, \A a \in allocs : a.head # p
        PROVE  ~ pg[p].is_allocated
    <2>1. ~ page[p].is_allocated
      BY <1>5, <1>t DEF HeadersTrue, WalkInv, OthersBlank
    <2>2. pg[p] = Header(page[p].size, FALSE) \/ pg[p] = page[p]
      BY <1>2, Zenon
    <2> HIDE DEF pg
    <2> QED  BY <2>1, <2>2 DEF Header
  <1> QED  BY <1>3, <1>4, <1>5

\* From a header or the end of all, the walk finds the leaks that are ahead; without
\* one it ends where the last allocation does, in the heap or behind it.
Ahead(p) == \E a \in allocs : a.head >= p /\ Leaking(a)

Stop(p) == p = current_page \/ \E a \in allocs : a.head = p

WalkAnswer(f, p) ==
    f[p] = IF Ahead(p) THEN MEMORY_LEAK ELSE IF current_page \in Heap THEN 0 ELSE Killed

\* Behind the heap there is no room for a report either.
LEMMA KilledBehind ==
    ASSUME IInv, current_page \notin Heap, NEW addr
    PROVE  sigsegv_handler(addr, current_page) = Killed
  <1>1. current_page \in Nat /\ LINES \in Nat
    BY AsanAssumption DEF IInv, Types
  <1>2. pages_round_up(LINES) \in Nat
    BY <1>1, RoundUpNat, Zenon
  <1>3. current_page + pages_round_up(LINES) \notin Heap
    BY <1>1, <1>2, AsanAssumption DEF Heap
  <1> QED  BY <1>3, Zenon DEF sigsegv_handler, Report

\* A turn of the loop is right if all later ones are.
LEMMA TurnRight ==
    ASSUME IInv, WalkInv, NEW f, NEW p \in Nat, Stop(p),
           f[p] = Turn(fclose(page), f, p),
           \A q \in Nat : q > p /\ q <= current_page /\ Stop(q) => WalkAnswer(f, q)
    PROVE  WalkAnswer(f, p)
  <1> DEFINE pg == fclose(page)
  <1>t. Types /\ Placed
    BY DEF IInv
  <1>c. current_page \in Nat
    BY <1>t DEF Types
  <1>h. ASSUME NEW a \in allocs
        PROVE  a.head \in Nat /\ a.head \in Heap /\ N(a) \in Nat /\ a.head + N(a) < current_page
    BY <1>t, PointerPage DEF Types, Placed
  <1>1. CASE p = current_page
    <2>1. ~ Ahead(p)
      BY <1>1, <1>h, <1>c DEF Ahead
    <2>2. \A a \in allocs : a.head # p
      BY <1>1, <1>h, <1>c
    <2>3. CASE p \in Heap
      <3>1. ~ pg[p].is_allocated
        BY <2>2, <2>3, HeadersAtExit
      <3>2. f[p] = 0
        BY <2>3, <3>1, <1>1, <1>c DEF Turn
      <3> QED  BY <2>1, <2>3, <3>2, <1>1, Zenon DEF WalkAnswer
    <2>4. CASE p \notin Heap
      <3>1. f[p] = sigsegv_handler(p * PAGE_SIZE, current_page)
        BY <2>4, Zenon DEF Turn
      <3>2. f[p] = Killed
        BY <2>4, <3>1, <1>1, KilledBehind, Zenon
      <3> QED  BY <2>1, <2>4, <3>2, <1>1, Zenon DEF WalkAnswer
    <2> QED  BY <2>3, <2>4, Zenon
  <1>2. ASSUME NEW a \in allocs, a.head = p
        PROVE  WalkAnswer(f, p)
    <2>1. /\ p \in Heap /\ p < current_page
          /\ N(a) \in Nat /\ p + N(a) < current_page
      BY <1>2, <1>h, <1>c
    <2>2. pg[p].size = a.size /\ (pg[p].is_allocated <=> Leaking(a))
      BY <1>2, HeadersAtExit
    <2>3. CASE Leaking(a)
      <3>1. Ahead(p)
        BY <1>2, <2>3 DEF Ahead
      <3>2. f[p] = MEMORY_LEAK
        BY <2>1, <2>2, <2>3 DEF Turn
      <3> QED  BY <3>1, <3>2 DEF WalkAnswer
    <2>4. CASE ~ Leaking(a)
      <3> DEFINE q == p + 1 + N(a)
      <3>1. After(pg, p) = q
        BY <2>2 DEF After, N
      <3>2. f[p] = f[q]
        BY <2>1, <2>2, <2>4, <3>1 DEF Turn
      <3>3. q \in Nat /\ q > p /\ q <= current_page
        BY <2>1, <1>c
      <3>4. Stop(q)
        BY <1>2 DEF WalkInv, Chain, Stop
      <3>5. ASSUME NEW b \in allocs, Leaking(b)
            PROVE  b.head >= p <=> b.head >= q
        <4>1. b.head # p
          BY <3>5, <2>4, <1>2, <1>t DEF Placed
        <4>2. p < b.head => p + N(a) < b.head
          BY <1>2 DEF IInv, AllocationsOrdered, N
        <4>3. b.head \in Nat
          BY <1>h
        <4> QED  BY <4>1, <4>2, <4>3, <2>1
      <3>6. Ahead(p) <=> Ahead(q)
        BY <3>5 DEF Ahead
      <3> HIDE DEF q
      <3>7. WalkAnswer(f, q)
        BY <3>3, <3>4, <3>6
      <3> QED  BY <3>2, <3>6, <3>7 DEF WalkAnswer
    <2> QED  BY <2>3, <2>4
  <1> QED  BY <1>1, <1>2 DEF Stop

\* The walk is right from every header, by induction from the last to the first.
LEMMA WalkRight ==
    ASSUME IInv, WalkInv, NEW f, IsWalk(fclose(page), f), NEW p \in Nat, p <= current_page,
           Stop(p)
    PROVE  WalkAnswer(f, p)
  <1>c. current_page \in Nat
    BY DEF IInv, Types
  <1>0. \A q \in Nat : f[q] = Turn(fclose(page), f, q)
    BY DEF IsWalk
  <1> DEFINE Claim(q) == Stop(q) => WalkAnswer(f, q)
             Bad == {n \in Nat : n <= current_page /\ ~ Claim(current_page - n)}
  <1>1. Bad = {}
    <2> SUFFICES ASSUME Bad # {} PROVE FALSE  OBVIOUS
    <2>1. PICK n \in Bad : \A m \in Bad : n <= m
      BY LeastNat, Zenon
    <2> DEFINE r == current_page - n
    <2>2. r \in Nat /\ n \in Nat /\ ~ Claim(r)
      BY <2>1, <1>c
    <2>3. ASSUME NEW q \in Nat, q > r, q <= current_page
          PROVE  Claim(q)
      <3> DEFINE m == current_page - q
      <3>1. m \in Nat /\ m < n /\ m <= current_page /\ current_page - m = q
        BY <2>3, <2>2, <1>c
      <3>2. m \notin Bad
        BY <3>1, <2>1, <2>2
      <3> QED  BY <3>1, <3>2
    <2> HIDE DEF r, Bad
    <2> QED  BY <2>2, <2>3, <1>0, TurnRight
  <1>2. current_page - p \in Nat /\ current_page - p <= current_page
        /\ current_page - (current_page - p) = p
    BY <1>c
  <1>3. Claim(p)
    BY <1>1, <1>2
  <1> QED  BY <1>3

\* A program that ends is told of a leak exactly if it has one: check_for_leaks
\* finds every allocation that was not freed and takes nothing else for one.  Without
\* a leak it is killed exactly if the heap is full to its last page.
THEOREM ExitIsExact == Spec => ExitExact
  <1>1. ASSUME IInv, WalkInv, exit
        PROVE  status' = IF Leaks THEN MEMORY_LEAK
                         ELSE IF current_page \in Heap THEN 0 ELSE Killed
    <2>c. current_page \in Nat
      BY <1>1 DEF IInv, Types
    <2>l. Leaks <=> Ahead(0)
      <3>1. \A a \in allocs : a.head >= 0
        BY <1>1, PointerPage
      <3> QED  BY <3>1 DEF Leaks, Ahead, Leaking
    <2>e. current_page = 0 => ~ Leaks
      BY <1>1, <2>c, PointerPage DEF IInv, Placed, Leaks
    <2>1. CASE current_page = 0
      <3>1. current_page \in Heap
        BY <2>1, AsanAssumption DEF Heap
      <3>2. status' = 0
        BY <1>1, <2>1, Zenon DEF exit, Exit, check_for_leaks
      <3> QED  BY <2>1, <2>e, <3>1, <3>2, Zenon
    <2>2. CASE current_page # 0
      <3>1. is_initialized
        BY <1>1, <2>2 DEF WalkInv, NothingBefore
      <3> DEFINE pg == fclose(page)
                 f == CHOOSE g : IsWalk(pg, g)
      <3>2. pg \in Headers
        BY <1>1, HeadersAtExit
      <3>3. IsWalk(pg, f)
        BY <3>2, WalkExists
      <3>4. check_for_leaks(pg) = f[0]
        BY <2>2 DEF check_for_leaks, IsWalk, Turn, After
      <3>5. Stop(0)
        BY <1>1, <2>2 DEF WalkInv, Chain, Stop
      <3> HIDE DEF f
      <3>6. WalkAnswer(f, 0)
        BY <1>1, <2>c, <2>l, <3>3, <3>5, WalkRight
      <3>7. status' = f[0]
        BY <1>1, <3>1, <3>4 DEF exit, Exit
      <3> QED  BY <3>6, <3>7, <2>l DEF WalkAnswer
    <2> QED  BY <2>1, <2>2
  <1>2. IInv /\ WalkInv /\ [Next]_vars =>
          [exit => status' = IF Leaks THEN MEMORY_LEAK
                             ELSE IF current_page \in Heap THEN 0 ELSE Killed]_vars
    BY <1>1
  <1> QED  BY <1>2, WalkInductive, PTL DEF Spec, ExitExact

==============================================================================
