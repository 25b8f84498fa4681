-------------------------------- MODULE VMIter --------------------------------
(***************************************************************************)
(* vmiter of mini-operating-system/k-vmiter.cc and k-vmiter.hh: a position *)
(* in a page table of Levels levels, and the walks and updates that start  *)
(* from it.  An iterator is a record of                                    *)
(*   pt          the root table                                            *)
(*   tab, idx    the entry it stands on, pep_                              *)
(*   level       the level of that entry                                   *)
(*   perm        the permissions the levels above allow                    *)
(*   va          its virtual address                                       *)
(* Virtual addresses run from 0 through the canonical ones below VA_LOWEND *)
(* to the end of what the root table has entries for.                      *)
(***************************************************************************)
EXTENDS PhysMem, Sequences

CONSTANT Levels

ASSUME LevelsAssumption == Levels \in Nat \ {0}

Top == Levels - 1

PWU == {"P", "W", "U"}

\* pageoffmask(level) + 1: the bytes an entry of that level covers
Span(level) == PAGESIZE * Fanout ^ level

VA_NONCANONEND == Span(Levels)
VA_LOWEND == VA_NONCANONEND \div 2

va_is_canonical(va) == va < VA_LOWEND

pageindex(va, level) == (va \div Span(level)) % Fanout

\* The one-entry table zero_pe of addresses that are not canonical.
zero_pe == -1

Here(mem, it) == Entry(mem, it.tab, it.idx)

-----------------------------------------------------------------------------
DownStep(mem, it) ==
    LET e == Here(mem, it) IN
    IF it.level > 0 /\ "P" \in e.perm /\ "PS" \notin e.perm
    THEN [it EXCEPT !.perm = @ \cap e.perm,
                    !.level = @ - 1,
                    !.tab = e.pa,
                    !.idx = pageindex(it.va, it.level - 1)]
    ELSE it

down(mem, it) ==
    LET walk[n \in 0 .. Top] ==
            IF n = 0 THEN it ELSE LET at == walk[n - 1] IN DownStep(mem, at)
    IN  walk[Top]

\* down() ends on a table that nobody initialized
Panics(mem, it) == Here(mem, it).pa >= FourGiB

AtRoot(pt, va) ==
    IF va_is_canonical(va)
    THEN [pt |-> pt, tab |-> pt, idx |-> pageindex(va, Top), level |-> Top,
          perm |-> PWU, va |-> va]
    ELSE [pt |-> pt, tab |-> zero_pe, idx |-> 0, level |-> Top, perm |-> {}, va |-> va]

\* variant: the table in use is kept although the new address lies outside it
real_find_KeepsTable(mem, it, va) ==
    IF it.level = Top THEN down(mem, AtRoot(it.pt, va))
    ELSE down(mem, [it EXCEPT !.idx = pageindex(va, it.level), !.va = va])

\* The walk goes on from the table in use if that covers the new address.
real_find(mem, it, va) ==
    IF it.level = Top \/ it.va \div Span(it.level + 1) # va \div Span(it.level + 1)
    THEN down(mem, AtRoot(it.pt, va))
    ELSE down(mem, [it EXCEPT !.idx = pageindex(va, it.level), !.va = va])

vmiter(mem, pt, va) == real_find(mem, AtRoot(pt, 0), va)

pa(mem, it) ==
    IF "P" \in Here(mem, it).perm
    THEN Here(mem, it).pa + (it.va % Span(it.level))
    ELSE -1

perm(mem, it) ==
    LET p == Here(mem, it).perm \cap it.perm IN IF "P" \in p THEN p ELSE {}

last_va(it) == (it.va \div Span(it.level) + 1) * Span(it.level)

\* To the next page; a region with no table is passed in one step.
next(mem, it) ==
    LET level == IF it.level > 0 /\ perm(mem, it) = {} THEN it.level ELSE 0 IN
    real_find(mem, it, (it.va \div Span(level) + 1) * Span(level))

next_range(mem, it) == real_find(mem, it, last_va(it))

\* variant: the last part of the range is not looked at
range_perm_Short(mem, at, bytes) ==
    IF bytes > Span(at.level) /\ perm(mem, at) # {}
    THEN perm(mem, at) \cap perm(mem, next_range(mem, at))
    ELSE perm(mem, at)

\* The permissions that all of the range has.
range_perm(mem, at, bytes) ==
    LET more(w) == "P" \in w.p /\ w.sz > Span(w.it.level)
        step(w) == LET i == next_range(mem, w.it) IN
                   [it |-> i, sz |-> w.sz - Span(w.it.level), p |-> w.p \cap perm(mem, i)]
        first == [it |-> at, sz |-> bytes, p |-> perm(mem, at)]
        start == [first EXCEPT !.sz = @ + (at.va % Span(at.level))]
        walk[n \in 1 .. VA_LOWEND] ==
            IF n = 1 THEN step(start)
            ELSE LET w == walk[n - 1] IN IF more(w) THEN step(w) ELSE w
    IN  IF ~ more(first) THEN first.p
        ELSE IF bytes > VA_LOWEND - at.va THEN {}
        ELSE LET p == walk[VA_LOWEND].p IN IF "P" \in p THEN p ELSE {}

-----------------------------------------------------------------------------
\* The result of a try_map that fails an assertion or panics; 0 and -1 are the
\* code's own.
Asserts == 1

\* try_map is at it; r is what it returns so far.
Arrived(s, it) == [s |-> s, it |-> it, r |-> IF Panics(s.mem, it) THEN Asserts ELSE 0]

Store(s, it, p, prm) ==
    [s EXCEPT !.mem = SetEntry(@, it.tab, it.idx, [pa |-> p, perm |-> prm])]

Descend(s, it) == Arrived(s, down(s.mem, it))

\* a: what kalloc_pagetable returned
EnterTable(w, a) ==
    IF a.pa = nullptr THEN [w EXCEPT !.r = -1]
    ELSE Descend(Store(a.s, w.it, a.pa, PWU), w.it)

\* One more table on the way down to level 0.
AddTable(w) ==
    IF w.r # 0 \/ w.it.level = 0 THEN w
    ELSE IF "P" \in Here(w.s.mem, w.it).perm THEN [w EXCEPT !.r = Asserts]
    ELSE EnterTable(w, kalloc_pagetable(w.s))

AddTables(s, it, prm) ==
    LET walk[n \in 0 .. Top] ==
            IF n = 0 THEN [s |-> s, it |-> it, r |-> 0]
            ELSE LET w == walk[n - 1] IN IF prm = {} THEN w ELSE AddTable(w)
    IN  walk[Top]

\* variant: the new entry is stored even if a table on the way is missing
StoreLast_AnyLevel(w, p, prm) == [s |-> Store(w.s, w.it, p, prm), r |-> w.r]

StoreLast(w, p, prm) ==
    [s |-> IF w.r = 0 /\ w.it.level = 0 THEN Store(w.s, w.it, p, prm) ELSE w.s, r |-> w.r]

\* Map the address of it to p; tables that are missing are allocated first,
\* and stay if memory runs out half way.
try_map(s, it, p, prm) ==
    IF \/ it.va % PAGESIZE # 0
       \/ "P" \in prm /\ (p = -1 \/ p % PAGESIZE # 0)
       \/ ~ (prm \cap PWU) \subseteq it.perm
       \/ Panics(s.mem, it)
    THEN [s |-> s, r |-> Asserts]
    ELSE StoreLast(AddTables(s, it, prm), p, prm)

\* util.c
memory_map(s, pt, va, p, prm) == try_map(s, vmiter(s.mem, pt, va), p, prm)

memory_virtual_to_physical(s, pt, va) == pa(s.mem, vmiter(s.mem, pt, va))

-----------------------------------------------------------------------------
(* ptiter, which walks over the tables of a page table, the root excepted. *)
(* An iterator is a record like vmiter's without the permissions; the      *)
(* table it visits is the one its entry points to.                         *)

Table(e) == "P" \in e.perm /\ "PS" \notin e.perm

\* The entries that point to a table, from the iterator's own or the one after.
Ahead(mem, it, skip) ==
    {j \in it.idx + (IF skip THEN 1 ELSE 0) .. Fanout - 1 : Table(Entry(mem, it.tab, j))}

Forward(it, j) ==
    IF j = it.idx THEN it
    ELSE [it EXCEPT !.idx = j, !.va = (it.va \div Span(it.level) + (j - it.idx)) * Span(it.level)]

Below(mem, it) ==
    [it EXCEPT !.level = @ - 1, !.tab = Here(mem, it).pa, !.idx = pageindex(it.va, it.level - 1)]

Restart(it) == [it EXCEPT !.tab = it.pt, !.idx = pageindex(it.va, Top), !.level = Top]

\* variant: the walk goes up to the parent's next entry without visiting the parent
RECURSIVE ptiter_down_SkipsParent(_, _, _, _)
ptiter_down_SkipsParent(mem, it, skip, stop_level) ==
    LET ahead == Ahead(mem, it, skip)
        at == Forward(it, CHOOSE j \in ahead : \A i \in ahead : j <= i)
        up == Restart([it EXCEPT !.va = (@ \div Span(it.level + 1) + 1) * Span(it.level + 1)])
    IN  IF ahead = {}
        THEN IF it.level = Top \/ up.va >= VA_NONCANONEND THEN [it EXCEPT !.va = VA_NONCANONEND]
             ELSE ptiter_down_SkipsParent(mem, up, FALSE, 1)
        ELSE IF at.level = stop_level THEN at
        ELSE ptiter_down_SkipsParent(mem, Below(mem, at), FALSE, stop_level)

\* Down to the first table of level stop_level - 1; where a table has no more
\* entries the walk stops once more on the table above.
RECURSIVE ptiter_down(_, _, _, _)
ptiter_down(mem, it, skip, stop_level) ==
    LET ahead == Ahead(mem, it, skip)
        at == Forward(it, CHOOSE j \in ahead : \A i \in ahead : j <= i)
    IN  IF ahead = {}
        THEN IF it.level = Top THEN [it EXCEPT !.va = VA_NONCANONEND]
             ELSE ptiter_down(mem, Restart(Forward(it, Fanout - 1)), FALSE, it.level + 1)
        ELSE IF at.level = stop_level THEN at
        ELSE ptiter_down(mem, Below(mem, at), FALSE, stop_level)

ptiter(mem, pt) ==
    ptiter_down(mem, [pt |-> pt, tab |-> pt, idx |-> 0, level |-> Top, va |-> 0], FALSE, 1)

ptiter_done(it) == it.va >= VA_NONCANONEND

ptiter_next(mem, it) == ptiter_down(mem, it, TRUE, 1)

\* The tables in the order in which a loop over a ptiter visits them.
RECURSIVE VisitsFrom(_, _)
VisitsFrom(mem, it) ==
    IF ptiter_done(it) THEN <<>>
    ELSE <<Here(mem, it).pa>> \o VisitsFrom(mem, ptiter_next(mem, it))

Visits(mem, pt) == VisitsFrom(mem, ptiter(mem, pt))

==============================================================================
