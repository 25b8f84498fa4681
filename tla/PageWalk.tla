------------------------------- MODULE PageWalk -------------------------------
(***************************************************************************)
(* A page table, an iterator that moves over it and code that maps and     *)
(* unmaps pages through iterators of its own meanwhile, the way            *)
(* memory_foreach of util.c and its callbacks do.                          *)
(***************************************************************************)
EXTENDS VMIter, FiniteSets, SequencesExt

CONSTANTS
    Root,      \* the address of the root table
    MapVAs,    \* the addresses that are mapped and unmapped
    MapPA,     \* the address they are mapped to
    LargePT    \* the address of a second table, with a large page in it

VARIABLES s, it, large,
    space      \* what s.mem maps: the state of AddressSpace, kept for the refinement

vars == <<s, it, large, space>>

Pages == {va \in 0 .. VA_LOWEND - 1 : va % PAGESIZE = 0}

Fresh(mem, va) == vmiter(mem, Root, va)

PermAt(mem, va) == perm(mem, Fresh(mem, va))

Space(mem) ==
    [va \in Pages |-> [pa |-> pa(mem, Fresh(mem, va)), perm |-> PermAt(mem, va)]]

\* As init_kernel_memory sets up kernel_pagetable, whose second level maps a
\* gigabyte at a time where the devices are.
LargeMem(mem) ==
    SetEntry(SetEntry(mem, Root, 0, [pa |-> LargePT, perm |-> PWU]),
             LargePT, 1, [pa |-> 0, perm |-> {"P", "W", "PS"}])

Init ==
    /\ large \in BOOLEAN
    /\ LET mem == [p \in PAs |-> Bytes("zero", 0)] IN
       s = [mem |-> IF large THEN LargeMem(mem) ELSE mem, pages |-> [p \in PAs |-> 0]]
    /\ it = vmiter(s.mem, Root, 0)
    /\ space = Space(s.mem)

\* Nothing is mapped inside a large page: try_map asserts that.
Mappable(va) == "PS" \notin Here(s.mem, vmiter(s.mem, Root, va)).perm

Map(va, prm) ==
    /\ Mappable(va)
    /\ s' = memory_map(s, Root, va, MapPA, prm).s
    /\ space' = Space(s'.mem)
    /\ UNCHANGED <<it, large>>

Find(va) ==
    /\ it' = real_find(s.mem, it, va)
    /\ UNCHANGED <<s, large, space>>

Next_ ==
    /\ it.va < VA_LOWEND
    /\ it' = next(s.mem, it)
    /\ UNCHANGED <<s, large, space>>

NextRange ==
    /\ it.va < VA_LOWEND
    /\ it' = next_range(s.mem, it)
    /\ UNCHANGED <<s, large, space>>

\* What map_to_nobody, map_to_kernel_space and map_to_user_space of util.c ask for.
Perms == {{}, {"P", "W"}, PWU}

Next ==
    \/ \E va \in MapVAs, prm \in Perms : Map(va, prm)
    \/ \E va \in Pages \cup {VA_LOWEND} : Find(va)
    \/ Next_
    \/ NextRange

Spec == Init /\ [][Next]_vars

-----------------------------------------------------------------------------
\* A move of the iterator ends where a walk from the root ends, also from a
\* position that is out of date since other code has added tables; and next()
\* moves on without passing over a page that is present.
MoveExact ==
    [][/\ it' # it => it' = Fresh(s.mem, it'.va)
       /\ Next_ => /\ it'.va > it.va
                   /\ \A va \in Pages :
                         it.va < va /\ va < it'.va => PermAt(s.mem, va) = {}]_vars

Tables(mem) ==
    LET below(t) == {e.pa : e \in {x \in {Entry(mem, t, i) : i \in 0 .. Fanout - 1} :
                                        "P" \in x.perm /\ "PS" \notin x.perm}}
        level[n \in 0 .. Top] == IF n = 0 THEN {Root} ELSE UNION {below(t) : t \in level[n - 1]}
    IN  UNION {level[n] : n \in 1 .. Top}

\* A loop over a ptiter visits every table except the root once, and a table
\* only after the tables it points to, so that it may free them as it goes.
VisitsEachTableOnce ==
    LET v == Visits(s.mem, Root) IN
    /\ Len(v) = Cardinality(Tables(s.mem))
    /\ ToSet(v) = Tables(s.mem)
    /\ \A i, j \in 1 .. Len(v) : \A k \in 0 .. Fanout - 1 :
            Entry(s.mem, v[i], k).pa = v[j] /\ "P" \in Entry(s.mem, v[i], k).perm
                /\ v[j] \in Tables(s.mem) => j < i

Shared(va, sz) ==
    LET p == {x \in PWU : \A a \in va .. va + sz - 1 : x \in PermAt(s.mem, a)} IN
    IF "P" \in p THEN p ELSE {}

RangePerm(va, sz) == range_perm(s.mem, Fresh(s.mem, va), sz)

\* vmiter::range_perm returns what all of the range allows, when the iterator
\* stands at the start of its page.
RangePermExact ==
    \A va \in Pages, sz \in 1 .. VA_LOWEND :
        va % Span(Fresh(s.mem, va).level) = 0 => RangePerm(va, sz) \cap PWU = Shared(va, sz)

A == INSTANCE AddressSpace WITH
        VAs <- Pages,
        Targets <- {[pa |-> -1, perm |-> {}]}
                    \cup {[pa |-> MapPA, perm |-> prm] : prm \in Perms \ {{}}}

\* Whatever tables try_map has to add, and whether or not memory for them runs
\* out, it changes the translation of its own address and of no other.
ImplementsAddressSpace == A!Spec

==============================================================================
