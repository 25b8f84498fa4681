------------------------------- MODULE MDriver -------------------------------
(***************************************************************************)
(* malloc/driver/mdriver.c: the client of both allocators.  A trace is any *)
(* sequence of mm_malloc, mm_realloc and mm_free on numbered blocks.  In   *)
(* eval_mm_valid the driver checks after each call the block it got        *)
(* (add_range), and around each call that the data it wrote into the block *)
(* is still there (check_index).  eval_mm_util and eval_mm_speed then make *)
(* the calls again on a heap that was not cleared, and check and write     *)
(* nothing.  mm_calloc, which the driver never calls, is given a client of *)
(* the same shape.                                                         *)
(***************************************************************************)
EXTENDS Integers

CONSTANTS
    MAX_HEAP,
    Ids,         \* the blocks of a trace, numbers
    Sizes,       \* the sizes its calls ask for, in bytes, multiples of a word
    MaxStale,    \* bound: the bytes of heap of a trace that is evaluated again
    \* the allocator under test; all but mm_free and mm_init return a record
    \* with the heap and the pointer
    mm_init(_), mm_malloc(_, _), mm_free(_, _), mm_realloc(_, _, _), mm_calloc(_, _, _)

LOCAL INSTANCE MemLib

VARIABLES
    h,         \* the heap, and the allocator's static variables
    blocks,    \* trace->blocks and trace->block_sizes; ptr is NULL if not live
    verdict,   \* what the driver has found so far
    phase,     \* "valid", "util" or "speed": which evaluation runs
    usage      \* total_size and max_total_size of eval_mm_util

driverVars == <<h, blocks, verdict, phase, usage>>

NoBlock == [ptr |-> NULL, size |-> 0]
NoUsage == [total |-> 0, max |-> 0]
Live == {i \in Ids : blocks[i].ptr # NULL}

\* A new block takes the first number not in use: which one does not matter.
Fresh(i) == i \notin Live /\ \A j \in Ids : j < i => j \in Live

\* randomize_block fills block i with data no other block holds.
Data(i) == Garbage + i
randomize_block(g, i, p, size) == memset(g, p, Data(i), size)
check_index(g, i, p, size) == \A a \in WordsOf(p, size) : Load(g, a) = Data(i)

\* add_range refuses a payload that is not aligned, leaves the heap, or has an
\* end inside the payload of one of the other blocks.
add_range(g, p, size, others) ==
    LET hi == p + size - 1 IN
    /\ p % 16 = 0
    /\ p >= HeapLo /\ p <= mem_heap_hi(g)
    /\ hi >= HeapLo /\ hi <= mem_heap_hi(g)
    /\ \A j \in others :
         LET lo == blocks[j].ptr
             up == lo + blocks[j].size - 1
         IN  ~ (p >= lo /\ p <= up) /\ ~ (hi >= lo /\ hi <= up)

\* reinit_trace, mem_reset_brk and mm_init, with which each evaluation begins.
StartTrace(p, g) ==
    LET r == mm_init(mem_reset_brk(g, p = "valid"))
    IN  /\ h' = r.heap
        /\ verdict' = IF r.ok THEN "ok" ELSE "init failed"
        /\ phase' = p
        /\ usage' = NoUsage
        /\ blocks' = [i \in Ids |-> NoBlock]

\* The driver's main, up to its first eval_mm_valid, on a heap whose static
\* variables are given.
DriverInit(statics) ==
    /\ h = mm_init(mem_reset_brk(statics, TRUE)).heap
    /\ blocks = [i \in Ids |-> NoBlock]
    /\ verdict = "ok"
    /\ phase = "valid"
    /\ usage = NoUsage

Running == ~ h.fault /\ verdict \in {"ok", "garbled"}

\* run_tests: a trace found valid is evaluated twice more, the second time as
\* often as fsecs likes; then comes the next trace.  A failure after eval_mm_valid
\* has ended the process.
EvalNext(p) ==
    /\ \/ Running /\ p \in [valid |-> {"util"}, util |-> {"speed"}, speed |-> {"speed", "valid"}][phase]
       \/ ~ Running /\ ~ h.fault /\ phase = "valid" /\ p = "valid"
    /\ p # "valid" => h.brk <= HeapLo + MaxStale
    /\ StartTrace(p, h)

\* What becomes of a call that left heap g and returned p, a block of size
\* bytes: NULL and a bad range end the trace.
Outcome(g, p, size, others) ==
    CASE g.fault -> "died"
      [] ~ g.fault /\ p = NULL -> "no memory"
      [] ~ g.fault /\ p # NULL /\ ~ add_range(g, p, size, others) -> "bad range"
      [] OTHER -> "ok"

Receive(i, g, p, size, others, sofar) ==
    \E out \in {Outcome(g, p, size, others)} :
    /\ verdict' = IF out = "ok" THEN sofar ELSE out
    /\ h' = IF out = "ok" THEN randomize_block(g, i, p, size) ELSE g
    /\ blocks' = IF out = "ok" THEN [blocks EXCEPT ![i] = [ptr |-> p, size |-> size]]
                 ELSE blocks
    /\ UNCHANGED <<phase, usage>>

Alloc(i, size) ==
    /\ Running
    /\ Fresh(i)
    /\ size > 0          \* add_range asserts it
    /\ \E r \in {mm_malloc(h, size)} : Receive(i, r.heap, r.ptr, size, Live, verdict)

\* The data of a block must survive mm_realloc up to the smaller size.
Realloc(i, size) ==
    LET old == blocks[i]
        kept == IF size < old.size THEN size ELSE old.size
        Intact(r) == /\ check_index(h, i, old.ptr, old.size)
                     /\ check_index(r.heap, i, r.ptr, kept)
    IN  /\ Running
        /\ size > 0
        /\ i \in Live \/ Fresh(i)
        /\ \E r \in {mm_realloc(h, old.ptr, size)} :
              Receive(i, r.heap, r.ptr, size, Live \ {i},
                      IF Intact(r) THEN verdict ELSE "garbled")

\* mm_realloc(p, 0) has to free the block and to return NULL.
ReallocToZero(i) ==
    /\ Running
    /\ i \in Live
    /\ \E r \in {mm_realloc(h, blocks[i].ptr, 0)} :
         /\ h' = r.heap
         /\ verdict' = CASE r.heap.fault -> "died"
                         [] ~ r.heap.fault /\ r.ptr # NULL -> "zero is not NULL"
                         [] OTHER ->
                              IF check_index(h, i, blocks[i].ptr, blocks[i].size)
                              THEN verdict ELSE "garbled"
    /\ blocks' = IF verdict' = "zero is not NULL" THEN blocks
                 ELSE [blocks EXCEPT ![i] = NoBlock]
    /\ UNCHANGED <<phase, usage>>

Free(i) ==
    /\ Running
    /\ i \in Live
    /\ h' = mm_free(h, blocks[i].ptr)
    /\ verdict' = CASE h'.fault -> "died"
                    [] ~ h'.fault /\ check_index(h, i, blocks[i].ptr, blocks[i].size) -> verdict
                    [] OTHER -> "garbled"
    /\ blocks' = [blocks EXCEPT ![i] = NoBlock]
    /\ UNCHANGED <<phase, usage>>

\* A client of mm_calloc, which expects the block it gets to be zero.
Calloc(i, nmemb, size) ==
    LET Zero(r) == \A a \in WordsOf(r.ptr, nmemb * size) : Load(r.heap, a) = 0
    IN  /\ Running
        /\ Fresh(i)
        /\ \E r \in {mm_calloc(h, nmemb, size)} :
              Receive(i, r.heap, r.ptr, nmemb * size, Live,
                      IF Zero(r) THEN verdict ELSE "garbled")

eval_mm_valid ==
    /\ phase = "valid"
    /\ \E i \in Ids :
         \/ \E size \in Sizes : Alloc(i, size) \/ Realloc(i, size) \/ Calloc(i, 1, size)
         \/ Free(i)
         \/ ReallocToZero(i)

-----------------------------------------------------------------------------
(* The evaluations of a trace that was found valid *)

Larger(a, b) == IF a > b THEN a ELSE b

\* A call that returned NULL ends the process.  A trace that is evaluated again
\* needs no more memory than the first time.
Returned(i, g, p, size) ==
    /\ g.brk <= HeapLo + MaxStale
    /\ h' = g
    /\ verdict' = CASE g.fault -> "died"
                    [] ~ g.fault /\ p = NULL /\ size # 0 -> "no memory"
                    [] OTHER -> "ok"
    /\ blocks' = IF verdict' = "ok" THEN [blocks EXCEPT ![i] = [ptr |-> p, size |-> size]]
                 ELSE blocks
    /\ UNCHANGED phase

AllocAgain(i, size) ==
    /\ Running /\ Fresh(i)
    /\ \E r \in {mm_malloc(h, size)} : Returned(i, r.heap, r.ptr, size)

ReallocAgain(i, size) ==
    /\ Running
    /\ i \in Live \/ (Fresh(i) /\ size > 0)
    /\ \E r \in {mm_realloc(h, blocks[i].ptr, size)} : Returned(i, r.heap, r.ptr, size)

FreeAgain(i) ==
    /\ Running /\ i \in Live
    /\ Returned(i, mm_free(h, blocks[i].ptr), NULL, 0)

Again(i) ==
    \/ \E size \in Sizes : AllocAgain(i, size)
    \/ \E size \in Sizes \cup {0} : ReallocAgain(i, size)
    \/ FreeAgain(i)

eval_mm_util ==
    /\ phase = "util"
    /\ \E i \in Ids :
         /\ Again(i)
         /\ LET total == usage.total + blocks'[i].size - blocks[i].size IN
            usage' = [total |-> total, max |-> Larger(total, usage.max)]

eval_mm_speed ==
    /\ phase = "speed"
    /\ \E i \in Ids : Again(i) /\ UNCHANGED usage

DriverNext ==
    \/ \E p \in {"valid", "util", "speed"} : EvalNext(p)
    \/ eval_mm_valid \/ eval_mm_util \/ eval_mm_speed

==============================================================================
