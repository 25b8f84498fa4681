------------------------------ MODULE ThreadPool ------------------------------
(***************************************************************************)
(* threadpool/src/thread_pool.c on top of the statement-level queue: the   *)
(* main thread creates the workers, adds work, and finishes the pool by    *)
(* enqueueing one NULL per worker and joining them all.  A work function   *)
(* may add work to its own pool, as tests/recursive_add_work.c does.       *)
(***************************************************************************)
EXTENDS Queue

CONSTANTS
    NumWorkers,    \* pool->num_workers
    Main,          \* the thread that owns the pool
    Null,          \* the NULL that tells a worker to stop
    Tasks,         \* the funct_t pointers that stand for pieces of work
    Roots,         \* the work the main thread adds
    Children       \* the work each work function adds while it runs

\* pool->workers[i] is the thread i + 1
Workers == 1 .. NumWorkers

ASSUME PoolConstants ==
    /\ NumWorkers \in Nat \ {0}
    /\ Main \notin Workers
    /\ Threads = Workers \cup {Main}
    /\ Null \notin Tasks
    /\ Values = Tasks \cup {Null}
    /\ Roots \subseteq Tasks
    /\ Children \in [Tasks -> SUBSET Tasks]

VARIABLES
    mpc,      \* where the main thread is: "create", "add", "pill", "join",
              \* "free" or "finished"
    count,    \* the loop counter i of the main thread's loops
    wpc,      \* where each worker is in thread_execute
    added,    \* the work thread_pool_add_work was called with
    functs,   \* the funct_t allocated and not freed
    done      \* the work whose function has returned

poolVars == <<mpc, count, wpc, added, functs, done>>
vars == <<queueVars, poolVars>>

Init ==
    /\ QueueInit
    /\ mpc = "create"
    /\ count = 0
    /\ wpc = [w \in Workers |-> "none"]
    /\ added = {}
    /\ functs = {}
    /\ done = {}

-----------------------------------------------------------------------------
(* thread_pool_init and thread_pool_add_work *)

\* pthread_create(&(pool->workers[i]), ...); the worker may run at once
CreateWorker ==
    /\ mpc = "create"
    /\ wpc' = [wpc EXCEPT ![count + 1] = "start"]
    /\ count' = IF count + 1 < NumWorkers THEN count + 1 ELSE 0
    /\ mpc' = IF count + 1 < NumWorkers THEN "create" ELSE "add"
    /\ UNCHANGED <<queueVars, added, functs, done>>

\* thread t allocates a funct_t for k and enqueues it
AddWork(t, k) ==
    /\ k \notin added
    /\ added' = added \cup {k}
    /\ functs' = functs \cup {k}
    /\ CallEnqueue(t, k)

-----------------------------------------------------------------------------
(* thread_execute *)

WorkerStart(w) ==
    /\ wpc[w] = "start"
    /\ CallDequeue(w)
    /\ wpc' = [wpc EXCEPT ![w] = "dequeue"]
    /\ UNCHANGED <<mpc, count, added, functs, done>>

\* queue_dequeue returned: while (work != NULL)
WorkerTakes(w) ==
    /\ wpc[w] = "dequeue"
    /\ pc[w] = "idle"
    /\ wpc' = [wpc EXCEPT ![w] = IF result[w] = Null THEN "exit" ELSE "run"]
    /\ UNCHANGED <<queueVars, mpc, count, added, functs, done>>

\* the work function calls thread_pool_add_work
WorkAddsWork(w) ==
    /\ wpc[w] = "run"
    /\ \E k \in Children[result[w]] : AddWork(w, k)
    /\ UNCHANGED <<mpc, count, wpc, done>>

\* the work function returns; free(funct); work = queue_dequeue(...)
WorkReturns(w) ==
    /\ wpc[w] = "run"
    /\ Children[result[w]] \subseteq added
    /\ done' = done \cup {result[w]}
    /\ functs' = functs \ {result[w]}
    /\ CallDequeue(w)
    /\ wpc' = [wpc EXCEPT ![w] = "dequeue"]
    /\ UNCHANGED <<mpc, count, added>>

-----------------------------------------------------------------------------
(* thread_pool_finish *)

\* variant: one NULL for all the workers
EnqueueNull_Once ==
    /\ mpc = "pill"
    /\ CallEnqueue(Main, Null)
    /\ mpc' = "join"
    /\ UNCHANGED <<count, wpc, added, functs, done>>

\* queue_enqueue(pool->work, NULL), once per worker
EnqueueNull ==
    /\ mpc = "pill"
    /\ CallEnqueue(Main, Null)
    /\ count' = IF count + 1 < NumWorkers THEN count + 1 ELSE 0
    /\ mpc' = IF count + 1 < NumWorkers THEN "pill" ELSE "join"
    /\ UNCHANGED <<wpc, added, functs, done>>

\* variant: only the first worker is joined
JoinWorker_First ==
    /\ mpc = "join"
    /\ pc[Main] = "idle"
    /\ wpc[count + 1] = "exit"
    /\ mpc' = "free"
    /\ UNCHANGED <<queueVars, count, wpc, added, functs, done>>

\* variant: the workers are not joined
JoinWorker_None ==
    /\ mpc = "join"
    /\ pc[Main] = "idle"
    /\ mpc' = "free"
    /\ UNCHANGED <<queueVars, count, wpc, added, functs, done>>

\* pthread_join(pool->workers[i], NULL)
JoinWorker ==
    /\ mpc = "join"
    /\ pc[Main] = "idle"
    /\ wpc[count + 1] = "exit"
    /\ count' = IF count + 1 < NumWorkers THEN count + 1 ELSE 0
    /\ mpc' = IF count + 1 < NumWorkers THEN "join" ELSE "free"
    /\ UNCHANGED <<queueVars, wpc, added, functs, done>>

\* thread_pool_free
PoolFree ==
    /\ mpc = "free"
    /\ QueueFree
    /\ mpc' = "finished"
    /\ UNCHANGED <<count, wpc, added, functs, done>>

-----------------------------------------------------------------------------
(* A client that keeps to thread_pool.h: thread_pool_finish is called once no *)
(* thread will call thread_pool_add_work any more.                            *)

Spawning == {k \in Tasks : Children[k] # {}}

MainAdds ==
    /\ mpc = "add"
    /\ \E k \in Roots : AddWork(Main, k)
    /\ UNCHANGED <<mpc, count, wpc, done>>

CallFinish ==
    /\ mpc = "add"
    /\ pc[Main] = "idle"
    /\ Roots \subseteq added
    /\ Spawning \cap added \subseteq done
    /\ mpc' = "pill"
    /\ UNCHANGED <<queueVars, count, wpc, added, functs, done>>

MainStep ==
    \/ CreateWorker \/ MainAdds \/ CallFinish \/ EnqueueNull \/ JoinWorker
    \/ PoolFree
    \/ QueueStep(Main) /\ UNCHANGED poolVars

WorkerStep(w) ==
    \/ WorkerStart(w) \/ WorkerTakes(w) \/ WorkAddsWork(w) \/ WorkReturns(w)
    \/ QueueStep(w) /\ UNCHANGED poolVars

Wakeup == \E t \in Threads : SpuriousWakeup(t) /\ UNCHANGED poolVars

Finished == mpc = "finished" /\ UNCHANGED vars

Next ==
    \/ MainStep
    \/ \E w \in Workers : WorkerStep(w)
    \/ Wakeup
    \/ Finished

\* Each thread keeps running while it can, and spurious wakeups do not recur
\* for ever.  Neither the mutex nor the condition variable is assumed fair.
Fairness ==
    /\ WF_vars(MainStep)
    /\ \A w \in Workers : WF_vars(WorkerStep(w))
    /\ <>[][~ Wakeup]_vars

Spec == Init /\ [][Next]_vars /\ Fairness

-----------------------------------------------------------------------------
\* When thread_pool_finish returns, all the work added to the pool has
\* finished, no thread is inside the freed queue, the queue was empty as
\* queue_free assumes, and every node and funct_t has been freed.
FinishIsClean ==
    mpc = "finished" =>
        /\ added = done
        /\ \A w \in Workers : wpc[w] = "exit"
        /\ \A t \in Threads : pc[t] = "idle"
        /\ order = <<>>
        /\ allocated = {}
        /\ functs = {}

\* The work a worker has dequeued and not finished.
InHand ==
    {IF pc[w] \in {"deq_free", "deq_unlock"} THEN val[w] ELSE result[w] :
        w \in {x \in Workers :
                 \/ pc[x] \in {"deq_free", "deq_unlock"}
                 \/ wpc[x] = "dequeue" /\ pc[x] = "idle"
                 \/ wpc[x] = "run"}} \ {Null}

\* The values of s up to the last that is not NULL: the NULLs at its end are no work.
WorkIn(s) ==
    LET n == CHOOSE m \in 0 .. Len(s) :
                /\ m # 0 => s[m] # Null
                /\ \A i \in m + 1 .. Len(s) : s[i] = Null
    IN  SubSeq(s, 1, n)

\* The pool implements the promise of thread_pool.h.
Pool == INSTANCE WorkPool WITH
    backlog <- WorkIn(Items),
    running <- InHand,
    closed <- mpc = "finished"

ImplementsWorkPool == Pool!Spec

\* thread_pool_finish returns: with one NULL per worker, every worker ends.
FinishReturns == mpc = "pill" ~> mpc = "finished"

\* Work that was added is performed, whether finish is called or not.
WorkIsPerformed == \A k \in Tasks : k \in added ~> k \in done

==============================================================================
