--------------------------- MODULE RecursiveAddWork ---------------------------
(***************************************************************************)
(* threadpool/tests/recursive_add_work.c: a client whose work functions    *)
(* add work, and whose main thread waits until the number of outstanding   *)
(* pieces of work drops to zero before it calls thread_pool_finish.        *)
(*                                                                         *)
(* The pool is ThreadPool's; only the client differs.  The sections under  *)
(* remaining_work_mutex are one step each: they call nothing that blocks.  *)
(***************************************************************************)
EXTENDS ThreadPool

CONSTANT SizeMod    \* the number of values of a size_t

VARIABLES
    remaining,   \* remaining_work
    unpaid       \* the threads between thread_pool_add_work and the increment

testVars == <<vars, remaining, unpaid>>

\* The work of a test of MAX_DEPTH 1: the root adds every leaf
TestChildren == [k \in Tasks |-> IF k \in Roots THEN Tasks \ Roots ELSE {}]

TestInit ==
    /\ Init
    /\ remaining = 0
    /\ unpaid = {}

\* add_work: thread_pool_add_work(pool, recursive_work, aux) comes first ...
TestAdds(t, k) ==
    /\ t \notin unpaid
    /\ AddWork(t, k)
    /\ unpaid' = unpaid \cup {t}
    /\ UNCHANGED <<mpc, count, wpc, done, remaining>>

\* ... and remaining_work++ once it has returned
TestCounts(t) ==
    /\ t \in unpaid
    /\ pc[t] = "idle"
    /\ remaining' = (remaining + 1) % SizeMod
    /\ unpaid' = unpaid \ {t}
    /\ UNCHANGED vars

\* recursive_work: add the children, one after the other
TestWorkAdds(w) ==
    /\ wpc[w] = "run"
    /\ \E k \in Children[result[w]] : TestAdds(w, k)

\* then --remaining_work under the mutex, and return to thread_execute
TestWorkReturns(w) ==
    /\ w \notin unpaid
    /\ WorkReturns(w)
    /\ remaining' = (remaining + SizeMod - 1) % SizeMod
    /\ UNCHANGED unpaid

\* main: add_work(0), once
TestMainAdds ==
    /\ mpc = "add"
    /\ \E k \in Roots : TestAdds(Main, k)

\* main: while (remaining_work > 0) pthread_cond_wait(...) is over
TestCallsFinish ==
    /\ mpc = "add"
    /\ pc[Main] = "idle"
    /\ Main \notin unpaid
    /\ Roots \subseteq added
    /\ remaining = 0
    /\ mpc' = "pill"
    /\ UNCHANGED <<queueVars, count, wpc, added, functs, done, remaining, unpaid>>

PoolSteps ==
    /\ \/ CreateWorker \/ EnqueueNull \/ JoinWorker \/ PoolFree \/ Finished
       \/ \E w \in Workers : WorkerStart(w) \/ WorkerTakes(w)
       \/ \E t \in Threads : QueueStep(t) /\ UNCHANGED poolVars
    /\ UNCHANGED <<remaining, unpaid>>

TestNext ==
    \/ PoolSteps
    \/ \E t \in Threads : TestCounts(t)
    \/ \E w \in Workers : TestWorkAdds(w) \/ TestWorkReturns(w)
    \/ TestMainAdds
    \/ TestCallsFinish

TestSpec == TestInit /\ [][TestNext]_testVars

\* What the Makefile's rule for the test expects: by the time the program ends,
\* all the work at the greatest depth has run and printed its line.
AllWorkPrinted ==
    mpc = "finished" => {k \in Tasks : Children[k] = {}} \subseteq done

==============================================================================
