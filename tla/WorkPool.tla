------------------------------- MODULE WorkPool -------------------------------
(***************************************************************************)
(* What include/thread_pool.h promises: a fixed number of threads takes    *)
(* work in the order it was added, each piece once, and the pool is closed *)
(* only when all the work added to it has finished.                        *)
(***************************************************************************)
EXTENDS Naturals, Sequences, FiniteSets

CONSTANTS Tasks, NumWorkers

VARIABLES
    backlog,   \* the work added and not started, oldest first
    running,   \* the work being performed
    done,      \* the work that has finished
    closed     \* thread_pool_finish has returned

vars == <<backlog, running, done, closed>>

Added == {backlog[i] : i \in 1 .. Len(backlog)} \cup running \cup done

Init ==
    /\ backlog = <<>>
    /\ running = {}
    /\ done = {}
    /\ closed = FALSE

Add(k) ==
    /\ ~ closed
    /\ k \notin Added
    /\ backlog' = Append(backlog, k)
    /\ UNCHANGED <<running, done, closed>>

Start ==
    /\ backlog # <<>>
    /\ Cardinality(running) < NumWorkers
    /\ running' = running \cup {Head(backlog)}
    /\ backlog' = Tail(backlog)
    /\ UNCHANGED <<done, closed>>

Complete(k) ==
    /\ k \in running
    /\ running' = running \ {k}
    /\ done' = done \cup {k}
    /\ UNCHANGED <<backlog, closed>>

Close ==
    /\ backlog = <<>>
    /\ running = {}
    /\ closed' = TRUE
    /\ UNCHANGED <<backlog, running, done>>

Next ==
    \/ \E k \in Tasks : Add(k) \/ Complete(k)
    \/ Start
    \/ Close

Spec == Init /\ [][Next]_vars

==============================================================================
