------------------------------ MODULE FifoQueue ------------------------------
(***************************************************************************)
(* What include/queue.h promises of a queue shared by several threads:     *)
(* enqueue and dequeue take effect atomically, in one total order, and a   *)
(* dequeue returns "the first enqueued value that was not yet dequeued".   *)
(* A dequeue of an empty queue does not take effect until a value arrives. *)
(***************************************************************************)
EXTENDS Sequences

CONSTANTS
    Threads, Values,
    NoResult    \* the result of a thread that has not dequeued yet

VARIABLES
    items,   \* the values enqueued and not yet dequeued, oldest first
    result   \* what each thread's last dequeue returned

vars == <<items, result>>

Init ==
    /\ items = <<>>
    /\ result = [t \in Threads |-> NoResult]

Enqueue(v) ==
    /\ items' = Append(items, v)
    /\ UNCHANGED result

Dequeue(t) ==
    /\ items # <<>>
    /\ items' = Tail(items)
    /\ result' = [result EXCEPT ![t] = Head(items)]

Next ==
    \/ \E v \in Values : Enqueue(v)
    \/ \E t \in Threads : Dequeue(t)

Spec == Init /\ [][Next]_vars

==============================================================================
