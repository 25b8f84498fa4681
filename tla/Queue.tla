-------------------------------- MODULE Queue --------------------------------
(***************************************************************************)
(* threadpool/src/queue.c: a linked list between two dummy nodes, guarded  *)
(* by one mutex and one condition variable.                                *)
(*                                                                         *)
(* Every thread has a program counter; a step of a thread is a stretch of  *)
(* statements between two points where another thread could observe the    *)
(* queue if the mutex did not keep it out, so the pointer writes of one    *)
(* operation are not assumed to be atomic.                                 *)
(***************************************************************************)
EXTENDS Naturals, Sequences, FiniteSets

CONSTANTS
    Threads,     \* the threads that share the queue
    Values,      \* the pointers that may be enqueued (NULL may be one)
    Nodes,       \* the addresses malloc may return for a node_t
    HeadNode,    \* the dummy node queue->head
    TailNode,    \* the dummy node queue->tail
    Junk,        \* the content of a field nobody has written
    NoThread     \* the owner of a mutex that is not locked

ASSUME QueueConstants ==
    /\ HeadNode \notin Nodes /\ TailNode \notin Nodes /\ HeadNode # TailNode
    /\ Junk \notin Nodes \cup {HeadNode, TailNode} \cup Values
    /\ NoThread \notin Threads /\ IsFiniteSet(Threads)
    /\ Values # {}

AllNodes == Nodes \cup {HeadNode, TailNode}

VARIABLES
    next, prev, value,   \* the fields of node_t, by address
    allocated,           \* the addresses malloc returned that are not freed
    size,                \* queue->size
    mutex,               \* the owner of queue->mutex
    waiting,             \* the threads blocked on queue->cond
    pc,                  \* where each thread is inside the queue's functions
    arg,                 \* each thread's argument of queue_enqueue
    node,                \* each thread's new_node or node_to_dequeue
    val,                 \* each thread's local value in queue_dequeue
    result,              \* what each thread's last queue_dequeue returned
    order                \* ghost: the nodes enqueued and not yet dequeued

fields == <<next, prev, value, allocated>>
locals == <<arg, node, val, result>>
queueVars == <<next, prev, value, allocated, size, mutex, waiting, pc, arg,
               node, val, result, order>>

EnqPcs == {"enq_lock", "enq_link", "enq_tail", "enq_size", "enq_unlock"}
DeqPcs == {"deq_lock", "deq_test", "deq_wait", "deq_unlink", "deq_free",
           "deq_unlock"}

\* The steps a thread makes between pthread_mutex_lock and _unlock.
Critical == (EnqPcs \cup DeqPcs) \ {"enq_lock", "deq_lock", "deq_wait"}

QueueInit ==
    /\ next = [n \in AllNodes |-> IF n = HeadNode THEN TailNode ELSE Junk]
    /\ prev = [n \in AllNodes |-> IF n = TailNode THEN HeadNode ELSE Junk]
    /\ value = [n \in AllNodes |-> Junk]
    /\ allocated = {HeadNode, TailNode}
    /\ size = 0
    /\ mutex = NoThread
    /\ waiting = {}
    /\ pc = [t \in Threads |-> "idle"]
    /\ arg = [t \in Threads |-> Junk]
    /\ node = [t \in Threads |-> Junk]
    /\ val = [t \in Threads |-> Junk]
    /\ result = [t \in Threads |-> Junk]
    /\ order = <<>>

-----------------------------------------------------------------------------
(* queue_enqueue *)

CallEnqueue(t, v) ==
    /\ pc[t] = "idle"
    /\ pc' = [pc EXCEPT ![t] = "enq_lock"]
    /\ arg' = [arg EXCEPT ![t] = v]
    /\ UNCHANGED <<fields, size, mutex, waiting, node, val, result, order>>

\* pthread_mutex_lock, in either function.
Lock(t, from, to) ==
    /\ pc[t] = from
    /\ mutex = NoThread
    /\ mutex' = t
    /\ pc' = [pc EXCEPT ![t] = to]
    /\ UNCHANGED <<fields, size, waiting, locals, order>>

EnqueueLock(t) == Lock(t, "enq_lock", "enq_link")

\* malloc, new_node->value = value, tail->prev->next = new_node
EnqueueLink(t) ==
    /\ pc[t] = "enq_link"
    /\ \E n \in Nodes \ allocated :
         /\ allocated' = allocated \cup {n}
         /\ node' = [node EXCEPT ![t] = n]
         /\ value' = [value EXCEPT ![n] = arg[t]]
         /\ next' = [next EXCEPT ![prev[TailNode]] = n]
    /\ pc' = [pc EXCEPT ![t] = "enq_tail"]
    /\ UNCHANGED <<prev, size, mutex, waiting, arg, val, result, order>>

\* variant: tail->prev is not moved to the new node
EnqueueTail_KeepsPrev(t) ==
    /\ pc[t] = "enq_tail"
    /\ prev' = [prev EXCEPT ![node[t]] = prev[TailNode]]
    /\ next' = [next EXCEPT ![node[t]] = TailNode]
    /\ pc' = [pc EXCEPT ![t] = "enq_size"]
    /\ UNCHANGED <<value, allocated, size, mutex, waiting, locals, order>>

\* tail->prev = new_node; new_node->prev = tail->prev, which by now is
\* new_node itself; new_node->next = tail
EnqueueTail(t) ==
    /\ pc[t] = "enq_tail"
    /\ prev' = [prev EXCEPT ![TailNode] = node[t], ![node[t]] = node[t]]
    /\ next' = [next EXCEPT ![node[t]] = TailNode]
    /\ pc' = [pc EXCEPT ![t] = "enq_size"]
    /\ UNCHANGED <<value, allocated, size, mutex, waiting, locals, order>>

\* variant: the condition is signalled only when the queue was empty
EnqueueSize_SignalsIfEmpty(t) ==
    /\ pc[t] = "enq_size"
    /\ size' = size + 1
    /\ order' = Append(order, node[t])
    /\ \/ (waiting = {} \/ size # 0) /\ UNCHANGED waiting
       \/ size = 0 /\ \E w \in waiting : waiting' = waiting \ {w}
    /\ pc' = [pc EXCEPT ![t] = "enq_unlock"]
    /\ UNCHANGED <<fields, mutex, locals>>

\* variant: the condition is not signalled
EnqueueSize_NoSignal(t) ==
    /\ pc[t] = "enq_size"
    /\ size' = size + 1
    /\ order' = Append(order, node[t])
    /\ pc' = [pc EXCEPT ![t] = "enq_unlock"]
    /\ UNCHANGED <<fields, mutex, waiting, locals>>

\* size = size + 1; pthread_cond_signal wakes one waiting thread, if any
EnqueueSize(t) ==
    /\ pc[t] = "enq_size"
    /\ size' = size + 1
    /\ order' = Append(order, node[t])
    /\ \/ waiting = {} /\ UNCHANGED waiting
       \/ \E w \in waiting : waiting' = waiting \ {w}
    /\ pc' = [pc EXCEPT ![t] = "enq_unlock"]
    /\ UNCHANGED <<fields, mutex, locals>>

EnqueueUnlock(t) ==
    /\ pc[t] = "enq_unlock"
    /\ mutex' = NoThread
    /\ arg' = [arg EXCEPT ![t] = Junk]
    /\ node' = [node EXCEPT ![t] = Junk]
    /\ pc' = [pc EXCEPT ![t] = "idle"]
    /\ UNCHANGED <<fields, size, waiting, val, result, order>>

-----------------------------------------------------------------------------
(* queue_dequeue *)

CallDequeue(t) ==
    /\ pc[t] = "idle"
    /\ pc' = [pc EXCEPT ![t] = "deq_lock"]
    /\ UNCHANGED <<fields, size, mutex, waiting, locals, order>>

DequeueLock(t) == Lock(t, "deq_lock", "deq_test")

\* while (size == 0) pthread_cond_wait: the wait releases the mutex and
\* blocks in one step
DequeueWait(t) ==
    /\ pc[t] = "deq_test"
    /\ size = 0
    /\ waiting' = waiting \cup {t}
    /\ mutex' = NoThread
    /\ pc' = [pc EXCEPT ![t] = "deq_wait"]
    /\ UNCHANGED <<fields, size, locals, order>>

\* a woken thread takes the mutex again and goes back to the loop's test
DequeueWoken(t) ==
    /\ t \notin waiting
    /\ Lock(t, "deq_wait", "deq_test")

\* POSIX lets pthread_cond_wait return although nobody signalled
SpuriousWakeup(t) ==
    /\ t \in waiting
    /\ waiting' = waiting \ {t}
    /\ UNCHANGED <<fields, size, mutex, pc, locals, order>>

\* variant: the newest value is returned
DequeueRead_Newest(t) ==
    /\ pc[t] = "deq_test"
    /\ size # 0
    /\ val' = [val EXCEPT ![t] = value[prev[TailNode]]]
    /\ node' = [node EXCEPT ![t] = next[HeadNode]]
    /\ pc' = [pc EXCEPT ![t] = "deq_unlink"]
    /\ UNCHANGED <<fields, size, mutex, waiting, arg, result, order>>

\* value = head->next->value; node_to_dequeue = head->next
DequeueRead(t) ==
    /\ pc[t] = "deq_test"
    /\ size # 0
    /\ val' = [val EXCEPT ![t] = value[next[HeadNode]]]
    /\ node' = [node EXCEPT ![t] = next[HeadNode]]
    /\ pc' = [pc EXCEPT ![t] = "deq_unlink"]
    /\ UNCHANGED <<fields, size, mutex, waiting, arg, result, order>>

\* node_to_dequeue->next->prev = head; head->next = head->next->next
DequeueUnlink(t) ==
    /\ pc[t] = "deq_unlink"
    /\ prev' = [prev EXCEPT ![next[node[t]]] = HeadNode]
    /\ next' = [next EXCEPT ![HeadNode] = next[next[HeadNode]]]
    /\ order' = Tail(order)
    /\ pc' = [pc EXCEPT ![t] = "deq_free"]
    /\ UNCHANGED <<value, allocated, size, mutex, waiting, locals>>

\* free(node_to_dequeue), whose fields hold nothing from then on;
\* size = size - 1
DequeueFree(t) ==
    /\ pc[t] = "deq_free"
    /\ allocated' = allocated \ {node[t]}
    /\ next' = [next EXCEPT ![node[t]] = Junk]
    /\ prev' = [prev EXCEPT ![node[t]] = Junk]
    /\ value' = [value EXCEPT ![node[t]] = Junk]
    /\ size' = size - 1
    /\ pc' = [pc EXCEPT ![t] = "deq_unlock"]
    /\ UNCHANGED <<mutex, waiting, locals, order>>

DequeueUnlock(t) ==
    /\ pc[t] = "deq_unlock"
    /\ mutex' = NoThread
    /\ result' = [result EXCEPT ![t] = val[t]]
    /\ val' = [val EXCEPT ![t] = Junk]
    /\ node' = [node EXCEPT ![t] = Junk]
    /\ pc' = [pc EXCEPT ![t] = "idle"]
    /\ UNCHANGED <<fields, size, waiting, arg, order>>

-----------------------------------------------------------------------------
(* queue_free, and one thread's steps *)

\* frees the two dummy nodes; the node_t between them are not freed
QueueFree ==
    /\ allocated' = allocated \ {HeadNode, TailNode}
    /\ UNCHANGED <<next, prev, value, size, mutex, waiting, pc, locals, order>>

EnqueueStep(t) ==
    \/ EnqueueLock(t) \/ EnqueueLink(t) \/ EnqueueTail(t)
    \/ EnqueueSize(t) \/ EnqueueUnlock(t)

DequeueStep(t) ==
    \/ DequeueLock(t) \/ DequeueWait(t) \/ DequeueWoken(t) \/ DequeueRead(t)
    \/ DequeueUnlink(t) \/ DequeueFree(t) \/ DequeueUnlock(t)

QueueStep(t) == EnqueueStep(t) \/ DequeueStep(t)

\* Bound: an enqueue is only called while malloc will find an address for its
\* node (the code does not check for NULL; queue.h excludes running out).
HeapRoom ==
    Cardinality({t \in Threads : pc[t] \in {"enq_lock", "enq_link"}})
        < Cardinality(Nodes \ allocated)

\* The client of the tests: any thread may call any operation at any time.
QueueNext ==
    \E t \in Threads :
        \/ HeapRoom /\ \E v \in Values : CallEnqueue(t, v)
        \/ CallDequeue(t)
        \/ QueueStep(t)
        \/ SpuriousWakeup(t)

QueueSpec == QueueInit /\ [][QueueNext]_queueVars

-----------------------------------------------------------------------------
QueueTypeOK ==
    /\ next \in [AllNodes -> AllNodes \cup {Junk}]
    /\ prev \in [AllNodes -> AllNodes \cup {Junk}]
    /\ value \in [AllNodes -> Values \cup {Junk}]
    /\ allocated \subseteq AllNodes
    /\ size \in Nat
    /\ mutex \in Threads \cup {NoThread}
    /\ waiting \subseteq Threads
    /\ pc \in [Threads -> {"idle"} \cup EnqPcs \cup DeqPcs]
    /\ arg \in [Threads -> Values \cup {Junk}]
    /\ node \in [Threads -> AllNodes \cup {Junk}]
    /\ val \in [Threads -> Values \cup {Junk}]
    /\ result \in [Threads -> Values \cup {Junk}]
    /\ order \in Seq(Nodes)

\* The mutex serialises the operations: a thread between pthread_mutex_lock
\* and pthread_mutex_unlock owns it, so no two threads are there together.
MutualExclusion ==
    \A t \in Threads : pc[t] \in Critical <=> mutex = t

\* The nodes met on the way from head (position 0) to tail when those of s lie
\* between them.
NodeAt(s, i) ==
    IF i = 0 THEN HeadNode ELSE IF i \in 1 .. Len(s) THEN s[i] ELSE TailNode

Linked(s) ==
    /\ \A i \in 0 .. Len(s) : next[NodeAt(s, i)] = NodeAt(s, i + 1)
    /\ prev[TailNode] = NodeAt(s, Len(s))

Distinct(s) == \A i, j \in 1 .. Len(s) : s[i] = s[j] => i = j

NodesOf(s) == {s[i] : i \in 1 .. Len(s)}

\* Whenever the mutex is free, until queue_free, the list is whole: following next from head
\* meets exactly the nodes enqueued and not yet dequeued, in that order, and
\* ends at tail; tail->prev is the last of them; size counts them; and they
\* are exactly the nodes malloc'd and not freed, so none leaks and none that
\* is reachable was freed.
ListIntact ==
    mutex = NoThread /\ HeadNode \in allocated =>
        /\ Linked(order)
        /\ size = Len(order)
        /\ Distinct(order)
        /\ allocated = {HeadNode, TailNode} \cup NodesOf(order)

\* The threads on their way to take an item without waiting for a signal.
Takers ==
    {t \in Threads :
        \/ pc[t] \in {"deq_test", "deq_unlink", "deq_free"}
        \/ pc[t] = "deq_wait" /\ t \notin waiting}

\* One pthread_cond_signal per enqueue is enough: while some thread is blocked
\* on queue->cond, every item in the queue has a thread awake to take it.
NoLostWakeup ==
    waiting # {} => size <= Cardinality(Takers)

\* The content of the queue, and what the dequeues have returned; a dequeue
\* takes effect where it unlinks its node, before the function returns.
Items == [i \in 1 .. Len(order) |-> value[order[i]]]

Returned ==
    [t \in Threads |->
        IF pc[t] \in {"deq_free", "deq_unlock"} THEN val[t] ELSE result[t]]

Fifo == INSTANCE FifoQueue
            WITH items <- Items, result <- Returned, NoResult <- Junk

\* The queue implements the FIFO of queue.h: whatever the interleaving of the
\* threads, the values come out once each and in the order they went in.
ImplementsFifo == Fifo!Spec

==============================================================================
