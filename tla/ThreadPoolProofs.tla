--------------------------- MODULE ThreadPoolProofs ---------------------------
(***************************************************************************)
(* Proofs about ThreadPool, for any number of workers, any work and any    *)
(* addresses.                                                              *)
(*                                                                         *)
(* A step inside the queue is first reduced to what the pool sees of it:   *)
(* a value goes in, a value comes out, a call returns, or nothing.  On     *)
(* that view rests the invariant of the pool: each piece of work is in     *)
(* one place until it is done, the NULLs come last and are counted.        *)
(***************************************************************************)
EXTENDS ThreadPool, QueueProofs

Putting == {"enq_lock", "enq_link", "enq_tail", "enq_size"}
Getting == {"deq_lock", "deq_test", "deq_wait", "deq_unlink"}
Got == {"deq_free", "deq_unlock"}

\* The new node of an enqueue carries the argument.
ArgKept == \A t \in Threads : pc[t] \in {"enq_tail", "enq_size"} => value[node[t]] = arg[t]

\* How many NULLs are in the queue.
NullNodes == {n \in NodesOf(order) : value[n] = Null}
Nulls == Cardinality(NullNodes)

OneIf(v) == IF v = Null THEN 1 ELSE 0

-----------------------------------------------------------------------------
(* What the pool sees of a step in the queue *)

\* t goes on within its call
Proceeds(t) ==
    /\ \/ pc[t] \in Putting /\ pc'[t] \in Putting
       \/ pc[t] \in Getting /\ pc'[t] \in Getting
       \/ pc[t] \in Got /\ pc'[t] \in Got
    /\ arg'[t] = arg[t]
    /\ Items' = Items /\ Returned' = Returned /\ Nulls' = Nulls

\* the argument of t is in the queue
Puts(t) ==
    /\ pc[t] \in Putting /\ pc'[t] = "enq_unlock"
    /\ Items' = Append(Items, arg[t])
    /\ Returned' = Returned
    /\ Nulls' = Nulls + OneIf(arg[t])

\* t takes the oldest value
Gets(t) ==
    /\ pc[t] \in Getting /\ pc'[t] \in Got
    /\ Items # <<>>
    /\ Items' = Tail(Items)
    /\ Returned' = [Returned EXCEPT ![t] = Head(Items)]
    /\ Nulls' = Nulls - OneIf(Head(Items))

\* the call of t returns
Leaves(t) ==
    /\ pc[t] \in Got \cup {"enq_unlock"} /\ pc'[t] = "idle"
    /\ Items' = Items /\ Returned' = Returned /\ Nulls' = Nulls

Effect(t) ==
    /\ \A u \in Threads \ {t} : pc'[u] = pc[u] /\ arg'[u] = arg[u]
    /\ Proceeds(t) \/ Puts(t) \/ Gets(t) \/ Leaves(t)

-----------------------------------------------------------------------------
\* The NULLs in the queue can be counted.
LEMMA NullsFinite ==
  ASSUME QueueTypeOK
  PROVE  IsFiniteSet(NullNodes) /\ Nulls \in Nat
<1>1. IsFiniteSet(1 .. Len(order))
  BY FS_Interval DEF QueueTypeOK
<1>2. order \in Surjection(1 .. Len(order), NodesOf(order))
  BY DEF QueueTypeOK, NodesOf, Surjection
<1>2a. IsFiniteSet(NodesOf(order))
  BY <1>1, <1>2, FS_Surjection, Zenon
<1>3. IsFiniteSet(NullNodes)
  BY <1>2a, FS_Subset, Zenon DEF NullNodes
<1> QED
  BY <1>3, FS_CardinalityType, Zenon DEF Nulls

\* A step that leaves order and the values of its nodes alone changes nothing
\* that the pool sees of the queue.
LEMMA SameItems ==
  ASSUME QueueTypeOK, order' = order,
         \A i \in 1 .. Len(order) : value'[order[i]] = value[order[i]]
  PROVE  Items' = Items /\ Nulls' = Nulls
<1>1. Items' = Items
  BY Zenon DEF Items
<1>2. NullNodes' = NullNodes
  BY Zenon DEF NullNodes, NodesOf
<1> QED
  BY <1>1, <1>2, Zenon DEF Nulls

\* EnqueueSize is where a value goes in.
LEMMA EnqueuePuts ==
  ASSUME QueueInv, ArgKept, NEW t \in Threads, EnqueueSize(t)
  PROVE  Puts(t)
<1> USE DEF QueueInv
<1>0. Progress(t) /\ pc[t] = "enq_size"
  BY Zenon DEF Shape, EnqueueSize
<1>1. node[t] \in Nodes /\ Whole(order, {node[t]}) /\ value[node[t]] = arg[t]
  BY <1>0, Zenon DEF Progress, ArgKept
<1>2. order' = Append(order, node[t]) /\ value' = value /\ node' = node
  BY Zenon DEF EnqueueSize, fields, locals
<1>3. order \in Seq(Nodes)
  BY Zenon DEF QueueTypeOK
<1>4. Items' = Append(Items, arg[t])
  BY <1>1, <1>2, <1>3 DEF Items
<1>5. Returned' = Returned
  BY Zenon DEF Returned, QueueTypeOK, EnqueueSize, locals
<1>6. NodesOf(order)' = NodesOf(order) \cup {node[t]}
  <2>1. /\ Len(order') = Len(order) + 1 /\ Len(order) \in Nat
        /\ \A i \in 1 .. Len(order) : order'[i] = order[i]
        /\ order'[Len(order) + 1] = node[t]
    BY <1>1, <1>2, <1>3
  <2>2. ASSUME NEW m \in NodesOf(order)' PROVE m \in NodesOf(order) \cup {node[t]}
    BY <2>1 DEF NodesOf
  <2>3. ASSUME NEW m \in NodesOf(order) PROVE m \in NodesOf(order)'
    BY <2>1 DEF NodesOf
  <2>4. node[t] \in NodesOf(order)'
    BY <2>1 DEF NodesOf
  <2> QED
    BY <2>2, <2>3, <2>4, Zenon
<1>7. node[t] \notin NodesOf(order)
  BY <1>1, Zenon DEF Whole
<1>8. Nulls' = Nulls + OneIf(arg[t])
  <2>1. CASE arg[t] = Null
    <3>1. NullNodes' = NullNodes \cup {node[t]} /\ node[t] \notin NullNodes
      BY <2>1, <1>1, <1>2, <1>6, <1>7, Zenon DEF NullNodes
    <3> QED
      BY <2>1, <3>1, NullsFinite, FS_AddElement, Zenon DEF Nulls, OneIf
  <2>2. CASE arg[t] # Null
    <3>1. NullNodes' = NullNodes
      BY <2>2, <1>1, <1>2, <1>6, <1>7, Zenon DEF NullNodes
    <3> QED
      BY <2>2, <3>1, NullsFinite DEF Nulls, OneIf
  <2> QED
    BY <2>1, <2>2, Zenon
<1>9. pc'[t] = "enq_unlock"
  BY Zenon DEF EnqueueSize, QueueTypeOK
<1> QED
  BY <1>0, <1>4, <1>5, <1>8, <1>9, Zenon DEF Puts, Putting

\* DequeueUnlink is where a value comes out.
LEMMA DequeueGets ==
  ASSUME QueueInv, NEW t \in Threads, DequeueUnlink(t)
  PROVE  Gets(t)
<1> USE DEF QueueInv
<1>0. Progress(t) /\ pc[t] = "deq_unlink" /\ pc'[t] = "deq_free"
  BY Zenon DEF Shape, DequeueUnlink, QueueTypeOK
<1>1. order # <<>> /\ node[t] = order[1] /\ val[t] = value[order[1]]
  BY <1>0, Zenon DEF Progress
<1>2. order' = Tail(order) /\ value' = value
  BY Zenon DEF DequeueUnlink
<1>3. order \in Seq(Nodes) /\ Len(order) \in Nat /\ Len(order) # 0
  BY <1>1 DEF QueueTypeOK
<1>4. Items # <<>> /\ Items' = Tail(Items) /\ Head(Items) = val[t]
  BY <1>1, <1>2, <1>3 DEF Items
<1>5. Returned' = [Returned EXCEPT ![t] = val[t]]
  BY <1>0, Zenon DEF Returned, QueueTypeOK, DequeueUnlink, locals
<1>6. Distinct(order)
  <2>1. Quiet
    BY <1>0, Zenon DEF MutualExclusion, Quiet, Critical, EnqPcs, DeqPcs
  <2> QED
    BY <2>1, Zenon DEF Shape, Whole
<1>7. NodesOf(order)' = NodesOf(order) \ {order[1]} /\ order[1] \in NodesOf(order)
  <2>1. /\ Len(order') = Len(order) - 1
        /\ \A i \in 1 .. Len(order') : order'[i] = order[i + 1]
    BY <1>2, <1>3
  <2>2. ASSUME NEW m \in NodesOf(order)' PROVE m \in NodesOf(order) \ {order[1]}
    <3>1. PICK i \in 1 .. Len(order') : m = order'[i]
      BY Zenon DEF NodesOf
    <3>2. i + 1 \in 1 .. Len(order) /\ m = order[i + 1] /\ i + 1 # 1
      BY <2>1, <3>1, <1>3
    <3> QED
      BY <3>2, <1>3, <1>6 DEF NodesOf, Distinct
  <2>3. ASSUME NEW m \in NodesOf(order) \ {order[1]} PROVE m \in NodesOf(order)'
    <3>1. PICK i \in 1 .. Len(order) : m = order[i]
      BY Zenon DEF NodesOf
    <3>2. i # 1
      BY <3>1, Zenon
    <3>3. i - 1 \in 1 .. Len(order') /\ order'[i - 1] = m
      BY <2>1, <3>1, <3>2, <1>3
    <3> QED
      BY <3>3, Zenon DEF NodesOf
  <2>4. order[1] \in NodesOf(order)
    BY <1>3 DEF NodesOf
  <2> QED
    BY <2>2, <2>3, <2>4, Zenon
<1>8. Nulls' = Nulls - OneIf(val[t])
  <2>1. CASE val[t] = Null
    <3>1. NullNodes' = NullNodes \ {order[1]} /\ order[1] \in NullNodes
      BY <2>1, <1>1, <1>2, <1>7, Zenon DEF NullNodes
    <3> QED
      BY <2>1, <3>1, NullsFinite, FS_RemoveElement, Zenon DEF Nulls, OneIf
  <2>2. CASE val[t] # Null
    <3>1. NullNodes' = NullNodes
      BY <2>2, <1>1, <1>2, <1>7, Zenon DEF NullNodes
    <3> QED
      BY <2>2, <3>1, NullsFinite DEF Nulls, OneIf
  <2> QED
    BY <2>1, <2>2, Zenon
<1> QED
  BY <1>0, <1>4, <1>5, <1>8, Zenon DEF Gets, Getting, Got

\* Every step in the queue is one of the four.
LEMMA StepEffect ==
  ASSUME QueueInv, ArgKept, NEW t \in Threads, QueueStep(t)
  PROVE  Effect(t)
<1> USE DEF QueueInv
<1>1. \A u \in Threads \ {t} : pc'[u] = pc[u] /\ arg'[u] = arg[u]
  BY Zenon DEF QueueStep, EnqueueStep, DequeueStep, EnqueueLock, EnqueueLink, EnqueueTail,
         EnqueueSize, EnqueueUnlock, DequeueLock, DequeueWait, DequeueWoken, DequeueRead,
         DequeueUnlink, DequeueFree, DequeueUnlock, Lock, locals, QueueTypeOK
<1>2. CASE EnqueueSize(t)
  BY <1>1, <1>2, EnqueuePuts, Zenon DEF Effect
<1>3. CASE DequeueUnlink(t)
  BY <1>1, <1>3, DequeueGets, Zenon DEF Effect
<1>4. CASE EnqueueLink(t)
  <2>1. Quiet
    BY <1>4, Zenon DEF MutualExclusion, Quiet, Critical, EnqPcs, DeqPcs, EnqueueLink
  <2>2. \A i \in 1 .. Len(order) : order[i] \in allocated
    BY <2>1, Zenon DEF Shape, Whole, NodesOf
  <2>3. Items' = Items /\ Nulls' = Nulls
    BY <1>4, <2>2, SameItems DEF EnqueueLink, QueueTypeOK
  <2>4. Returned' = Returned /\ arg'[t] = arg[t]
    BY <1>4, Zenon DEF EnqueueLink, Returned, QueueTypeOK
  <2> QED
    BY <1>1, <1>4, <2>3, <2>4, Zenon DEF Effect, Proceeds, Putting, EnqueueLink, QueueTypeOK
<1>5. CASE DequeueFree(t)
  <2>0. Progress(t) /\ pc[t] = "deq_free"
    BY <1>5, Zenon DEF DequeueFree, Shape
  <2>1. \A i \in 1 .. Len(order) : order[i] # node[t]
    BY <2>0, Zenon DEF Progress, Whole, NodesOf
  <2>2. Items' = Items /\ Nulls' = Nulls
    BY <1>5, <2>1, SameItems DEF DequeueFree, QueueTypeOK
  <2>3. Returned' = Returned /\ arg'[t] = arg[t]
    BY <1>5, Zenon DEF DequeueFree, Returned, QueueTypeOK, locals
  <2> QED
    BY <1>1, <1>5, <2>2, <2>3, Zenon DEF Effect, Proceeds, Got, DequeueFree, QueueTypeOK
<1>6. CASE \/ EnqueueLock(t) \/ EnqueueTail(t) \/ DequeueLock(t) \/ DequeueWait(t)
           \/ DequeueWoken(t) \/ DequeueRead(t)
  <2>1. order' = order /\ value' = value
    BY <1>6, Zenon DEF EnqueueLock, EnqueueTail, DequeueLock, DequeueWait, DequeueWoken,
                DequeueRead, Lock, fields
  <2>2. Items' = Items /\ Nulls' = Nulls
    BY <2>1, SameItems, Zenon
  <2>3. Returned' = Returned /\ arg'[t] = arg[t]
    BY <1>6, Zenon DEF EnqueueLock, EnqueueTail, DequeueLock, DequeueWait, DequeueWoken,
                DequeueRead, Lock, locals, Returned, QueueTypeOK
  <2>4. \/ pc[t] \in Putting /\ pc'[t] \in Putting
        \/ pc[t] \in Getting /\ pc'[t] \in Getting
    BY <1>6, Zenon DEF EnqueueLock, EnqueueTail, DequeueLock, DequeueWait, DequeueWoken,
                DequeueRead, Lock, Putting, Getting, QueueTypeOK
  <2> QED
    BY <1>1, <2>2, <2>3, <2>4, Zenon DEF Effect, Proceeds
<1>7. CASE EnqueueUnlock(t) \/ DequeueUnlock(t)
  <2>1. order' = order /\ value' = value
    BY <1>7, Zenon DEF EnqueueUnlock, DequeueUnlock, fields
  <2>2. Items' = Items /\ Nulls' = Nulls
    BY <2>1, SameItems, Zenon
  <2>3. Returned' = Returned
    BY <1>7, Zenon DEF EnqueueUnlock, DequeueUnlock, Returned, QueueTypeOK
  <2>4. pc[t] \in Got \cup {"enq_unlock"} /\ pc'[t] = "idle"
    BY <1>7, Zenon DEF EnqueueUnlock, DequeueUnlock, Got, QueueTypeOK
  <2> QED
    BY <1>1, <2>2, <2>3, <2>4, Zenon DEF Effect, Leaves
<1> QED
  BY <1>2, <1>3, <1>4, <1>5, <1>6, <1>7, Zenon DEF QueueStep, EnqueueStep, DequeueStep

\* A node keeps the value it was made for until it is in the list.
LEMMA StepArgKept ==
  ASSUME QueueInv, ArgKept, SomeMove
  PROVE  ArgKept'
<1> USE DEF QueueInv
<1> SUFFICES ASSUME NEW u \in Threads, pc'[u] \in {"enq_tail", "enq_size"}
             PROVE  value'[node'[u]] = arg'[u]
  BY Zenon DEF ArgKept
<1> PICK t \in Threads : QueueMove(t)
  BY Zenon DEF SomeMove
<1>1. CASE u = t
  <2>1. EnqueueLink(t) \/ EnqueueTail(t) \/ SpuriousWakeup(t)
    BY <1>1, Zenon DEF QueueMove, QueueStep, EnqueueStep, DequeueStep, CallEnqueue, CallDequeue,
           EnqueueLock, EnqueueSize, EnqueueUnlock, DequeueLock, DequeueWait, DequeueWoken,
           DequeueRead, DequeueUnlink, DequeueFree, DequeueUnlock, Lock, QueueTypeOK
  <2>2. CASE EnqueueLink(t)
    <3>1. PICK n \in Nodes :
            node' = [node EXCEPT ![t] = n] /\ value' = [value EXCEPT ![n] = arg[t]] /\ arg' = arg
      BY <2>2, Zenon DEF EnqueueLink
    <3> QED
      BY <1>1, <3>1, Zenon DEF QueueTypeOK, AllNodes
  <2>3. CASE EnqueueTail(t) \/ SpuriousWakeup(t)
    BY <1>1, <2>3, Zenon DEF EnqueueTail, SpuriousWakeup, locals, fields, ArgKept
  <2> QED
    BY <2>1, <2>2, <2>3, Zenon
<1>2. CASE u # t
  <2>1. pc'[u] = pc[u] /\ arg'[u] = arg[u] /\ node'[u] = node[u]
    BY <1>2, Zenon DEF QueueMove, QueueStep, EnqueueStep, DequeueStep, CallEnqueue, CallDequeue,
           SpuriousWakeup, EnqueueLock, EnqueueLink, EnqueueTail,
           EnqueueSize, EnqueueUnlock, DequeueLock, DequeueWait, DequeueWoken, DequeueRead,
           DequeueUnlink, DequeueFree, DequeueUnlock, Lock, locals, QueueTypeOK
  <2>2. pc[u] \in Critical
    BY <2>1, Zenon DEF Critical, EnqPcs, DeqPcs
  <2>3. pc[t] \notin Critical
    BY <1>2, <2>2, Zenon DEF MutualExclusion
  <2>4. value' = value
    BY <2>3, Zenon DEF QueueMove, QueueStep, EnqueueStep, DequeueStep, CallEnqueue, CallDequeue,
           SpuriousWakeup, EnqueueLock, EnqueueLink, EnqueueTail,
           EnqueueSize, EnqueueUnlock, DequeueLock, DequeueWait, DequeueWoken, DequeueRead,
           DequeueUnlink, DequeueFree, DequeueUnlock, Lock, fields, Critical, EnqPcs, DeqPcs
  <2> QED
    BY <2>1, <2>4, Zenon DEF ArgKept
<1> QED
  BY <1>1, <1>2, Zenon

-----------------------------------------------------------------------------
(* The invariant of the pool *)

\* Worker w has a value that queue_dequeue gave it and that it has not dealt with.
Holds(w) ==
    \/ pc[w] \in Got
    \/ wpc[w] = "dequeue" /\ pc[w] = "idle"
    \/ wpc[w] = "run"

\* thread_pool_finish has been called.
Closing == mpc \notin {"create", "add"}

\* Where a thread is in the pool's functions, it is in the queue's.
WorkerControl(w) ==
    /\ wpc[w] \in {"none", "start", "exit"} => pc[w] = "idle"
    /\ wpc[w] = "dequeue" => pc[w] \in {"idle"} \cup DeqPcs
    /\ wpc[w] = "run" => pc[w] \in {"idle"} \cup EnqPcs /\ Returned[w] # Null
    /\ wpc[w] = "none" <=> mpc = "create" /\ count < w
    /\ Holds(w) => Returned[w] \in Values
    /\ pc[w] \in EnqPcs => Children[Returned[w]] # {} /\ ~ Closing

Control ==
    /\ mpc \in {"create", "add", "pill", "join", "free"}
    /\ count \in 0 .. NumWorkers - 1
    /\ wpc \in [Workers -> {"none", "start", "dequeue", "run", "exit"}]
    /\ \A w \in Workers : WorkerControl(w)
    /\ pc[Main] \in {"idle"} \cup EnqPcs
    /\ mpc = "create" => pc[Main] = "idle"
    /\ mpc = "add" => count = 0
    /\ mpc = "join" /\ count > 0 => pc[Main] = "idle"
    /\ mpc = "join" => \A w \in 1 .. count : wpc[w] = "exit"
    /\ mpc = "free" => pc[Main] = "idle" /\ \A w \in Workers : wpc[w] = "exit"

\* The work that is added and not done is about to be enqueued, in the queue or
\* in the hands of a worker, and in one place only.
IsPut(k) == \E t \in Threads : pc[t] \in Putting /\ arg[t] = k
IsQueued(k) == \E i \in 1 .. Len(Items) : Items[i] = k
IsHeld(k) == \E w \in Workers : Holds(w) /\ Returned[w] = k

Work ==
    /\ added \subseteq Tasks /\ done \subseteq added /\ functs = added \ done
    /\ \A k \in done : Children[k] \subseteq added
    /\ \A k \in Tasks :
         /\ k \in added \ done <=> IsPut(k) \/ IsQueued(k) \/ IsHeld(k)
         /\ ~ (IsPut(k) /\ IsQueued(k)) /\ ~ (IsPut(k) /\ IsHeld(k)) /\ ~ (IsQueued(k) /\ IsHeld(k))
    /\ \A t, u \in Threads :
         pc[t] \in Putting /\ pc[u] \in Putting /\ arg[t] = arg[u] => t = u
    /\ \A i, j \in 1 .. Len(Items) : Items[i] = Items[j] /\ Items[i] # Null => i = j
    /\ \A v, w \in Workers :
         Holds(v) /\ Holds(w) /\ Returned[v] = Returned[w] /\ Returned[v] # Null => v = w

\* The workers that have got a NULL.
Stopped == {w \in Workers : wpc[w] = "exit" \/ (Holds(w) /\ Returned[w] = Null)}

\* The NULLs come after all work, so that whoever gets one leaves none behind.
PillsLast ==
    /\ ~ Closing => Stopped = {} /\ \A i \in 1 .. Len(Items) : Items[i] # Null
    /\ Closing => Spawning \cap added \subseteq done
    /\ \A t \in Threads : pc[t] \in Putting => arg[t] \in Values /\ (arg[t] = Null <=> Closing)
    /\ \A i, j \in 1 .. Len(Items) : i < j /\ Items[i] = Null => Items[j] = Null
    /\ Stopped # {} => \A i \in 1 .. Len(Items) : Items[i] = Null

\* Each NULL that was sent is on its way, in the queue, or has stopped a worker.
Sent == IF ~ Closing THEN 0 ELSE IF mpc = "pill" THEN count ELSE NumWorkers

OnItsWay == IF pc[Main] \in Putting /\ arg[Main] = Null THEN 1 ELSE 0

PillsCounted == Sent = Nulls + Cardinality(Stopped) + OnItsWay

PoolInv == Control /\ Work /\ PillsLast /\ PillsCounted

\* Until the pool is freed; afterwards nothing moves any more.
Working == mpc # "finished" /\ QueueInv /\ ArgKept /\ PoolInv
Final == mpc = "finished" /\ FinishIsClean /\ waiting = {}

IInv == Working \/ Final

-----------------------------------------------------------------------------
\* What the invariant of the queue says of the pool's view of it.
LEMMA ViewTypes ==
  ASSUME QueueInv
  PROVE  /\ Items \in Seq(Values) /\ Len(Items) \in Nat
         /\ Returned \in [Threads -> Values \cup {Junk}]
         /\ pc \in [Threads -> {"idle"} \cup EnqPcs \cup DeqPcs]
         /\ arg \in [Threads -> Values \cup {Junk}]
         /\ Nulls \in Nat
<1> USE DEF QueueInv, QueueTypeOK
<1>1. order \in Seq(Nodes) /\ Len(order) \in Nat
  OBVIOUS
<1>2. \A i \in 1 .. Len(order) : value[order[i]] \in Values
  BY Zenon DEF Shape, HasValues
<1>3. Items \in Seq(Values) /\ Len(Items) \in Nat
  BY <1>1, <1>2 DEF Items
<1>4. Returned \in [Threads -> Values \cup {Junk}]
  BY Zenon DEF Returned
<1> QED
  BY <1>3, <1>4, NullsFinite, Zenon

\* Calls of the queue's functions change nothing in it.
LEMMA CallsView ==
  ASSUME QueueInv, NEW t \in Threads,
         CallDequeue(t) \/ \E v \in Values : CallEnqueue(t, v)
  PROVE  Items' = Items /\ Returned' = Returned /\ Nulls' = Nulls
<1> USE DEF QueueInv
<1>1. order' = order /\ value' = value
  BY Zenon DEF CallDequeue, CallEnqueue, fields
<1>2. Returned' = Returned
  BY Zenon DEF CallDequeue, CallEnqueue, Returned, QueueTypeOK, locals
<1> QED
  BY <1>1, <1>2, SameItems, Zenon

\* What the queue holds depends on its own state only.
LEMMA UnchangedView ==
  ASSUME QueueInv, UNCHANGED queueVars
  PROVE  Items' = Items /\ Returned' = Returned /\ Nulls' = Nulls
<1>1. order' = order /\ value' = value
  BY Zenon DEF queueVars
<1>2. Returned' = Returned
  BY Zenon DEF queueVars, Returned
<1> QED
  BY <1>1, <1>2, SameItems, Zenon DEF QueueInv

\* Finitely many workers have stopped.
LEMMA StoppedFinite ==
  /\ IsFiniteSet(Stopped) /\ Cardinality(Stopped) \in Nat
  /\ IsFiniteSet(Workers) /\ Cardinality(Workers) = NumWorkers
<1>1. IsFiniteSet(Workers) /\ Cardinality(Workers) = NumWorkers
  BY PoolConstants, FS_Interval DEF Workers
<1>2. Stopped \subseteq Workers
  BY Zenon DEF Stopped
<1> QED
  BY <1>1, <1>2, FS_Subset, FS_CardinalityType, Zenon

-----------------------------------------------------------------------------
(* Steps in the queue *)

\* A step inside a call of the queue changes nothing for the pool.
LEMMA ProceedsInv ==
  ASSUME Working, NEW t \in Threads, Effect(t), Proceeds(t), UNCHANGED poolVars
  PROVE  PoolInv'
<1> USE DEF Working, PoolInv
<1>0. /\ Items' = Items /\ Returned' = Returned /\ Nulls' = Nulls
      /\ UNCHANGED <<mpc, count, wpc, added, functs, done>>
  BY Zenon DEF Proceeds, poolVars
<1>1. \A u \in Threads :
        /\ pc'[u] \in Putting <=> pc[u] \in Putting
        /\ pc'[u] \in Got <=> pc[u] \in Got
        /\ pc'[u] = "idle" <=> pc[u] = "idle"
        /\ pc'[u] \in {"idle"} \cup EnqPcs <=> pc[u] \in {"idle"} \cup EnqPcs
        /\ pc'[u] \in {"idle"} \cup DeqPcs <=> pc[u] \in {"idle"} \cup DeqPcs
        /\ pc'[u] \in EnqPcs <=> pc[u] \in EnqPcs
        /\ arg'[u] = arg[u]
  BY Zenon DEF Effect, Proceeds, Putting, Getting, Got, EnqPcs, DeqPcs
<1>2. Workers \subseteq Threads /\ Main \in Threads
  BY PoolConstants, Zenon
<1>3. \A w \in Workers : Holds(w)' <=> Holds(w)
  BY <1>0, <1>1, <1>2, Zenon DEF Holds
<1>4. Control'
  <2>1. \A w \in Workers : WorkerControl(w)'
    BY <1>0, <1>1, <1>2, <1>3, Zenon DEF Control, WorkerControl, Closing
  <2> QED
    BY <2>1, <1>0, <1>1, <1>2, Zenon DEF Control
<1>5. Work'
  BY <1>0, <1>1, <1>2, <1>3 DEF Work, IsPut, IsQueued, IsHeld
<1>6. Stopped' = Stopped
  BY <1>0, <1>3, Zenon DEF Stopped
<1>7. PillsLast'
  BY <1>0, <1>1, <1>6, Zenon DEF PillsLast, Closing
<1>8. PillsCounted'
  BY <1>0, <1>1, <1>2, <1>6, Zenon DEF PillsCounted, Sent, Closing, OnItsWay
<1> QED
  BY <1>4, <1>5, <1>7, <1>8, Zenon

\* Nor does the return from a call.
LEMMA LeavesInv ==
  ASSUME Working, NEW t \in Threads, Effect(t), Leaves(t), UNCHANGED poolVars
  PROVE  PoolInv'
<1> USE DEF Working, PoolInv
<1>0. /\ Items' = Items /\ Returned' = Returned /\ Nulls' = Nulls
      /\ UNCHANGED <<mpc, count, wpc, added, functs, done>>
  BY Zenon DEF Leaves, poolVars
<1>1. /\ \A u \in Threads : pc'[u] \in Putting <=> pc[u] \in Putting
      /\ \A u \in Threads : pc[u] \in Putting => arg'[u] = arg[u]
      /\ \A u \in Threads : pc'[u] \in EnqPcs => pc[u] \in EnqPcs
      /\ \A u \in Threads : pc'[u] = pc[u] \/ pc'[u] = "idle"
  BY Zenon DEF Effect, Leaves, Putting, Got, EnqPcs, DeqPcs
<1>2. Workers \subseteq Threads /\ Main \in Threads /\ Main \notin Workers
  BY PoolConstants, Zenon
<1>3. \A w \in Workers : Holds(w)' <=> Holds(w)
  BY <1>0, <1>2, Zenon DEF Holds, Leaves, Effect, Got, Control, WorkerControl, EnqPcs, DeqPcs
<1>4. Control'
  <2>1. \A w \in Workers : WorkerControl(w)'
    BY <1>0, <1>1, <1>2, <1>3, ZenonT(30) DEF Control, WorkerControl, Closing
  <2> QED
    BY <2>1, <1>0, <1>1, <1>2, Zenon DEF Control
<1>5. Work'
  BY <1>0, <1>1, <1>2, <1>3 DEF Work, IsPut, IsQueued, IsHeld
<1>6. Stopped' = Stopped
  BY <1>0, <1>3, Zenon DEF Stopped
<1>7. PillsLast'
  BY <1>0, <1>1, <1>6, Zenon DEF PillsLast, Closing
<1>8. PillsCounted'
  BY <1>0, <1>1, <1>2, <1>6, Zenon DEF PillsCounted, Sent, Closing, OnItsWay
<1> QED
  BY <1>4, <1>5, <1>7, <1>8, Zenon

\* The argument is in the queue from now on, behind all others.
LEMMA PutsInv ==
  ASSUME Working, NEW t \in Threads, Effect(t), Puts(t), UNCHANGED poolVars
  PROVE  PoolInv'
<1> USE DEF Working, PoolInv
<1>0. /\ Items' = Append(Items, arg[t]) /\ Returned' = Returned
      /\ UNCHANGED <<mpc, count, wpc, added, functs, done>>
  BY Zenon DEF Puts, poolVars
<1>1. /\ pc[t] \in Putting /\ pc'[t] = "enq_unlock" /\ pc'[t] \notin Putting
      /\ \A u \in Threads \ {t} : pc'[u] = pc[u] /\ arg'[u] = arg[u]
      /\ \A u \in Threads : pc'[u] \in EnqPcs <=> pc[u] \in EnqPcs
      /\ \A u \in Threads : pc'[u] = "idle" <=> pc[u] = "idle"
      /\ \A u \in Threads : pc'[u] \in Got <=> pc[u] \in Got
      /\ \A u \in Threads : pc'[u] \in DeqPcs <=> pc[u] \in DeqPcs
  BY Zenon DEF Effect, Puts, Putting, Got, EnqPcs, DeqPcs
<1>2. Workers \subseteq Threads /\ Main \in Threads /\ Main \notin Workers
  BY PoolConstants, Zenon
<1>3. \A w \in Workers : Holds(w)' <=> Holds(w)
  BY <1>0, <1>1, <1>2, Zenon DEF Holds
<1>v. arg[t] \in Values /\ (arg[t] = Null <=> Closing)
  BY <1>1, Zenon DEF PillsLast
<1>i. /\ Len(Items') = Len(Items) + 1 /\ Len(Items) \in Nat
      /\ \A i \in 1 .. Len(Items) : Items'[i] = Items[i]
      /\ Items'[Len(Items) + 1] = arg[t]
      /\ \A i \in 1 .. Len(Items') : i \in 1 .. Len(Items) \/ i = Len(Items) + 1
  BY <1>0, <1>v, ViewTypes
<1>4. Control'
  <2>1. \A w \in Workers : WorkerControl(w)'
    BY <1>0, <1>1, <1>2, <1>3, Zenon DEF Control, WorkerControl, Closing
  <2> QED
    BY <2>1, <1>0, <1>1, <1>2, Zenon DEF Control
<1>5. Work'
  <2>1. \A k : IsPut(k)' <=> IsPut(k) /\ k # arg[t]
    <3>1. ASSUME NEW k, IsPut(k)' PROVE IsPut(k) /\ k # arg[t]
      BY <3>1, <1>1, Zenon DEF IsPut, Work
    <3>2. ASSUME NEW k, IsPut(k), k # arg[t] PROVE IsPut(k)'
      BY <3>2, <1>1, Zenon DEF IsPut
    <3> QED
      BY <3>1, <3>2, Zenon
  <2>2. \A k : IsQueued(k)' <=> IsQueued(k) \/ k = arg[t]
    <3>1. ASSUME NEW k, IsQueued(k)' PROVE IsQueued(k) \/ k = arg[t]
      BY <3>1, <1>i, Zenon DEF IsQueued
    <3>2. ASSUME NEW k, IsQueued(k) PROVE IsQueued(k)'
      BY <3>2, <1>i DEF IsQueued
    <3>3. ASSUME NEW k, k = arg[t] PROVE IsQueued(k)'
      BY <3>3, <1>i DEF IsQueued
    <3> QED
      BY <3>1, <3>2, <3>3, Zenon
  <2>3. \A k : IsHeld(k)' <=> IsHeld(k)
    BY <1>0, <1>3, Zenon DEF IsHeld
  <2>4. IsPut(arg[t])
    BY <1>1, Zenon DEF IsPut
  <2>5. ASSUME NEW k \in Tasks
        PROVE  /\ k \in (added \ done)' <=> IsPut(k)' \/ IsQueued(k)' \/ IsHeld(k)'
               /\ ~ (IsPut(k)' /\ IsQueued(k)') /\ ~ (IsPut(k)' /\ IsHeld(k)')
               /\ ~ (IsQueued(k)' /\ IsHeld(k)')
    BY <1>0, <2>1, <2>2, <2>3, <2>4, ZenonT(30) DEF Work
  <2>6. \A u, v \in Threads : pc'[u] \in Putting /\ pc'[v] \in Putting /\ arg'[u] = arg'[v] => u = v
    BY <1>1, Zenon DEF Work
  <2>7. ASSUME NEW i \in 1 .. Len(Items'), NEW j \in 1 .. Len(Items'),
               Items'[i] = Items'[j], Items'[i] # Null
        PROVE  i = j
    <3>1. CASE arg[t] = Null
      BY <3>1, <2>7, <1>i, Zenon DEF Work
    <3>2. CASE arg[t] # Null
      <4>1. arg[t] \in Tasks
        BY <3>2, <1>v, PoolConstants, Zenon
      <4>2. ~ IsQueued(arg[t])
        BY <4>1, <2>4, Zenon DEF Work
      <4> QED
        BY <4>2, <2>7, <1>i DEF Work, IsQueued
    <3> QED
      BY <3>1, <3>2, Zenon
  <2>8. \A v, w \in Workers : Holds(v)' /\ Holds(w)' /\ Returned'[v] = Returned'[w] /\ Returned'[v] # Null => v = w
    BY <1>0, <1>3, Zenon DEF Work
  <2> QED
    BY <1>0, <2>5, <2>6, <2>7, <2>8, Zenon DEF Work
<1>6. Stopped' = Stopped
  BY <1>0, <1>3, Zenon DEF Stopped
<1>7. PillsLast'
  <2>1. ~ Closing => \A i \in 1 .. Len(Items') : Items'[i] # Null
    BY <1>i, <1>v, Zenon DEF PillsLast
  <2>2. ASSUME NEW i \in 1 .. Len(Items'), NEW j \in 1 .. Len(Items'), i < j, Items'[i] = Null
        PROVE  Items'[j] = Null
    <3>1. i \in 1 .. Len(Items)
      BY <2>2, <1>i
    <3>2. Closing
      BY <3>1, <2>2, <1>i, Zenon DEF PillsLast
    <3> QED
      BY <3>1, <3>2, <2>2, <1>i, <1>v, Zenon DEF PillsLast
  <2>3. Stopped # {} => \A i \in 1 .. Len(Items') : Items'[i] = Null
    BY <1>i, <1>v, Zenon DEF PillsLast
  <2>4. \A u \in Threads : pc'[u] \in Putting => arg'[u] \in Values /\ (arg'[u] = Null <=> Closing)
    BY <1>1, Zenon DEF PillsLast
  <2> QED
    BY <1>0, <1>6, <2>1, <2>2, <2>3, <2>4, Zenon DEF PillsLast, Closing
<1>8. PillsCounted'
  <2>1. OnItsWay = OnItsWay' + OneIf(arg[t])
    <3>1. CASE t = Main
      BY <3>1, <1>1 DEF OnItsWay, OneIf
    <3>2. CASE t # Main
      <4>1. t \in Workers
        BY <3>2, PoolConstants, Zenon
      <4>2. pc[t] \in EnqPcs
        BY <1>1, Zenon DEF Putting, EnqPcs
      <4>3. arg[t] # Null
        BY <4>1, <4>2, <1>v, Zenon DEF Control, WorkerControl
      <4> QED
        BY <3>2, <4>3, <1>1, <1>2 DEF OnItsWay, OneIf
    <3> QED
      BY <3>1, <3>2, Zenon
  <2>2. Nulls' = Nulls + OneIf(arg[t])
    BY Zenon DEF Puts
  <2>3. Nulls \in Nat /\ Cardinality(Stopped) \in Nat
    BY ViewTypes, StoppedFinite, Zenon
  <2>4. Sent' = Sent /\ Sent = Nulls + Cardinality(Stopped) + OnItsWay
    BY <1>0, Zenon DEF Sent, Closing, PillsCounted
  <2> QED
    BY <1>6, <2>1, <2>2, <2>3, <2>4 DEF PillsCounted, OneIf, OnItsWay
<1> QED
  BY <1>4, <1>5, <1>7, <1>8, Zenon

\* The oldest value is in the hands of t from now on.
LEMMA GetsInv ==
  ASSUME Working, NEW t \in Threads, Effect(t), Gets(t), UNCHANGED poolVars
  PROVE  PoolInv'
<1> USE DEF Working, PoolInv
<1>0. /\ Items # <<>> /\ Items' = Tail(Items)
      /\ Returned' = [Returned EXCEPT ![t] = Head(Items)]
      /\ UNCHANGED <<mpc, count, wpc, added, functs, done>>
  BY Zenon DEF Gets, poolVars
<1>1. /\ pc[t] \in Getting /\ pc'[t] \in Got /\ pc'[t] \in DeqPcs /\ pc[t] \in DeqPcs
      /\ \A u \in Threads \ {t} : pc'[u] = pc[u] /\ arg'[u] = arg[u]
      /\ pc[t] \notin Putting \cup EnqPcs \cup {"idle"} \cup Got
      /\ pc'[t] \notin Putting \cup EnqPcs \cup {"idle"}
  BY Zenon DEF Effect, Gets, Putting, Getting, Got, EnqPcs, DeqPcs
<1>2. Workers \subseteq Threads /\ Main \in Threads /\ Main \notin Workers
  BY PoolConstants, Zenon
<1>w. t \in Workers /\ wpc[t] = "dequeue" /\ t # Main
  <2>1. t # Main
    BY <1>1, Zenon DEF Control
  <2>2. t \in Workers
    BY <2>1, PoolConstants, Zenon
  <2>3. wpc[t] \notin {"none", "start", "exit", "run"}
    BY <2>2, <1>1, Zenon DEF Control, WorkerControl
  <2> QED
    BY <2>1, <2>2, <2>3, Zenon DEF Control
<1>3. /\ Holds(t)' /\ ~ Holds(t)
      /\ \A w \in Workers \ {t} : Holds(w)' <=> Holds(w)
  BY <1>0, <1>1, <1>2, <1>w, Zenon DEF Holds
<1>i. /\ Len(Items') = Len(Items) - 1 /\ Len(Items) \in Nat /\ 1 \in 1 .. Len(Items)
      /\ \A i \in 1 .. Len(Items') : Items'[i] = Items[i + 1] /\ i + 1 \in 1 .. Len(Items)
      /\ \A i \in 1 .. Len(Items) : i = 1 \/ i - 1 \in 1 .. Len(Items')
      /\ Head(Items) = Items[1] /\ Items[1] \in Values
  BY <1>0, ViewTypes
<1>r. /\ Returned'[t] = Items[1]
      /\ \A w \in Workers \ {t} : Returned'[w] = Returned[w]
  BY <1>0, <1>i, <1>2, ViewTypes, Zenon
<1>4. Control'
  <2>1. \A w \in Workers : WorkerControl(w)'
    <3>1. WorkerControl(t)'
      BY <1>0, <1>1, <1>2, <1>i, <1>r, <1>w, Zenon DEF Control, WorkerControl, Closing
    <3>2. ASSUME NEW w \in Workers \ {t} PROVE WorkerControl(w)'
      BY <1>0, <1>1, <1>2, <1>3, <1>r DEF Control, WorkerControl, Closing
    <3> QED
      BY <3>1, <3>2, Zenon
  <2> QED
    BY <2>1, <1>0, <1>1, <1>2, <1>w, Zenon DEF Control
<1>5. Work'
  <2>1. \A k : IsPut(k)' <=> IsPut(k)
    BY <1>1, Zenon DEF IsPut
  <2>2. \A k \in Tasks : IsQueued(k)' <=> IsQueued(k) /\ k # Items[1]
    <3>1. ASSUME NEW k \in Tasks, IsQueued(k)' PROVE IsQueued(k) /\ k # Items[1]
      <4>1. PICK i \in 1 .. Len(Items') : Items'[i] = k
        BY <3>1, Zenon DEF IsQueued
      <4>2. i + 1 \in 1 .. Len(Items) /\ Items[i + 1] = k /\ i + 1 # 1
        BY <4>1, <1>i
      <4>3. k # Null
        BY PoolConstants, Zenon
      <4> QED
        BY <4>2, <4>3, <1>i, Zenon DEF IsQueued, Work
    <3>2. ASSUME NEW k \in Tasks, IsQueued(k), k # Items[1] PROVE IsQueued(k)'
      <4>1. PICK i \in 1 .. Len(Items) : Items[i] = k
        BY <3>2, Zenon DEF IsQueued
      <4>2. i - 1 \in 1 .. Len(Items') /\ Items'[i - 1] = Items[(i - 1) + 1]
        BY <4>1, <3>2, <1>i, Zenon
      <4>3. (i - 1) + 1 = i
        BY <4>1
      <4> QED
        BY <4>1, <4>2, <4>3, Zenon DEF IsQueued
    <3> QED
      BY <3>1, <3>2, Zenon
  <2>3. \A k : IsHeld(k)' <=> IsHeld(k) \/ k = Items[1]
    BY <1>3, <1>r, <1>w, Zenon DEF IsHeld
  <2>4. IsQueued(Items[1])
    BY <1>i, Zenon DEF IsQueued
  <2>5. ASSUME NEW k \in Tasks
        PROVE  /\ k \in (added \ done)' <=> IsPut(k)' \/ IsQueued(k)' \/ IsHeld(k)'
               /\ ~ (IsPut(k)' /\ IsQueued(k)') /\ ~ (IsPut(k)' /\ IsHeld(k)')
               /\ ~ (IsQueued(k)' /\ IsHeld(k)')
    BY <1>0, <2>1, <2>2, <2>3, <2>4, Zenon DEF Work
  <2>6. \A u, v \in Threads : pc'[u] \in Putting /\ pc'[v] \in Putting /\ arg'[u] = arg'[v] => u = v
    BY <1>1, Zenon DEF Work
  <2>7. \A i, j \in 1 .. Len(Items') : Items'[i] = Items'[j] /\ Items'[i] # Null => i = j
    BY <1>i DEF Work
  <2>8. ASSUME NEW v \in Workers, NEW w \in Workers,
               Holds(v)', Holds(w)', Returned'[v] = Returned'[w], Returned'[v] # Null
        PROVE  v = w
    <3>1. CASE Items[1] = Null
      BY <3>1, <2>8, <1>3, <1>r, ZenonT(30) DEF Work
    <3>2. CASE Items[1] # Null
      <4>1. Items[1] \in Tasks
        BY <3>2, <1>i, PoolConstants, Zenon
      <4>2. ~ IsHeld(Items[1])
        BY <4>1, <2>4, Zenon DEF Work
      <4> QED
        BY <4>2, <2>8, <1>3, <1>r DEF Work, IsHeld
    <3> QED
      BY <3>1, <3>2, Zenon
  <2> QED
    BY <1>0, <2>5, <2>6, <2>7, <2>8, Zenon DEF Work
<1>6. Stopped' = IF Items[1] = Null THEN Stopped \cup {t} ELSE Stopped
  BY <1>0, <1>3, <1>r, <1>w, Zenon DEF Stopped
<1>c. Items[1] = Null => Closing
  BY <1>i, Zenon DEF PillsLast
<1>7. PillsLast'
  <2>1. ~ Closing => Stopped' = {} /\ \A i \in 1 .. Len(Items') : Items'[i] # Null
    BY <1>i, <1>6, <1>c, Zenon DEF PillsLast
  <2>2. ASSUME NEW i \in 1 .. Len(Items'), NEW j \in 1 .. Len(Items'), i < j, Items'[i] = Null
        PROVE  Items'[j] = Null
    <3>1. /\ i + 1 \in 1 .. Len(Items) /\ j + 1 \in 1 .. Len(Items)
          /\ Items'[i] = Items[i + 1] /\ Items'[j] = Items[j + 1]
      BY <1>i, Zenon
    <3>2. i \in Int /\ j \in Int
      OBVIOUS
    <3>3. i + 1 < j + 1
      BY <2>2, <3>2
    <3>4. Items[i + 1] = Null
      BY <2>2, <3>1, ZenonT(30)
    <3> QED
      BY <3>1, <3>3, <3>4, Zenon DEF PillsLast
  <2>3. ASSUME Stopped' # {}, NEW i \in 1 .. Len(Items') PROVE Items'[i] = Null
    <3>1. i + 1 \in 1 .. Len(Items) /\ Items'[i] = Items[i + 1] /\ 1 < i + 1
      BY <1>i
    <3>2. CASE Items[1] = Null
      BY <3>1, <3>2, <1>i, Zenon DEF PillsLast
    <3>3. CASE Items[1] # Null
      BY <2>3, <3>1, <3>3, <1>6, Zenon DEF PillsLast
    <3> QED
      BY <3>2, <3>3, Zenon
  <2>4. \A u \in Threads : pc'[u] \in Putting => arg'[u] \in Values /\ (arg'[u] = Null <=> Closing)
    BY <1>1, Zenon DEF PillsLast
  <2> QED
    BY <1>0, <2>1, <2>2, <2>3, <2>4, Zenon DEF PillsLast, Closing
<1>8. PillsCounted'
  <2>1. OnItsWay' = OnItsWay
    BY <1>1, <1>2, <1>w, Zenon DEF OnItsWay
  <2>2. Nulls' = Nulls - OneIf(Items[1])
    BY <1>i, Zenon DEF Gets
  <2>3. t \notin Stopped
    BY <1>3, <1>w, Zenon DEF Stopped
  <2>4. Cardinality(Stopped') = Cardinality(Stopped) + OneIf(Items[1])
    <3>1. Cardinality(Stopped \cup {t}) = Cardinality(Stopped) + 1 /\ Cardinality(Stopped) \in Nat
      BY <2>3, StoppedFinite, FS_AddElement, Zenon
    <3> QED
      BY <3>1, <1>6 DEF OneIf
  <2>5. Nulls \in Nat /\ Cardinality(Stopped) \in Nat
    BY ViewTypes, StoppedFinite, Zenon
  <2>6. Sent' = Sent /\ Sent = Nulls + Cardinality(Stopped) + OnItsWay
    BY <1>0, Zenon DEF Sent, Closing, PillsCounted
  <2> QED
    BY <2>1, <2>2, <2>4, <2>5, <2>6 DEF PillsCounted, OneIf, OnItsWay
<1> QED
  BY <1>4, <1>5, <1>7, <1>8, Zenon

-----------------------------------------------------------------------------
(* thread_pool_add_work *)

\* Thread t, which is main or runs work that may add some, calls it with k.
LEMMA AddWorkInv ==
  ASSUME Working, NEW t \in Threads, NEW k \in Tasks, AddWork(t, k),
         UNCHANGED <<mpc, count, wpc, done>>, ~ Closing,
         \/ t = Main /\ mpc # "create"
         \/ t \in Workers /\ wpc[t] = "run" /\ Children[Returned[t]] # {}
  PROVE  PoolInv'
<1> USE DEF Working, PoolInv
<1>0. /\ k \notin added /\ added' = added \cup {k} /\ functs' = functs \cup {k}
      /\ CallEnqueue(t, k)
  BY Zenon DEF AddWork
<1>2. Workers \subseteq Threads /\ Main \in Threads /\ Main \notin Workers /\ k \in Values /\ k # Null
  BY PoolConstants, Zenon
<1>v. Items' = Items /\ Returned' = Returned /\ Nulls' = Nulls
  BY <1>0, <1>2, CallsView, Zenon
<1>1. /\ pc[t] = "idle" /\ pc'[t] = "enq_lock" /\ arg'[t] = k
      /\ \A u \in Threads \ {t} : pc'[u] = pc[u] /\ arg'[u] = arg[u]
      /\ pc'[t] \in Putting /\ pc'[t] \in EnqPcs /\ pc'[t] \notin Got
      /\ pc[t] \notin Putting /\ pc[t] \notin Got
  BY <1>0, ViewTypes, Zenon DEF CallEnqueue, Putting, EnqPcs, Got
<1>3. \A w \in Workers : Holds(w)' <=> Holds(w)
  BY <1>1, <1>2, Zenon DEF Holds
<1>4. Control'
  <2>1. \A w \in Workers : WorkerControl(w)'
    BY <1>v, <1>1, <1>2, <1>3, ZenonT(30) DEF Control, WorkerControl, Closing
  <2> QED
    BY <2>1, <1>1, <1>2, Zenon DEF Control, Closing
<1>5. Work'
  <2>1. \A j : IsPut(j)' <=> IsPut(j) \/ j = k
    BY <1>1, Zenon DEF IsPut
  <2>2. \A j : (IsQueued(j)' <=> IsQueued(j)) /\ (IsHeld(j)' <=> IsHeld(j))
    BY <1>v, <1>3, Zenon DEF IsQueued, IsHeld
  <2>3. ~ IsPut(k) /\ ~ IsQueued(k) /\ ~ IsHeld(k)
    BY <1>0, Zenon DEF Work
  <2>4. ASSUME NEW j \in Tasks
        PROVE  /\ j \in (added \ done)' <=> IsPut(j)' \/ IsQueued(j)' \/ IsHeld(j)'
               /\ ~ (IsPut(j)' /\ IsQueued(j)') /\ ~ (IsPut(j)' /\ IsHeld(j)')
               /\ ~ (IsQueued(j)' /\ IsHeld(j)')
    BY <1>0, <2>1, <2>2, <2>3, Zenon DEF Work
  <2>5. ASSUME NEW u \in Threads, NEW v \in Threads,
               pc'[u] \in Putting, pc'[v] \in Putting, arg'[u] = arg'[v]
        PROVE  u = v
    <3>1. \A x \in Threads \ {t} : pc[x] \in Putting => arg[x] # k
      BY <2>3, Zenon DEF IsPut
    <3>2. u # t /\ v # t => u = v
      BY <2>5, <1>1, Zenon DEF Work
    <3> QED
      BY <2>5, <3>1, <3>2, <1>1, ZenonT(30)
  <2>6. /\ added' \subseteq Tasks /\ done' \subseteq added' /\ functs' = added' \ done'
        /\ \A j \in done' : Children[j] \subseteq added'
    BY <1>0, ZenonT(30) DEF Work
  <2> QED
    BY <1>v, <1>3, <2>4, <2>5, <2>6, Zenon DEF Work
<1>6. Stopped' = Stopped
  BY <1>v, <1>3, Zenon DEF Stopped
<1>7. PillsLast'
  BY <1>v, <1>1, <1>2, <1>6, Zenon DEF PillsLast, Closing
<1>8. PillsCounted'
  <2>1. OnItsWay' = OnItsWay
    BY <1>1, <1>2, Zenon DEF OnItsWay
  <2> QED
    BY <2>1, <1>v, <1>6, Zenon DEF PillsCounted, Sent, Closing
<1> QED
  BY <1>4, <1>5, <1>7, <1>8, Zenon

-----------------------------------------------------------------------------
(* thread_execute *)

\* A new worker calls queue_dequeue.
LEMMA WorkerStartInv ==
  ASSUME Working, NEW w \in Workers, WorkerStart(w)
  PROVE  PoolInv'
<1> USE DEF Working, PoolInv
<1>2. Workers \subseteq Threads /\ Main \in Threads /\ Main \notin Workers
  BY PoolConstants, Zenon
<1>v. Items' = Items /\ Returned' = Returned /\ Nulls' = Nulls
  BY <1>2, CallsView, Zenon DEF WorkerStart
<1>0. /\ wpc[w] = "start" /\ wpc' = [wpc EXCEPT ![w] = "dequeue"] /\ arg' = arg
      /\ UNCHANGED <<mpc, count, added, functs, done>>
  BY Zenon DEF WorkerStart, CallDequeue, locals
<1>1. /\ pc[w] = "idle" /\ pc'[w] = "deq_lock"
      /\ \A u \in Threads \ {w} : pc'[u] = pc[u]
      /\ pc'[w] \in DeqPcs /\ pc'[w] \notin Putting \cup Got \cup EnqPcs
      /\ pc[w] \notin Putting \cup Got
  BY <1>2, ViewTypes, Zenon DEF WorkerStart, CallDequeue, Putting, EnqPcs, DeqPcs, Got
<1>a. /\ wpc'[w] = "dequeue"
      /\ \A u \in Workers \ {w} : wpc'[u] = wpc[u]
      /\ wpc' \in [Workers -> {"none", "start", "dequeue", "run", "exit"}]
  BY <1>0, Zenon DEF Control
<1>3. \A u \in Workers : Holds(u)' <=> Holds(u)
  BY <1>0, <1>1, <1>2, <1>a, Zenon DEF Holds
<1>4. Control'
  <2>1. \A u \in Workers : WorkerControl(u)'
    BY <1>0, <1>a, <1>v, <1>1, <1>2, <1>3, Zenon DEF Control, WorkerControl, Closing
  <2>2. mpc \notin {"free"} /\ \A u \in Workers : wpc[u] = "exit" => wpc'[u] = "exit"
    BY <1>0, <1>a, Zenon DEF Control
  <2> QED
    BY <2>1, <2>2, <1>0, <1>a, <1>1, <1>2, PoolConstants DEF Control, Workers
<1>5. Work'
  <2>1. \A j : (IsPut(j)' <=> IsPut(j)) /\ (IsQueued(j)' <=> IsQueued(j)) /\ (IsHeld(j)' <=> IsHeld(j))
    BY <1>0, <1>1, <1>v, <1>3, Zenon DEF IsPut, IsQueued, IsHeld
  <2> QED
    BY <2>1, <1>0, <1>1, <1>v, <1>3, Zenon DEF Work
<1>6. Stopped' = Stopped
  BY <1>0, <1>a, <1>v, <1>3, Zenon DEF Stopped
<1>7. PillsLast'
  BY <1>0, <1>v, <1>1, <1>2, <1>6, Zenon DEF PillsLast, Closing
<1>8. PillsCounted'
  BY <1>0, <1>1, <1>2, <1>v, <1>6, Zenon DEF PillsCounted, Sent, Closing, OnItsWay
<1> QED
  BY <1>4, <1>5, <1>7, <1>8, Zenon

\* A worker takes what queue_dequeue returned: work, or the NULL that ends it.
LEMMA WorkerTakesInv ==
  ASSUME Working, NEW w \in Workers, WorkerTakes(w)
  PROVE  PoolInv'
<1> USE DEF Working, PoolInv
<1>2. Workers \subseteq Threads /\ Main \in Threads /\ Main \notin Workers
  BY PoolConstants, Zenon
<1>v. Items' = Items /\ Returned' = Returned /\ Nulls' = Nulls /\ pc' = pc /\ arg' = arg
  BY UnchangedView, Zenon DEF WorkerTakes, queueVars
<1>0. /\ wpc[w] = "dequeue" /\ pc[w] = "idle" /\ Holds(w)
      /\ wpc' = [wpc EXCEPT ![w] = IF Returned[w] = Null THEN "exit" ELSE "run"]
      /\ UNCHANGED <<mpc, count, added, functs, done>>
  BY <1>2, Zenon DEF WorkerTakes, Returned, Holds
<1>a. /\ wpc'[w] = IF Returned[w] = Null THEN "exit" ELSE "run"
      /\ \A u \in Workers \ {w} : wpc'[u] = wpc[u]
      /\ wpc' \in [Workers -> {"none", "start", "dequeue", "run", "exit"}]
  BY <1>0, Zenon DEF Control
<1>3. /\ \A u \in Workers \ {w} : Holds(u)' <=> Holds(u)
      /\ Holds(w)' <=> Returned[w] # Null
  BY <1>0, <1>v, <1>2, <1>a, Zenon DEF Holds, Got
<1>4. Control'
  <2>1. \A u \in Workers : WorkerControl(u)'
    BY <1>0, <1>a, <1>v, <1>2, <1>3, Zenon DEF Control, WorkerControl, Closing, EnqPcs
  <2>2. mpc # "free" /\ \A u \in Workers : wpc[u] = "exit" => wpc'[u] = "exit"
    BY <1>0, <1>a, Zenon DEF Control
  <2> QED
    BY <2>1, <2>2, <1>0, <1>a, <1>v, <1>2, PoolConstants DEF Control, Workers
<1>5. Work'
  <2>1. \A j : (IsPut(j)' <=> IsPut(j)) /\ (IsQueued(j)' <=> IsQueued(j))
    BY <1>v, Zenon DEF IsPut, IsQueued
  <2>2. \A j \in Tasks : IsHeld(j)' <=> IsHeld(j)
    BY <1>0, <1>v, <1>3, PoolConstants, Zenon DEF IsHeld
  <2> QED
    BY <2>1, <2>2, <1>0, <1>v, <1>3, Zenon DEF Work
<1>6. Stopped' = Stopped
  BY <1>0, <1>a, <1>v, <1>3, Zenon DEF Stopped
<1>7. PillsLast'
  BY <1>0, <1>v, <1>6, Zenon DEF PillsLast, Closing
<1>8. PillsCounted'
  BY <1>0, <1>v, <1>6, Zenon DEF PillsCounted, Sent, Closing, OnItsWay
<1> QED
  BY <1>4, <1>5, <1>7, <1>8, Zenon

\* The work in hand is done; no other worker had it.
LEMMA WorkReturnsInv ==
  ASSUME Working, NEW w \in Workers, WorkReturns(w)
  PROVE  PoolInv'
<1> USE DEF Working, PoolInv
<1>2. Workers \subseteq Threads /\ Main \in Threads /\ Main \notin Workers
  BY PoolConstants, Zenon
<1>v. Items' = Items /\ Returned' = Returned /\ Nulls' = Nulls
  BY <1>2, CallsView, Zenon DEF WorkReturns
<1>1. /\ pc[w] = "idle" /\ pc'[w] = "deq_lock" /\ arg' = arg
      /\ \A u \in Threads \ {w} : pc'[u] = pc[u]
      /\ pc'[w] \in DeqPcs /\ pc'[w] \notin Putting \cup Got \cup EnqPcs
      /\ pc[w] \notin Putting \cup Got
  BY <1>2, ViewTypes, Zenon DEF WorkReturns, CallDequeue, Putting, EnqPcs, DeqPcs, Got, locals
<1> DEFINE k == Returned[w]
<1>0. /\ wpc[w] = "run" /\ Holds(w)
      /\ Children[k] \subseteq added /\ done' = done \cup {k} /\ functs' = functs \ {k}
      /\ wpc' = [wpc EXCEPT ![w] = "dequeue"]
      /\ UNCHANGED <<mpc, count, added>>
  BY <1>1, <1>2, Zenon DEF WorkReturns, Returned, Holds
<1>k. k \in Tasks
  BY <1>0, <1>2, PoolConstants, Zenon DEF Control, WorkerControl
<1> HIDE DEF k
<1>a. /\ wpc'[w] = "dequeue"
      /\ \A u \in Workers \ {w} : wpc'[u] = wpc[u]
      /\ wpc' \in [Workers -> {"none", "start", "dequeue", "run", "exit"}]
  BY <1>0, Zenon DEF Control
<1>3. /\ \A u \in Workers \ {w} : Holds(u)' <=> Holds(u)
      /\ ~ Holds(w)'
  BY <1>0, <1>1, <1>2, <1>a, Zenon DEF Holds
<1>4. Control'
  <2>1. \A u \in Workers : WorkerControl(u)'
    BY <1>0, <1>a, <1>v, <1>1, <1>2, <1>3, Zenon DEF Control, WorkerControl, Closing
  <2>2. mpc # "free" /\ \A u \in Workers : wpc[u] = "exit" => wpc'[u] = "exit"
    BY <1>0, <1>a, Zenon DEF Control
  <2> QED
    BY <2>1, <2>2, <1>0, <1>a, <1>1, <1>2, PoolConstants DEF Control, Workers
<1>5. Work'
  <2>1. \A j : (IsPut(j)' <=> IsPut(j)) /\ (IsQueued(j)' <=> IsQueued(j))
    BY <1>1, <1>v, Zenon DEF IsPut, IsQueued
  <2>2. \A j \in Tasks : IsHeld(j)' <=> IsHeld(j) /\ j # k
    <3>1. ASSUME NEW j \in Tasks, IsHeld(j)' PROVE IsHeld(j) /\ j # k
      BY <3>1, <1>0, <1>v, <1>3, PoolConstants, Zenon DEF IsHeld, Work, k
    <3>2. ASSUME NEW j \in Tasks, IsHeld(j), j # k PROVE IsHeld(j)'
      BY <3>2, <1>0, <1>v, <1>3, Zenon DEF IsHeld, k
    <3> QED
      BY <3>1, <3>2, Zenon
  <2>3. IsHeld(k)
    BY <1>0, Zenon DEF IsHeld, k
  <2>4. k \in added
    BY <2>3, <1>k, Zenon DEF Work
  <2>5. ASSUME NEW j \in Tasks
        PROVE  /\ j \in (added \ done)' <=> IsPut(j)' \/ IsQueued(j)' \/ IsHeld(j)'
               /\ ~ (IsPut(j)' /\ IsQueued(j)') /\ ~ (IsPut(j)' /\ IsHeld(j)')
               /\ ~ (IsQueued(j)' /\ IsHeld(j)')
    BY <1>0, <1>k, <2>1, <2>2, <2>3, Zenon DEF Work
  <2>6. /\ added' \subseteq Tasks /\ done' \subseteq added' /\ functs' = added' \ done'
        /\ \A j \in done' : Children[j] \subseteq added'
    BY <1>0, <2>4, Zenon DEF Work
  <2> QED
    BY <2>5, <2>6, <1>1, <1>v, <1>3, Zenon DEF Work
<1>6. Stopped' = Stopped
  BY <1>0, <1>a, <1>v, <1>3, <1>k, PoolConstants, Zenon DEF Stopped, k
<1>7. PillsLast'
  BY <1>0, <1>v, <1>1, <1>2, <1>6, Zenon DEF PillsLast, Closing
<1>8. PillsCounted'
  BY <1>0, <1>1, <1>2, <1>v, <1>6, Zenon DEF PillsCounted, Sent, Closing, OnItsWay
<1> QED
  BY <1>4, <1>5, <1>7, <1>8, Zenon

-----------------------------------------------------------------------------
(* thread_pool_init and thread_pool_finish *)

\* A step of main that leaves the queue, the work and the places of the work
\* alone keeps what concerns them.
LEMMA MainOnly ==
  ASSUME Working, UNCHANGED <<queueVars, added, functs, done>>,
         \A w \in Workers : (Holds(w)' <=> Holds(w)) /\ (wpc'[w] = "exit" <=> wpc[w] = "exit")
  PROVE  /\ Items' = Items /\ Returned' = Returned /\ Nulls' = Nulls
         /\ pc' = pc /\ arg' = arg
         /\ Stopped' = Stopped /\ OnItsWay' = OnItsWay
         /\ Work'
<1> USE DEF Working, PoolInv
<1>v. Items' = Items /\ Returned' = Returned /\ Nulls' = Nulls /\ pc' = pc /\ arg' = arg
  BY UnchangedView, Zenon DEF queueVars
<1>1. Stopped' = Stopped /\ OnItsWay' = OnItsWay
  BY <1>v, Zenon DEF Stopped, OnItsWay
<1>2. Work'
  BY <1>v, Zenon DEF Work, IsPut, IsQueued, IsHeld
<1> QED
  BY <1>v, <1>1, <1>2, Zenon

\* thread_pool_init creates the workers one by one.
LEMMA CreateWorkerInv ==
  ASSUME Working, CreateWorker
  PROVE  PoolInv'
<1> USE DEF Working, PoolInv
<1>2. /\ Workers \subseteq Threads /\ Main \in Threads /\ Main \notin Workers
      /\ NumWorkers \in Nat /\ NumWorkers > 0
  BY PoolConstants
<1>0. /\ mpc = "create" /\ wpc' = [wpc EXCEPT ![count + 1] = "start"]
      /\ count' = IF count + 1 < NumWorkers THEN count + 1 ELSE 0
      /\ mpc' = IF count + 1 < NumWorkers THEN "create" ELSE "add"
      /\ UNCHANGED <<queueVars, added, functs, done>>
  BY Zenon DEF CreateWorker
<1>c. count \in 0 .. NumWorkers - 1 /\ count + 1 \in Workers
  BY <1>2 DEF Control, Workers
<1>w. wpc[count + 1] = "none" /\ pc[count + 1] = "idle"
  <2>1. WorkerControl(count + 1) /\ mpc = "create" /\ count < count + 1
    BY <1>0, <1>c DEF Control
  <2> HIDE DEF Working, PoolInv
  <2> QED
    BY <2>1, Zenon DEF WorkerControl
<1>a. /\ wpc'[count + 1] = "start"
      /\ \A u \in Workers : u # count + 1 => wpc'[u] = wpc[u]
      /\ wpc' \in [Workers -> {"none", "start", "dequeue", "run", "exit"}]
  BY <1>0, <1>c, Zenon DEF Control
<1>p. pc' = pc
  BY <1>0, Zenon DEF queueVars
<1>3. \A w \in Workers : (Holds(w)' <=> Holds(w)) /\ (wpc'[w] = "exit" <=> wpc[w] = "exit")
  BY <1>a, <1>c, <1>w, <1>p, Zenon DEF Holds, Got
<1>4. /\ Items' = Items /\ Returned' = Returned /\ Nulls' = Nulls
      /\ arg' = arg /\ Stopped' = Stopped /\ OnItsWay' = OnItsWay
      /\ Work'
  BY <1>0, <1>3, MainOnly, Zenon
<1>5. ~ Closing /\ ~ Closing'
  BY <1>0, Zenon DEF Closing
<1>6. Control'
  <2>1. ASSUME NEW u \in Workers PROVE WorkerControl(u)'
    <3>1. wpc'[u] = "none" <=> mpc' = "create" /\ count' < u
      <4>1. u \in Nat /\ u <= NumWorkers /\ count \in Nat
        BY <1>2, <1>c DEF Workers
      <4>2. wpc[u] = "none" <=> count < u
        BY <1>0, Zenon DEF Control, WorkerControl
      <4>3. CASE u = count + 1
        BY <4>1, <4>3, <1>0, <1>a, <1>2
      <4>4. CASE u # count + 1
        BY <4>1, <4>2, <4>4, <1>0, <1>a, <1>2
      <4> QED
        BY <4>3, <4>4, Zenon
    <3>2. CASE u = count + 1
      BY <3>1, <3>2, <1>a, <1>w, <1>p, <1>3, <1>4, <1>5, Zenon DEF Control, WorkerControl, EnqPcs
    <3>3. CASE u # count + 1
      BY <3>1, <3>3, <1>a, <1>p, <1>3, <1>4, <1>5, Zenon DEF Control, WorkerControl
    <3> QED
      BY <3>2, <3>3, Zenon
  <2>2. count' \in 0 .. NumWorkers - 1
    BY <1>0, <1>c, <1>2
  <2> QED
    BY <2>1, <2>2, <1>0, <1>a, <1>p, Zenon DEF Control
<1>7. PillsLast'
  BY <1>p, <1>4, <1>5, Zenon DEF PillsLast
<1>8. PillsCounted'
  BY <1>4, <1>5, Zenon DEF PillsCounted, Sent
<1> QED
  BY <1>4, <1>6, <1>7, <1>8, Zenon

\* thread_pool_finish is called when main is done adding and so is all work that
\* adds work, whether it is ThreadPool's client or another.
Closes ==
    /\ mpc = "add"
    /\ pc[Main] = "idle"
    /\ Spawning \cap added \subseteq done
    /\ mpc' = "pill"
    /\ UNCHANGED <<queueVars, count, wpc, added, functs, done>>

\* thread_pool_finish begins to add NULLs.
LEMMA ClosesInv ==
  ASSUME Working, Closes
  PROVE  PoolInv'
<1> USE DEF Working, PoolInv
<1>2. Workers \subseteq Threads /\ Main \in Threads /\ Main \notin Workers
  BY PoolConstants, Zenon
<1>0. /\ mpc = "add" /\ mpc' = "pill" /\ pc[Main] = "idle" /\ count = 0 /\ pc' = pc
      /\ UNCHANGED <<queueVars, count, wpc, added, functs, done>>
  BY Zenon DEF Closes, Control, queueVars
<1>3. \A w \in Workers : (Holds(w)' <=> Holds(w)) /\ (wpc'[w] = "exit" <=> wpc[w] = "exit")
  BY <1>0, Zenon DEF Holds
<1>4. /\ Items' = Items /\ Returned' = Returned /\ Nulls' = Nulls
      /\ arg' = arg /\ Stopped' = Stopped /\ OnItsWay' = OnItsWay
      /\ Work'
  BY <1>0, <1>3, MainOnly, Zenon
<1>5. ~ Closing /\ Closing'
  BY <1>0, Zenon DEF Closing
<1>e. ASSUME NEW w \in Workers PROVE pc[w] \notin EnqPcs
  <2> SUFFICES ASSUME pc[w] \in EnqPcs PROVE FALSE
    BY Zenon
  <2>1. wpc[w] = "run" /\ Children[Returned[w]] # {} /\ Returned[w] \in Tasks
    <3>1. pc[w] \notin {"idle"} \cup DeqPcs
      BY Zenon DEF EnqPcs, DeqPcs
    <3>2. wpc[w] = "run"
      BY <3>1, Zenon DEF Control, WorkerControl
    <3> QED
      BY <3>2, PoolConstants, Zenon DEF Control, WorkerControl, Holds
  <2>2. IsHeld(Returned[w])
    BY <2>1, Zenon DEF IsHeld, Holds
  <2>3. Returned[w] \in added \ done /\ Returned[w] \in Spawning
    BY <2>1, <2>2, Zenon DEF Work, Spawning
  <2> QED
    BY <2>3, Zenon DEF Closes
<1>6. Control'
  <2>1. ASSUME NEW w \in Workers PROVE WorkerControl(w)'
    <3>1. /\ pc'[w] = pc[w] /\ wpc'[w] = wpc[w] /\ count' = count /\ Returned'[w] = Returned[w]
          /\ mpc # "create" /\ mpc' # "create" /\ (Holds(w)' <=> Holds(w)) /\ pc[w] \notin EnqPcs
      BY <1>0, <1>3, <1>4, <1>e, Zenon
    <3>2. WorkerControl(w)
      BY Zenon DEF Control
    <3> HIDE DEF Working, PoolInv
    <3> QED
      BY <3>1, <3>2, Zenon DEF WorkerControl
  <2> QED
    BY <2>1, <1>0, Zenon DEF Control
<1>7. PillsLast'
  <2>1. \A t \in Threads : pc[t] \notin Putting
    BY <1>0, <1>e, PoolConstants, Zenon DEF Putting, EnqPcs
  <2> QED
    BY <2>1, <1>0, <1>4, <1>5, Zenon DEF PillsLast, Closes
<1>8. PillsCounted'
  BY <1>0, <1>4, <1>5, Zenon DEF PillsCounted, Sent
<1> QED
  BY <1>4, <1>6, <1>7, <1>8, Zenon

\* One more NULL is on its way.
LEMMA EnqueueNullInv ==
  ASSUME Working, EnqueueNull
  PROVE  PoolInv'
<1> USE DEF Working, PoolInv
<1>2. /\ Workers \subseteq Threads /\ Main \in Threads /\ Main \notin Workers
      /\ Null \in Values /\ Null \notin Tasks /\ NumWorkers \in Nat /\ NumWorkers > 0
  BY PoolConstants
<1>0. /\ mpc = "pill" /\ CallEnqueue(Main, Null)
      /\ count' = IF count + 1 < NumWorkers THEN count + 1 ELSE 0
      /\ mpc' = IF count + 1 < NumWorkers THEN "pill" ELSE "join"
      /\ UNCHANGED <<wpc, added, functs, done>>
  BY Zenon DEF EnqueueNull
<1>c. count \in 0 .. NumWorkers - 1
  BY Zenon DEF Control
<1>v. Items' = Items /\ Returned' = Returned /\ Nulls' = Nulls
  BY <1>0, <1>2, CallsView, Zenon
<1>1. /\ pc[Main] = "idle" /\ pc'[Main] = "enq_lock" /\ arg'[Main] = Null
      /\ \A u \in Threads \ {Main} : pc'[u] = pc[u] /\ arg'[u] = arg[u]
      /\ pc'[Main] \in Putting /\ pc'[Main] \in EnqPcs
      /\ pc[Main] \notin Putting
  BY <1>0, <1>2, ViewTypes, Zenon DEF CallEnqueue, Putting, EnqPcs
<1>3. \A w \in Workers : (Holds(w)' <=> Holds(w)) /\ pc'[w] = pc[w]
  BY <1>0, <1>1, <1>2, Zenon DEF Holds
<1>5. Closing /\ Closing'
  BY <1>0, Zenon DEF Closing
<1>6. Control'
  <2>1. \A w \in Workers : WorkerControl(w)'
    BY <1>0, <1>v, <1>3, <1>5, Zenon DEF Control, WorkerControl
  <2>2. count' \in 0 .. NumWorkers - 1 /\ (mpc' = "join" => count' = 0)
    BY <1>0, <1>c, <1>2
  <2>3. mpc' \in {"pill", "join"} /\ (mpc' = "join" => 1 .. count' = {} /\ ~ (count' > 0))
    BY <1>0, <2>2
  <2> QED
    BY <2>1, <2>2, <2>3, <1>0, <1>1, Zenon DEF Control
<1>e. \A t \in Threads : pc'[t] \in Putting <=> t = Main
  <2>1. \A w \in Workers : pc[w] \notin EnqPcs
    BY <1>5, Zenon DEF Control, WorkerControl
  <2> QED
    BY <2>1, <1>1, <1>3, PoolConstants, Zenon DEF Putting, EnqPcs
<1>7. Work'
  <2>1. \A j \in Tasks : IsPut(j)' <=> IsPut(j)
    BY <1>1, <1>2, <1>e, Zenon DEF IsPut
  <2>2. \A j : (IsQueued(j)' <=> IsQueued(j)) /\ (IsHeld(j)' <=> IsHeld(j))
    BY <1>v, <1>3, Zenon DEF IsQueued, IsHeld
  <2> QED
    BY <2>1, <2>2, <1>0, <1>v, <1>3, <1>e, Zenon DEF Work
<1>s. Stopped' = Stopped
  BY <1>0, <1>v, <1>3, Zenon DEF Stopped
<1>8. PillsLast'
  BY <1>0, <1>1, <1>2, <1>v, <1>5, <1>e, <1>s, Zenon DEF PillsLast
<1>9. PillsCounted'
  <2>1. OnItsWay = 0 /\ OnItsWay' = 1
    BY <1>1, Zenon DEF OnItsWay
  <2>2. Sent = count /\ Sent' = count + 1
    BY <1>0, <1>5, <1>c, <1>2 DEF Sent
  <2>3. Nulls \in Nat /\ Cardinality(Stopped) \in Nat
    BY ViewTypes, StoppedFinite, Zenon
  <2> QED
    BY <2>1, <2>2, <2>3, <1>v, <1>s, <1>c DEF PillsCounted
<1> QED
  BY <1>6, <1>7, <1>8, <1>9, Zenon

\* thread_pool_finish joins a worker that has ended.
LEMMA JoinWorkerInv ==
  ASSUME Working, JoinWorker
  PROVE  PoolInv'
<1> USE DEF Working, PoolInv
<1>2. NumWorkers \in Nat /\ NumWorkers > 0
  BY PoolConstants
<1>0. /\ mpc = "join" /\ pc[Main] = "idle" /\ wpc[count + 1] = "exit" /\ pc' = pc
      /\ count' = IF count + 1 < NumWorkers THEN count + 1 ELSE 0
      /\ mpc' = IF count + 1 < NumWorkers THEN "join" ELSE "free"
      /\ UNCHANGED <<queueVars, wpc, added, functs, done>>
  BY Zenon DEF JoinWorker, queueVars
<1>c. count \in 0 .. NumWorkers - 1 /\ \A w \in 1 .. count + 1 : wpc[w] = "exit"
  BY <1>0 DEF Control
<1>3. \A w \in Workers : (Holds(w)' <=> Holds(w)) /\ (wpc'[w] = "exit" <=> wpc[w] = "exit")
  BY <1>0, Zenon DEF Holds
<1>4. /\ Items' = Items /\ Returned' = Returned /\ Nulls' = Nulls
      /\ arg' = arg /\ Stopped' = Stopped /\ OnItsWay' = OnItsWay
      /\ Work'
  BY <1>0, <1>3, MainOnly, Zenon
<1>5. Closing /\ Closing'
  BY <1>0, Zenon DEF Closing
<1>6. Control'
  <2>1. \A w \in Workers : WorkerControl(w)'
    BY <1>0, <1>3, <1>4, <1>5, Zenon DEF Control, WorkerControl
  <2>2. count' \in 0 .. NumWorkers - 1 /\ mpc' \in {"join", "free"}
    BY <1>0, <1>c, <1>2
  <2>3. mpc' = "join" => \A w \in 1 .. count' : wpc'[w] = "exit"
    BY <1>0, <1>c, Zenon
  <2>4. mpc' = "free" => \A w \in Workers : wpc'[w] = "exit"
    <3>1. mpc' = "free" => Workers = 1 .. count + 1
      BY <1>0, <1>c, <1>2 DEF Workers
    <3> QED
      BY <3>1, <1>0, <1>c, Zenon
  <2> QED
    BY <2>1, <2>2, <2>3, <2>4, <1>0, Zenon DEF Control
<1>7. PillsLast'
  BY <1>0, <1>4, <1>5, Zenon DEF PillsLast
<1>8. PillsCounted'
  BY <1>0, <1>4, <1>5, Zenon DEF PillsCounted, Sent
<1> QED
  BY <1>4, <1>6, <1>7, <1>8, Zenon

\* As many workers have stopped as NULLs were sent, so none is left in the queue,
\* and no work either since one was taken out.
LEMMA EmptyAtTheEnd ==
  ASSUME Working, mpc = "free"
  PROVE  /\ order = <<>> /\ waiting = {} /\ mutex = NoThread
         /\ \A t \in Threads : pc[t] = "idle"
         /\ \A w \in Workers : wpc[w] = "exit"
         /\ added = done /\ functs = {}
         /\ allocated = {HeadNode, TailNode}
<1> USE DEF Working, PoolInv
<1>1. \A w \in Workers : wpc[w] = "exit" /\ pc[w] = "idle"
  BY Zenon DEF Control, WorkerControl
<1>2. \A t \in Threads : pc[t] = "idle"
  BY <1>1, PoolConstants, Zenon DEF Control
<1>3. waiting = {}
  BY <1>2, Zenon DEF QueueInv, Blocked, QueueTypeOK
<1>4. mutex = NoThread
  <2>1. \A t \in Threads : mutex # t
    BY <1>2, Zenon DEF QueueInv, MutualExclusion, Critical, EnqPcs, DeqPcs
  <2> QED
    BY <2>1, Zenon DEF QueueInv, QueueTypeOK
<1>5. Stopped = Workers
  BY <1>1, Zenon DEF Stopped
<1>6. Nulls = 0
  <2>1. Sent = NumWorkers /\ OnItsWay = 0
    BY <1>2, PoolConstants, Zenon DEF Sent, Closing, OnItsWay, Putting
  <2>2. Nulls \in Nat /\ NumWorkers \in Nat
    BY ViewTypes, PoolConstants, Zenon
  <2> QED
    BY <2>1, <2>2, <1>5, StoppedFinite DEF PillsCounted
<1>7. order = <<>>
  <2>1. \A i \in 1 .. Len(Items) : Items[i] = Null
    <3>1. 1 \in Workers
      BY PoolConstants DEF Workers
    <3> QED
      BY <3>1, <1>5, Zenon DEF PillsLast
  <2>2. NullNodes = {}
    BY <1>6, NullsFinite, FS_EmptySet, Zenon DEF Nulls, QueueInv
  <2>3. order \in Seq(Nodes) /\ Len(order) \in Nat
    BY DEF QueueInv, QueueTypeOK
  <2>4. Len(Items) = Len(order) /\ \A i \in 1 .. Len(order) : Items[i] = value[order[i]]
    BY <2>3 DEF Items
  <2>5. ~ (1 \in 1 .. Len(order))
    BY <2>1, <2>2, <2>4, Zenon DEF NullNodes, NodesOf
  <2> QED
    BY <2>3, <2>5
<1>8. allocated = {HeadNode, TailNode}
  <2>1. Whole(order, {})
    BY <1>2, Zenon DEF QueueInv, Shape, Quiet
  <2>2. NodesOf(order) = {}
    BY <1>7 DEF NodesOf
  <2> QED
    BY <2>1, <2>2, Zenon DEF Whole
<1>9. added = done /\ functs = {}
  <2>1. \A k : ~ IsPut(k)
    BY <1>2, Zenon DEF IsPut, Putting
  <2>2. \A k : ~ IsQueued(k)
    BY <1>7 DEF IsQueued, Items
  <2>3. \A k : ~ IsHeld(k)
    BY <1>1, Zenon DEF IsHeld, Holds, Got
  <2> QED
    BY <2>1, <2>2, <2>3, Zenon DEF Work
<1> QED
  BY <1>1, <1>2, <1>3, <1>4, <1>7, <1>8, <1>9, Zenon

\* thread_pool_finish frees the queue when all workers are joined.
LEMMA PoolFreeInv ==
  ASSUME Working, PoolFree
  PROVE  Final'
<1>1. mpc = "free" /\ mpc' = "finished" /\ QueueFree /\ UNCHANGED <<count, wpc, added, functs, done>>
  BY Zenon DEF PoolFree
<1>2. UNCHANGED <<waiting, pc, order>> /\ allocated' = allocated \ {HeadNode, TailNode}
  BY <1>1, Zenon DEF QueueFree
<1> QED
  BY <1>1, <1>2, EmptyAtTheEnd, Zenon DEF Final, FinishIsClean

-----------------------------------------------------------------------------
(* All steps, of ThreadPool's client and of others *)

MainAddsAny ==
    \E k \in Tasks : mpc = "add" /\ AddWork(Main, k) /\ UNCHANGED <<mpc, count, wpc, done>>

PoolStep ==
    \/ CreateWorker \/ MainAddsAny \/ Closes \/ EnqueueNull \/ JoinWorker \/ PoolFree
    \/ \E w \in Workers : WorkerStart(w) \/ WorkerTakes(w) \/ WorkAddsWork(w) \/ WorkReturns(w)
    \/ \E t \in Threads : (QueueStep(t) \/ SpuriousWakeup(t)) /\ UNCHANGED poolVars

\* Work that is not done may add work, and thread_pool_finish has not been called.
LEMMA AddedByWork ==
  ASSUME Working, NEW w \in Workers, WorkAddsWork(w)
  PROVE  /\ \E k \in Tasks : AddWork(w, k)
         /\ wpc[w] = "run" /\ ~ Closing /\ Children[Returned[w]] # {}
         /\ UNCHANGED <<mpc, count, wpc, done>>
<1> USE DEF Working, PoolInv
<1>1. PICK k \in Children[result[w]] : AddWork(w, k)
  BY Zenon DEF WorkAddsWork
<1>2. wpc[w] = "run" /\ w \in Threads /\ pc[w] = "idle" /\ k \notin added
      /\ UNCHANGED <<mpc, count, wpc, done>>
  BY <1>1, PoolConstants, Zenon DEF WorkAddsWork, AddWork, CallEnqueue
<1>3. Returned[w] = result[w]
  BY <1>2, Zenon DEF Returned
<1>4. Returned[w] \in Tasks
  BY <1>2, PoolConstants, Zenon DEF Control, WorkerControl, Holds
<1>5. k \in Tasks /\ Children[Returned[w]] # {}
  BY <1>1, <1>3, <1>4, PoolConstants, Zenon
<1>6. IsHeld(Returned[w])
  BY <1>2, Zenon DEF IsHeld, Holds
<1>7. Returned[w] \in added \ done /\ Returned[w] \in Spawning
  BY <1>4, <1>5, <1>6, Zenon DEF Work, Spawning
<1>8. ~ Closing
  BY <1>7, Zenon DEF PillsLast
<1> QED
  BY <1>1, <1>2, <1>5, <1>8, Zenon

\* But for thread_pool_free, the pool moves the queue by its operations only.
LEMMA StepMoves ==
  ASSUME Working, PoolStep, ~ PoolFree
  PROVE  [SomeMove]_queueVars
<1>0. Workers \subseteq Threads /\ Main \in Threads /\ Null \in Values /\ Tasks \subseteq Values
      /\ Children \in [Tasks -> SUBSET Tasks]
  BY PoolConstants, Zenon
<1>1. CASE CreateWorker \/ Closes \/ JoinWorker \/ \E w \in Workers : WorkerTakes(w)
  BY <1>1, Zenon DEF CreateWorker, Closes, JoinWorker, WorkerTakes
<1>2. CASE MainAddsAny \/ EnqueueNull
  BY <1>0, <1>2, Zenon DEF MainAddsAny, EnqueueNull, AddWork, SomeMove, QueueMove
<1>3. CASE \E w \in Workers : WorkerStart(w) \/ WorkReturns(w)
  BY <1>0, <1>3, Zenon DEF WorkerStart, WorkReturns, SomeMove, QueueMove
<1>4. CASE \E t \in Threads : (QueueStep(t) \/ SpuriousWakeup(t)) /\ UNCHANGED poolVars
  BY <1>4, Zenon DEF SomeMove, QueueMove
<1>5. CASE \E w \in Workers : WorkAddsWork(w)
  BY <1>0, <1>5, AddedByWork, Zenon DEF AddWork, SomeMove, QueueMove
<1> QED
  BY <1>1, <1>2, <1>3, <1>4, <1>5, Zenon DEF PoolStep

\* A spurious wakeup changes nothing for the pool.
LEMMA WakeupView ==
  ASSUME Working, NEW t \in Threads, SpuriousWakeup(t), UNCHANGED poolVars
  PROVE  PoolInv'
<1> USE DEF Working, PoolInv
<1>1. /\ order' = order /\ value' = value /\ pc' = pc /\ arg' = arg
      /\ UNCHANGED <<mpc, count, wpc, added, functs, done>>
  BY Zenon DEF SpuriousWakeup, fields, locals, poolVars
<1>2. Returned' = Returned
  BY <1>1, Zenon DEF SpuriousWakeup, locals, Returned
<1>3. Items' = Items /\ Nulls' = Nulls
  BY <1>1, SameItems, Zenon DEF QueueInv
<1>4. \A w \in Workers : Holds(w)' <=> Holds(w)
  BY <1>1, Zenon DEF Holds
<1>5. Control'
  <2>1. \A w \in Workers : WorkerControl(w)'
    BY <1>1, <1>2, <1>4, Zenon DEF Control, WorkerControl, Closing
  <2> QED
    BY <2>1, <1>1, Zenon DEF Control
<1>6. Work'
  BY <1>1, <1>2, <1>3, <1>4, Zenon DEF Work, IsPut, IsQueued, IsHeld
<1>7. Stopped' = Stopped
  BY <1>1, <1>2, <1>4, Zenon DEF Stopped
<1>8. PillsLast' /\ PillsCounted'
  BY <1>1, <1>3, <1>7, Zenon DEF PillsLast, PillsCounted, Closing, Sent, OnItsWay
<1> QED
  BY <1>5, <1>6, <1>8, Zenon

\* Every step of a pool that is not freed yet keeps the invariant.
LEMMA WorkingStep ==
  ASSUME Working, PoolStep
  PROVE  IInv'
<1>0. Workers \subseteq Threads /\ Main \in Threads
  BY PoolConstants, Zenon
<1>1. CASE PoolFree
  BY <1>1, PoolFreeInv, Zenon DEF IInv
<1>2. CASE ~ PoolFree
  <2>1. QueueInv' /\ ArgKept'
    <3>1. [SomeMove]_queueVars
      BY <1>2, StepMoves, Zenon
    <3>2. CASE SomeMove
      BY <3>2, StepInv, StepArgKept, Zenon DEF Working
    <3>3. CASE UNCHANGED queueVars
      BY <3>3, StepInv, Zenon DEF Working, ArgKept, queueVars
    <3> QED
      BY <3>1, <3>2, <3>3, Zenon
  <2>2. PoolInv'
    <3>1. CASE CreateWorker \/ Closes \/ EnqueueNull \/ JoinWorker
      BY <3>1, CreateWorkerInv, ClosesInv, EnqueueNullInv, JoinWorkerInv, Zenon
    <3>2. CASE MainAddsAny
      BY <3>2, <1>0, AddWorkInv, Zenon DEF MainAddsAny, Closing
    <3>3. CASE \E w \in Workers : WorkerStart(w) \/ WorkerTakes(w) \/ WorkReturns(w)
      BY <3>3, WorkerStartInv, WorkerTakesInv, WorkReturnsInv, Zenon
    <3>4. CASE \E w \in Workers : WorkAddsWork(w)
      BY <3>4, <1>0, AddedByWork, AddWorkInv, Zenon
    <3>5. CASE \E t \in Threads : QueueStep(t) /\ UNCHANGED poolVars
      <4>1. PICK t \in Threads : QueueStep(t) /\ UNCHANGED poolVars
        BY <3>5, Zenon
      <4>2. Effect(t)
        BY <4>1, StepEffect, Zenon DEF Working
      <4> QED
        BY <4>1, <4>2, ProceedsInv, LeavesInv, PutsInv, GetsInv, Zenon DEF Effect
    <3>6. CASE \E t \in Threads : SpuriousWakeup(t) /\ UNCHANGED poolVars
      BY <3>6, WakeupView, Zenon
    <3> QED
      BY <1>2, <3>1, <3>2, <3>3, <3>4, <3>5, <3>6, Zenon DEF PoolStep
  <2>3. mpc' # "finished"
    BY <2>2, Zenon DEF PoolInv, Control
  <2> QED
    BY <2>1, <2>2, <2>3, Zenon DEF IInv, Working
<1> QED
  BY <1>1, <1>2, Zenon

\* Once thread_pool_finish has returned no thread is left to do anything.
LEMMA FinalStep ==
  ASSUME Final, PoolStep
  PROVE  FALSE
<1>1. mpc = "finished" /\ \A w \in Workers : wpc[w] = "exit"
  BY Zenon DEF Final, FinishIsClean
<1>2. \A t \in Threads : pc[t] = "idle" /\ t \notin waiting
  BY Zenon DEF Final, FinishIsClean
<1>3. ~ (CreateWorker \/ MainAddsAny \/ Closes \/ EnqueueNull \/ JoinWorker \/ PoolFree)
  BY <1>1, Zenon DEF CreateWorker, MainAddsAny, Closes, EnqueueNull, JoinWorker, PoolFree
<1>4. \A w \in Workers : ~ (WorkerStart(w) \/ WorkerTakes(w) \/ WorkAddsWork(w) \/ WorkReturns(w))
  BY <1>1, Zenon DEF WorkerStart, WorkerTakes, WorkAddsWork, WorkReturns
<1>5. \A t \in Threads : ~ QueueStep(t) /\ ~ SpuriousWakeup(t)
  BY <1>2, Zenon DEF QueueStep, EnqueueStep, DequeueStep, SpuriousWakeup, EnqueueLock, EnqueueLink,
         EnqueueTail, EnqueueSize, EnqueueUnlock, DequeueLock, DequeueWait, DequeueWoken,
         DequeueRead, DequeueUnlink, DequeueFree, DequeueUnlock, Lock
<1> QED
  BY <1>3, <1>4, <1>5, Zenon DEF PoolStep

\* A step that changes nothing keeps IInv.
LEMMA Stutter ==
  ASSUME IInv, UNCHANGED vars
  PROVE  IInv'
<1>1. UNCHANGED queueVars /\ UNCHANGED <<mpc, count, wpc, added, functs, done>>
  BY Zenon DEF vars, poolVars
<1>2. CASE Working
  <2> USE <1>2 DEF Working, PoolInv
  <2>1. QueueInv' /\ ArgKept' /\ pc' = pc /\ arg' = arg
    BY <1>1, StepInv, Zenon DEF ArgKept, queueVars
  <2>2. Items' = Items /\ Returned' = Returned /\ Nulls' = Nulls
    BY <1>1, UnchangedView, Zenon
  <2>3. \A w \in Workers : (Holds(w)' <=> Holds(w)) /\ (wpc'[w] = "exit" <=> wpc[w] = "exit")
    BY <1>1, <2>1, Zenon DEF Holds
  <2>4. Stopped' = Stopped /\ OnItsWay' = OnItsWay /\ Work'
    BY <1>1, <2>3, MainOnly, Zenon
  <2>5. \A w \in Workers : WorkerControl(w)'
    BY <1>1, <2>1, <2>2, <2>3, Zenon DEF Control, WorkerControl, Closing
  <2>6. Control' /\ PillsLast' /\ PillsCounted'
    BY <1>1, <2>1, <2>2, <2>4, <2>5, Zenon DEF Control, PillsLast, PillsCounted, Closing, Sent
  <2> QED
    BY <1>1, <2>1, <2>4, <2>6, Zenon DEF IInv
<1>3. CASE Final
  BY <1>1, <1>3, Zenon DEF IInv, Final, FinishIsClean, queueVars
<1> QED
  BY <1>2, <1>3, Zenon DEF IInv

\* The invariant is inductive, for any client that keeps to thread_pool.h.
LEMMA PoolStepInv == IInv /\ [PoolStep]_vars => IInv'
  BY WorkingStep, FinalStep, Stutter, Zenon DEF IInv

\* Before thread_pool_init there are no workers.
LEMMA PoolInit == Init => IInv
<1> SUFFICES ASSUME Init PROVE Working
  BY Zenon DEF IInv
<1> USE DEF Init
<1>1. QueueInv /\ mpc = "create" /\ count = 0 /\ \A w \in Workers : wpc[w] = "none"
  BY InitInv, Zenon
<1>2. \A t \in Threads : pc[t] = "idle"
  BY Zenon DEF QueueInit
<1>3. Workers \subseteq Threads /\ Main \in Threads /\ NumWorkers \in Nat /\ NumWorkers > 0
  BY PoolConstants
<1>4. ArgKept
  BY <1>2, Zenon DEF ArgKept
<1>5. Items = <<>> /\ Nulls = 0
  <2>1. order = <<>>
    BY Zenon DEF QueueInit
  <2>2. Items = <<>> /\ NullNodes = {}
    BY <2>1 DEF Items, NullNodes, NodesOf
  <2> QED
    BY <2>2, FS_EmptySet, Zenon DEF Nulls
<1>6. \A w \in Workers : ~ Holds(w) /\ WorkerControl(w)
  BY <1>1, <1>2, <1>3 DEF Holds, Got, WorkerControl, Workers, EnqPcs, DeqPcs
<1>7. Control
  BY <1>1, <1>2, <1>3, <1>6 DEF Control
<1>8. Work
  <2>1. \A k : ~ IsPut(k) /\ ~ IsQueued(k) /\ ~ IsHeld(k)
    BY <1>2, <1>5, <1>6 DEF IsPut, IsQueued, IsHeld, Putting
  <2>2. added = {} /\ done = {} /\ functs = {}
    BY Zenon
  <2>3. \A t \in Threads : pc[t] \notin Putting
    BY <1>2, Zenon DEF Putting
  <2>4. 1 .. Len(Items) = {}
    BY <1>5
  <2> QED
    BY <2>1, <2>2, <2>3, <2>4, <1>6, ZenonT(30) DEF Work
<1>9. Stopped = {} /\ OnItsWay = 0
  BY <1>1, <1>2, <1>3, <1>6, Zenon DEF Stopped, OnItsWay, Putting
<1>10. PillsLast /\ PillsCounted
  BY <1>1, <1>2, <1>5, <1>9, FS_EmptySet DEF PillsLast, PillsCounted, Sent, Closing, Putting
<1> QED
  BY <1>1, <1>4, <1>7, <1>8, <1>10, Zenon DEF Working, PoolInv

\* ThreadPool's client makes no other steps.
LEMMA NextIsPoolStep == [Next]_vars => [PoolStep]_vars
<1> SUFFICES ASSUME Next PROVE PoolStep \/ UNCHANGED vars
  BY Zenon
<1>0. Main \in Threads /\ Workers \subseteq Threads /\ Roots \subseteq Tasks
  BY PoolConstants, Zenon
<1>1. CASE MainStep
  BY <1>0, <1>1, Zenon DEF MainStep, PoolStep, MainAdds, MainAddsAny, CallFinish, Closes
<1>2. CASE \E w \in Workers : WorkerStep(w)
  BY <1>0, <1>2, Zenon DEF WorkerStep, PoolStep
<1>3. CASE Wakeup
  BY <1>3, Zenon DEF Wakeup, PoolStep
<1>4. CASE Finished
  BY <1>4, Zenon DEF Finished
<1> QED
  BY <1>1, <1>2, <1>3, <1>4, Zenon DEF Next

\* The pool with any client that keeps to thread_pool.h.
AnyClient == Init /\ [][PoolStep]_vars

\* IInv always holds, whatever the client adds.
LEMMA PoolInvariance == AnyClient => []IInv
  BY PoolInit, PoolStepInv, PTL DEF AnyClient

\* When thread_pool_finish returns, all work is done, all workers have ended,
\* the queue is empty and nothing is left allocated.
THEOREM FinishLeavesNothing == AnyClient => []FinishIsClean
<1>1. IInv => FinishIsClean
  BY Zenon DEF IInv, Working, Final, FinishIsClean
<1> QED
  BY <1>1, PoolInvariance, PTL

\* Under the pool too the list of the queue is whole whenever its mutex is free.
THEOREM PoolListIntact == AnyClient => []ListIntact
<1>1. IInv => ListIntact
  BY WholeWhenFree, Zenon DEF IInv, Working, Final, FinishIsClean, ListIntact
<1> QED
  BY <1>1, PoolInvariance, PTL

\* No wakeup is lost between the pool's threads.
THEOREM PoolNoLostWakeup == AnyClient => []NoLostWakeup
<1>1. Init => NoLostWakeup
  BY Zenon DEF Init, QueueInit, NoLostWakeup
<1>2. ASSUME IInv, NoLostWakeup, [PoolStep]_vars PROVE NoLostWakeup'
  <2>1. CASE UNCHANGED vars
    BY <1>2, <2>1, Zenon DEF vars, queueVars, NoLostWakeup, Takers
  <2>2. CASE PoolStep /\ PoolFree
    <3>1. Working
      BY <1>2, <2>2, FinalStep, Zenon DEF IInv
    <3>2. waiting' = {}
      BY <3>1, <2>2, PoolFreeInv, Zenon DEF Final
    <3> QED
      BY <3>2, Zenon DEF NoLostWakeup
  <2>3. CASE PoolStep /\ ~ PoolFree
    <3>1. Working
      BY <1>2, <2>3, FinalStep, Zenon DEF IInv
    <3> QED
      BY <1>2, <2>3, <3>1, StepMoves, WakeupStep, Zenon DEF Working
  <2> QED
    BY <1>2, <2>1, <2>2, <2>3, Zenon
<1> QED
  BY <1>1, <1>2, PoolInvariance, PTL DEF AnyClient

\* The values that the pool's threads put in the queue come out once each and in
\* order, to the end of the pool.
THEOREM PoolQueueIsFifo == AnyClient => ImplementsFifo
<1>1. Init => Fifo!Init
  BY FifoInit, Zenon DEF Init
<1>2. ASSUME IInv, [PoolStep]_vars PROVE [Fifo!Next]_(Fifo!vars)
  <2>1. CASE UNCHANGED vars
    BY <2>1, FifoStutter, Zenon DEF vars, queueVars, Items, Returned
  <2>2. CASE PoolStep /\ PoolFree
    BY <2>2, FifoStutter, Zenon DEF PoolFree, QueueFree, locals, Items, Returned
  <2>3. CASE PoolStep /\ ~ PoolFree
    <3>1. Working
      BY <1>2, <2>3, FinalStep, Zenon DEF IInv
    <3> QED
      BY <2>3, <3>1, StepMoves, FifoStep, Zenon DEF Working
  <2> QED
    BY <1>2, <2>1, <2>2, <2>3, Zenon
<1> QED
  BY <1>1, <1>2, PoolInvariance, PTL DEF AnyClient, ImplementsFifo, Fifo!Spec

==============================================================================
