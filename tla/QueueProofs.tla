----------------------------- MODULE QueueProofs -----------------------------
(***************************************************************************)
(* Proofs about Queue, for any finite set of threads, any values and any   *)
(* set of addresses.                                                       *)
(*                                                                         *)
(* The invariant follows the list through one operation: Shape says what   *)
(* the pointers, the size and the heap look like at each step of the       *)
(* thread that owns the mutex.  ListIntact is what remains of it when      *)
(* nobody does.                                                            *)
(***************************************************************************)
EXTENDS Queue, TLAPS, FiniteSetTheorems

\* What holds between two operations: the list is whole.
Whole(s, extra) ==
    /\ Distinct(s)
    /\ NodesOf(s) \cap extra = {}
    /\ allocated = {HeadNode, TailNode} \cup NodesOf(s) \cup extra

\* The list of order, but for the node of t, which the link before tail
\* already leads to.
HalfLinked(s, n) ==
    /\ \A i \in 0 .. Len(s) :
          next[NodeAt(s, i)] = IF i = Len(s) THEN n ELSE NodeAt(s, i + 1)
    /\ prev[TailNode] = NodeAt(s, Len(s))

\* The owner of the mutex is not in the middle of changing the list.
Quiet ==
    \A t \in Threads : pc[t] \notin {"enq_tail", "enq_size", "deq_free"}

\* What each step of thread t has done so far.
Progress(t) ==
    /\ pc[t] \in {"enq_lock", "enq_link"} => arg[t] \in Values
    /\ pc[t] \in {"enq_tail", "enq_size"} =>
         /\ node[t] \in Nodes
         /\ value[node[t]] \in Values
         /\ size = Len(order)
         /\ Whole(order, {node[t]})
    /\ pc[t] = "enq_tail" => HalfLinked(order, node[t])
    /\ pc[t] = "enq_size" => Linked(Append(order, node[t]))
    /\ pc[t] = "deq_unlink" =>
         /\ order # <<>>
         /\ node[t] = order[1]
         /\ val[t] = value[order[1]]
    /\ pc[t] = "deq_free" =>
         /\ node[t] \in Nodes
         /\ Linked(order)
         /\ size = Len(order) + 1
         /\ Whole(order, {node[t]})
    /\ pc[t] \in {"deq_free", "deq_unlock"} => val[t] \in Values

HasValues == \A i \in 1 .. Len(order) : value[order[i]] \in Values

Shape ==
    /\ HasValues
    /\ Quiet => Linked(order) /\ size = Len(order) /\ Whole(order, {})
    /\ \A t \in Threads : Progress(t)

Blocked == \A t \in waiting : pc[t] = "deq_wait"

QueueInv == QueueTypeOK /\ MutualExclusion /\ Blocked /\ Shape

\* Thread t calls an operation or makes a step in one.  Unlike QueueNext this
\* does not keep threads from calling queue_enqueue when memory runs short.
QueueMove(t) ==
    \/ \E v \in Values : CallEnqueue(t, v)
    \/ CallDequeue(t)
    \/ QueueStep(t)
    \/ SpuriousWakeup(t)

SomeMove == \E t \in Threads : QueueMove(t)

-----------------------------------------------------------------------------
USE QueueConstants DEF AllNodes

\* The initial state of queue_init satisfies the invariant.
LEMMA InitInv == QueueInit => QueueInv
<1> SUFFICES ASSUME QueueInit PROVE QueueInv
  OBVIOUS
<1> USE DEF QueueInit
<1>1. QueueTypeOK
  BY DEF QueueTypeOK, EnqPcs, DeqPcs
<1>2. MutualExclusion
  BY DEF MutualExclusion, Critical, EnqPcs, DeqPcs
<1>3. Shape
  BY DEF Shape, Progress, HasValues, Quiet, Linked, Whole, Distinct, NodesOf, NodeAt
<1> QED
  BY <1>1, <1>2, <1>3 DEF QueueInv, Blocked

\* A step of the owner of the mutex disturbs no other thread's progress.
LEMMA OutsiderProgress ==
  ASSUME QueueInv, NEW t \in Threads, pc[t] \in Critical,
         NEW u \in Threads, u # t, pc'[u] = pc[u], arg'[u] = arg[u]
  PROVE  Progress(u)'
<1>1. pc[u] \notin Critical
  BY DEF QueueInv, MutualExclusion
<1>2. Progress(u)
  BY DEF QueueInv, Shape
<1>3. pc[u] \in {"enq_lock", "enq_link"} => arg[u] \in Values
  BY <1>2 DEF Progress
<1> QED
  BY <1>1, <1>3 DEF Progress, Critical, EnqPcs, DeqPcs

\* The steps that touch neither the list, nor the size, nor the heap.
LEMMA CallEnqueueInv ==
  ASSUME QueueInv, NEW t \in Threads, NEW v \in Values, CallEnqueue(t, v)
  PROVE  QueueInv'
<1> USE DEF QueueInv, CallEnqueue, fields
<1>1. QueueTypeOK'
  BY DEF QueueTypeOK, EnqPcs
<1>2. MutualExclusion' /\ Blocked'
  BY DEF QueueTypeOK, MutualExclusion, Blocked, Critical, EnqPcs, DeqPcs
<1>3. Shape'
  BY DEF QueueTypeOK, Shape, Progress, HasValues, Quiet, Linked, HalfLinked, Whole, Distinct, NodesOf, NodeAt
<1> QED
  BY <1>1, <1>2, <1>3

\* A thread calls queue_dequeue.
LEMMA CallDequeueInv ==
  ASSUME QueueInv, NEW t \in Threads, CallDequeue(t)
  PROVE  QueueInv'
<1> USE DEF QueueInv, CallDequeue, fields, locals
<1>1. QueueTypeOK'
  BY DEF QueueTypeOK, EnqPcs, DeqPcs
<1>2. MutualExclusion' /\ Blocked'
  BY DEF QueueTypeOK, MutualExclusion, Blocked, Critical, EnqPcs, DeqPcs
<1>3. Shape'
  BY DEF QueueTypeOK, MutualExclusion, Critical, EnqPcs, DeqPcs, Shape, Progress, HasValues, Quiet, Linked, HalfLinked, Whole, Distinct, NodesOf, NodeAt
<1> QED
  BY <1>1, <1>2, <1>3

\* queue_enqueue takes the mutex.
LEMMA EnqueueLockInv ==
  ASSUME QueueInv, NEW t \in Threads, EnqueueLock(t)
  PROVE  QueueInv'
<1> USE DEF QueueInv, EnqueueLock, Lock, fields, locals
<1>1. QueueTypeOK'
  BY DEF QueueTypeOK, EnqPcs, DeqPcs
<1>2. MutualExclusion' /\ Blocked'
  BY DEF QueueTypeOK, MutualExclusion, Blocked, Critical, EnqPcs, DeqPcs
<1>3. Shape'
  BY DEF QueueTypeOK, MutualExclusion, Critical, EnqPcs, DeqPcs, Shape, Progress, HasValues, Quiet, Linked, HalfLinked, Whole, Distinct, NodesOf, NodeAt
<1> QED
  BY <1>1, <1>2, <1>3

\* queue_dequeue takes the mutex.
LEMMA DequeueLockInv ==
  ASSUME QueueInv, NEW t \in Threads, DequeueLock(t)
  PROVE  QueueInv'
<1> USE DEF QueueInv, DequeueLock, Lock, fields, locals
<1>1. QueueTypeOK'
  BY DEF QueueTypeOK, EnqPcs, DeqPcs
<1>2. MutualExclusion' /\ Blocked'
  BY DEF QueueTypeOK, MutualExclusion, Blocked, Critical, EnqPcs, DeqPcs
<1>3. Shape'
  BY DEF QueueTypeOK, MutualExclusion, Critical, EnqPcs, DeqPcs, Shape, Progress, HasValues, Quiet, Linked, HalfLinked, Whole, Distinct, NodesOf, NodeAt
<1> QED
  BY <1>1, <1>2, <1>3

\* A thread that was woken takes the mutex again.
LEMMA DequeueWokenInv ==
  ASSUME QueueInv, NEW t \in Threads, DequeueWoken(t)
  PROVE  QueueInv'
<1> USE DEF QueueInv, DequeueWoken, Lock, fields, locals
<1>1. QueueTypeOK'
  BY DEF QueueTypeOK, EnqPcs, DeqPcs
<1>2. MutualExclusion' /\ Blocked'
  BY DEF QueueTypeOK, MutualExclusion, Blocked, Critical, EnqPcs, DeqPcs
<1>3. Shape'
  BY DEF QueueTypeOK, MutualExclusion, Critical, EnqPcs, DeqPcs, Shape, Progress, HasValues, Quiet, Linked, HalfLinked, Whole, Distinct, NodesOf, NodeAt
<1> QED
  BY <1>1, <1>2, <1>3

\* queue_enqueue returns.
LEMMA EnqueueUnlockInv ==
  ASSUME QueueInv, NEW t \in Threads, EnqueueUnlock(t)
  PROVE  QueueInv'
<1> USE DEF QueueInv, EnqueueUnlock, fields, locals
<1>1. QueueTypeOK'
  BY DEF QueueTypeOK, EnqPcs, DeqPcs
<1>2. MutualExclusion' /\ Blocked'
  BY DEF QueueTypeOK, MutualExclusion, Blocked, Critical, EnqPcs, DeqPcs
<1>3. Shape'
  BY DEF QueueTypeOK, MutualExclusion, Critical, EnqPcs, DeqPcs, Shape, Progress, HasValues, Quiet, Linked, HalfLinked, Whole, Distinct, NodesOf, NodeAt
<1> QED
  BY <1>1, <1>2, <1>3

\* queue_dequeue waits while the queue is empty.
LEMMA DequeueWaitInv ==
  ASSUME QueueInv, NEW t \in Threads, DequeueWait(t)
  PROVE  QueueInv'
<1> USE DEF QueueInv, DequeueWait, fields, locals
<1>1. QueueTypeOK'
  BY DEF QueueTypeOK, EnqPcs, DeqPcs
<1>2. MutualExclusion' /\ Blocked'
  BY DEF QueueTypeOK, MutualExclusion, Blocked, Critical, EnqPcs, DeqPcs
<1>3. Shape'
  BY DEF QueueTypeOK, MutualExclusion, Critical, EnqPcs, DeqPcs, Shape, Progress, HasValues, Quiet, Linked, HalfLinked, Whole, Distinct, NodesOf, NodeAt
<1> QED
  BY <1>1, <1>2, <1>3

\* A thread that waits may wake up at any time.
LEMMA SpuriousWakeupInv ==
  ASSUME QueueInv, NEW t \in Threads, SpuriousWakeup(t)
  PROVE  QueueInv'
<1> USE DEF QueueInv, SpuriousWakeup, fields, locals
<1>1. QueueTypeOK'
  BY DEF QueueTypeOK, EnqPcs, DeqPcs
<1>2. MutualExclusion' /\ Blocked'
  BY DEF QueueTypeOK, MutualExclusion, Blocked, Critical, EnqPcs, DeqPcs
<1>3. Shape'
  BY DEF QueueTypeOK, MutualExclusion, Critical, EnqPcs, DeqPcs, Shape, Progress, HasValues, Quiet, Linked, HalfLinked, Whole, Distinct, NodesOf, NodeAt
<1> QED
  BY <1>1, <1>2, <1>3

\* queue_dequeue reads the value of the first node.
LEMMA DequeueReadInv ==
  ASSUME QueueInv, NEW t \in Threads, DequeueRead(t)
  PROVE  QueueInv'
<1> USE DEF QueueInv, DequeueRead, fields, locals
<1>0. Quiet
  BY DEF MutualExclusion, Quiet, Critical, EnqPcs, DeqPcs
<1>a. /\ Linked(order) /\ size = Len(order) /\ Whole(order, {})
      /\ order # <<>> /\ 1 \in 1 .. Len(order)
  BY <1>0 DEF Shape, Progress, HasValues, QueueTypeOK
<1>b. /\ next[HeadNode] = order[1]
      /\ order[1] \in Nodes
      /\ value[order[1]] \in Values
  BY <1>a DEF Linked, NodeAt, Shape, Progress, HasValues, QueueTypeOK
<1>1. QueueTypeOK'
  BY <1>b DEF QueueTypeOK, DeqPcs
<1>2. MutualExclusion' /\ Blocked'
  BY DEF QueueTypeOK, MutualExclusion, Blocked, Critical, EnqPcs, DeqPcs
<1>3. Shape'
  <2>1. Quiet'
    BY <1>0 DEF Quiet, QueueTypeOK
  <2>2. (Linked(order) /\ size = Len(order) /\ Whole(order, {}))'
    BY <1>a DEF Linked, Whole, NodeAt
  <2> QED
    BY <1>0, <1>a, <1>b, <2>1, <2>2 DEF Shape, Progress, HasValues, Quiet, QueueTypeOK
<1> QED
  BY <1>1, <1>2, <1>3

\* queue_dequeue returns.
LEMMA DequeueUnlockInv ==
  ASSUME QueueInv, NEW t \in Threads, DequeueUnlock(t)
  PROVE  QueueInv'
<1> USE DEF QueueInv, DequeueUnlock, fields, locals
<1>1. QueueTypeOK'
  BY DEF QueueTypeOK, EnqPcs, DeqPcs
<1>2. MutualExclusion' /\ Blocked'
  BY DEF QueueTypeOK, MutualExclusion, Blocked, Critical, EnqPcs, DeqPcs
<1>3. Shape'
  BY DEF QueueTypeOK, MutualExclusion, Critical, EnqPcs, DeqPcs, Shape, Progress, HasValues, Quiet, Linked, HalfLinked, Whole, Distinct, NodesOf, NodeAt
<1> QED
  BY <1>1, <1>2, <1>3

\* queue_enqueue links the new node behind the last one.
LEMMA EnqueueLinkInv ==
  ASSUME QueueInv, NEW t \in Threads, EnqueueLink(t)
  PROVE  QueueInv'
<1> USE DEF QueueInv, EnqueueLink, fields, locals
<1>0. Quiet /\ arg[t] \in Values
  <2>1. Quiet
    BY DEF MutualExclusion, Quiet, Critical, EnqPcs, DeqPcs
  <2>2. Progress(t) /\ pc[t] = "enq_link"
    BY DEF Shape
  <2> QED
    BY <2>1, <2>2 DEF Progress
<1>a. /\ Linked(order) /\ size = Len(order) /\ Whole(order, {})
      /\ HasValues
  BY <1>0 DEF Shape
<1> PICK n \in Nodes \ allocated :
      /\ allocated' = allocated \cup {n}
      /\ node' = [node EXCEPT ![t] = n]
      /\ value' = [value EXCEPT ![n] = arg[t]]
      /\ next' = [next EXCEPT ![prev[TailNode]] = n]
  BY Zenon
<1>b. \A i \in 1 .. Len(order) : order[i] \in Nodes /\ order[i] # n
  BY <1>a DEF Whole, NodesOf, QueueTypeOK
<1>c. node'[t] = n /\ value'[n] = arg[t] /\ pc'[t] = "enq_tail"
  BY DEF QueueTypeOK
<1>1. QueueTypeOK'
  <2>1. /\ next' \in [AllNodes -> AllNodes \cup {Junk}]
        /\ value' \in [AllNodes -> Values \cup {Junk}]
        /\ node' \in [Threads -> AllNodes \cup {Junk}]
        /\ pc' \in [Threads -> {"idle"} \cup EnqPcs \cup DeqPcs]
    BY <1>0 DEF QueueTypeOK, EnqPcs
  <2> QED
    BY <2>1 DEF QueueTypeOK
<1>2. MutualExclusion' /\ Blocked'
  BY DEF QueueTypeOK, MutualExclusion, Blocked, Critical, EnqPcs, DeqPcs
<1>3. Shape'
  <2>1. HalfLinked(order, node[t])'
    BY <1>a, <1>b, <1>c
       DEF Linked, HalfLinked, NodeAt, Whole, Distinct, QueueTypeOK
  <2>2. Whole(order, {node[t]})'
    <3>1. NodesOf(order)' = NodesOf(order) /\ n \notin NodesOf(order)
      BY <1>b DEF NodesOf
    <3>2. Distinct(order)'
      BY <1>a DEF Whole, Distinct
    <3> QED
      BY <1>a, <1>c, <3>1, <3>2 DEF Whole
  <2>3. HasValues'
    BY <1>a, <1>b DEF HasValues, QueueTypeOK
  <2>4. ASSUME NEW u \in Threads, u # t
        PROVE  Progress(u)'
    <3>1. pc'[u] = pc[u] /\ arg'[u] = arg[u] /\ pc[t] \in Critical
      BY <2>4 DEF Critical, EnqPcs, DeqPcs, QueueTypeOK
    <3> QED
      BY <2>4, <3>1, OutsiderProgress
  <2>5. Progress(t)'
    BY <1>0, <1>a, <1>c, <2>1, <2>2 DEF Progress
  <2> QED
    BY <1>c, <2>3, <2>4, <2>5 DEF Shape, Quiet
<1> QED
  BY <1>1, <1>2, <1>3

\* queue_enqueue moves the tail back to the end.
LEMMA EnqueueTailInv ==
  ASSUME QueueInv, NEW t \in Threads, EnqueueTail(t)
  PROVE  QueueInv'
<1> USE DEF QueueInv, EnqueueTail, fields, locals
<1>0. Progress(t) /\ HasValues
  BY DEF Shape
<1>a. /\ node[t] \in Nodes /\ value[node[t]] \in Values
      /\ size = Len(order) /\ Whole(order, {node[t]})
      /\ HalfLinked(order, node[t])
  BY <1>0 DEF Progress
<1>b. \A i \in 1 .. Len(order) : order[i] \in Nodes /\ order[i] # node[t]
  BY <1>a DEF Whole, NodesOf, QueueTypeOK
<1>c. pc'[t] = "enq_size"
  BY DEF QueueTypeOK
<1>1. QueueTypeOK'
  BY <1>a DEF QueueTypeOK, EnqPcs
<1>2. MutualExclusion' /\ Blocked'
  BY DEF QueueTypeOK, MutualExclusion, Blocked, Critical, EnqPcs, DeqPcs
<1>3. Shape'
  <2>1. Linked(Append(order, node[t]))'
    BY <1>a, <1>b DEF HalfLinked, Linked, NodeAt, QueueTypeOK
  <2>2. Whole(order, {node[t]})'
    BY <1>a DEF Whole
  <2>3. HasValues'
    BY <1>0 DEF HasValues
  <2>4. ASSUME NEW u \in Threads, u # t
        PROVE  Progress(u)'
    <3>1. pc'[u] = pc[u] /\ arg'[u] = arg[u] /\ pc[t] \in Critical
      BY <2>4 DEF Critical, EnqPcs, DeqPcs, QueueTypeOK
    <3> QED
      BY <2>4, <3>1, OutsiderProgress
  <2>5. Progress(t)'
    BY <1>a, <1>c, <2>1, <2>2 DEF Progress
  <2> QED
    BY <1>c, <2>3, <2>4, <2>5 DEF Shape, Quiet
<1> QED
  BY <1>1, <1>2, <1>3

\* queue_enqueue counts the new node and signals.
LEMMA EnqueueSizeInv ==
  ASSUME QueueInv, NEW t \in Threads, EnqueueSize(t)
  PROVE  QueueInv'
<1> USE DEF QueueInv, EnqueueSize, fields, locals
<1>0. Progress(t) /\ HasValues
  BY DEF Shape
<1>a. /\ node[t] \in Nodes /\ value[node[t]] \in Values
      /\ size = Len(order) /\ Whole(order, {node[t]})
      /\ Linked(Append(order, node[t]))
  BY <1>0 DEF Progress
<1>b. /\ order' \in Seq(Nodes) /\ Len(order') = Len(order) + 1
      /\ \A i \in 1 .. Len(order) : order'[i] = order[i]
      /\ order'[Len(order) + 1] = node[t]
  BY <1>a DEF QueueTypeOK
<1>1. QueueTypeOK'
  BY <1>a, <1>b DEF QueueTypeOK, EnqPcs
<1>2. MutualExclusion' /\ Blocked'
  BY DEF QueueTypeOK, MutualExclusion, Blocked, Critical, EnqPcs, DeqPcs
<1>3. Shape'
  <2>1. Linked(order)' /\ size' = Len(order')
    BY <1>a, <1>b DEF Linked, NodeAt
  <2>2. Whole(order, {})'
    <3>a. ASSUME NEW m \in NodesOf(order)' PROVE m \in NodesOf(order) \cup {node[t]}
      BY <1>b DEF NodesOf, QueueTypeOK
    <3>b. ASSUME NEW m \in NodesOf(order) PROVE m \in NodesOf(order)'
      BY <1>b DEF NodesOf, QueueTypeOK
    <3>c. node[t] \in NodesOf(order)'
      BY <1>b DEF NodesOf, QueueTypeOK
    <3>1. NodesOf(order)' = NodesOf(order) \cup {node[t]}
      BY <3>a, <3>b, <3>c
    <3>2. Distinct(order)'
      BY <1>a, <1>b DEF Whole, Distinct, NodesOf, QueueTypeOK
    <3> QED
      BY <1>a, <3>1, <3>2 DEF Whole
  <2>3. HasValues'
    BY <1>0, <1>a, <1>b DEF HasValues, QueueTypeOK
  <2>4. ASSUME NEW u \in Threads, u # t
        PROVE  Progress(u)'
    <3>1. pc'[u] = pc[u] /\ arg'[u] = arg[u] /\ pc[t] \in Critical
      BY <2>4 DEF Critical, EnqPcs, DeqPcs, QueueTypeOK
    <3> QED
      BY <2>4, <3>1, OutsiderProgress
  <2>5. Progress(t)'
    BY DEF Progress, QueueTypeOK
  <2> QED
    BY <2>1, <2>2, <2>3, <2>4, <2>5 DEF Shape
<1> QED
  BY <1>1, <1>2, <1>3

\* queue_dequeue takes the first node out of the list.
LEMMA DequeueUnlinkInv ==
  ASSUME QueueInv, NEW t \in Threads, DequeueUnlink(t)
  PROVE  QueueInv'
<1> USE DEF QueueInv, DequeueUnlink, fields, locals
<1>0. /\ Quiet
      /\ order # <<>> /\ node[t] = order[1] /\ val[t] = value[order[1]]
  <2>1. Quiet
    BY DEF MutualExclusion, Quiet, Critical, EnqPcs, DeqPcs
  <2>2. Progress(t) /\ pc[t] = "deq_unlink"
    BY DEF Shape
  <2> QED
    BY <2>1, <2>2 DEF Progress
<1>a. /\ Linked(order) /\ size = Len(order) /\ Whole(order, {})
      /\ HasValues
  BY <1>0 DEF Shape
<1>b. /\ order' \in Seq(Nodes)
      /\ Len(order') = Len(order) - 1
      /\ \A i \in 1 .. Len(order') : order'[i] = order[i + 1]
      /\ order[1] \in Nodes
  BY <1>0 DEF QueueTypeOK
<1>c. next[HeadNode] = order[1] /\ next[order[1]] = NodeAt(order, 2)
  BY <1>0, <1>a DEF Linked, NodeAt, QueueTypeOK
<1>1. QueueTypeOK'
  BY <1>b, <1>c, <1>0 DEF QueueTypeOK, DeqPcs, NodeAt
<1>2. MutualExclusion' /\ Blocked'
  BY DEF QueueTypeOK, MutualExclusion, Blocked, Critical, EnqPcs, DeqPcs
<1>3. Shape'
  <2>1. Linked(order)'
    BY <1>a, <1>b, <1>c, <1>0 DEF Linked, NodeAt, Whole, Distinct, QueueTypeOK
  <2>2. Whole(order, {node[t]})'
    <3>1. Distinct(order)' /\ order[1] \notin NodesOf(order)'
      BY <1>a, <1>b DEF Whole, Distinct, NodesOf, QueueTypeOK
    <3>2. ASSUME NEW m \in NodesOf(order) PROVE m \in NodesOf(order)' \cup {order[1]}
      <4> PICK i \in 1 .. Len(order) : m = order[i]
        BY DEF NodesOf
      <4>1. CASE i = 1
        BY <4>1
      <4>2. CASE i # 1
        <5>1. i - 1 \in 1 .. Len(order') /\ order'[i - 1] = m
          BY <1>b, <4>2 DEF QueueTypeOK
        <5> QED
          BY <5>1 DEF NodesOf
      <4> QED
        BY <4>1, <4>2
    <3>3. ASSUME NEW m \in NodesOf(order)' PROVE m \in NodesOf(order)
      BY <1>b DEF NodesOf, QueueTypeOK
    <3>4. order[1] \in NodesOf(order)
      BY <1>0 DEF NodesOf, QueueTypeOK
    <3>5. NodesOf(order)' \cup {order[1]} = NodesOf(order)
      BY <3>2, <3>3, <3>4
    <3> QED
      BY <1>a, <1>0, <3>1, <3>5 DEF Whole
  <2>3. HasValues'
    <3> SUFFICES ASSUME NEW i \in 1 .. Len(order') PROVE value[order'[i]] \in Values
      BY DEF HasValues
    <3>1. i + 1 \in 1 .. Len(order) /\ order'[i] = order[i + 1]
      BY <1>b DEF QueueTypeOK
    <3> QED
      BY <1>a, <3>1 DEF HasValues
  <2>4. ASSUME NEW u \in Threads, u # t
        PROVE  Progress(u)'
    <3>1. pc'[u] = pc[u] /\ arg'[u] = arg[u] /\ pc[t] \in Critical
      BY <2>4 DEF Critical, EnqPcs, DeqPcs, QueueTypeOK
    <3> QED
      BY <2>4, <3>1, OutsiderProgress
  <2>5. Progress(t)'
    <3>1. pc'[t] = "deq_free" /\ val[t] \in Values /\ node[t] \in Nodes
      BY <1>0, <1>a, <1>b DEF QueueTypeOK, HasValues
    <3> QED
      BY <1>a, <1>b, <2>1, <2>2, <3>1 DEF Progress, QueueTypeOK
  <2>6. pc'[t] = "deq_free"
    BY DEF QueueTypeOK
  <2> QED
    BY <2>3, <2>4, <2>5, <2>6 DEF Shape, Quiet
<1> QED
  BY <1>1, <1>2, <1>3

\* queue_dequeue frees the node it took out.
LEMMA DequeueFreeInv ==
  ASSUME QueueInv, NEW t \in Threads, DequeueFree(t)
  PROVE  QueueInv'
<1> USE DEF QueueInv, DequeueFree, fields, locals
<1>0. Progress(t) /\ HasValues
  BY DEF Shape
<1>a. /\ node[t] \in Nodes /\ val[t] \in Values
      /\ size = Len(order) + 1 /\ Whole(order, {node[t]})
      /\ Linked(order)
  BY <1>0 DEF Progress
<1>b. \A i \in 1 .. Len(order) : order[i] \in Nodes /\ order[i] # node[t]
  BY <1>a DEF Whole, NodesOf, QueueTypeOK
<1>1. QueueTypeOK'
  BY <1>a DEF QueueTypeOK, DeqPcs
<1>2. MutualExclusion' /\ Blocked'
  BY DEF QueueTypeOK, MutualExclusion, Blocked, Critical, EnqPcs, DeqPcs
<1>3. Shape'
  <2>1. Linked(order)' /\ size' = Len(order')
    BY <1>a, <1>b DEF Linked, NodeAt, QueueTypeOK
  <2>2. Whole(order, {})'
    BY <1>a DEF Whole
  <2>3. HasValues'
    BY <1>0, <1>a, <1>b DEF HasValues, QueueTypeOK
  <2>4. ASSUME NEW u \in Threads, u # t
        PROVE  Progress(u)'
    <3>1. pc'[u] = pc[u] /\ arg'[u] = arg[u] /\ pc[t] \in Critical
      BY <2>4 DEF Critical, EnqPcs, DeqPcs, QueueTypeOK
    <3> QED
      BY <2>4, <3>1, OutsiderProgress
  <2>5. Progress(t)'
    BY <1>a DEF Progress, QueueTypeOK
  <2> QED
    BY <2>1, <2>2, <2>3, <2>4, <2>5 DEF Shape
<1> QED
  BY <1>1, <1>2, <1>3

-----------------------------------------------------------------------------
\* Every step of the queue preserves the invariant.
LEMMA StepInv == QueueInv /\ [SomeMove]_queueVars => QueueInv'
<1> SUFFICES ASSUME QueueInv, [SomeMove]_queueVars PROVE QueueInv'
  OBVIOUS
<1>1. CASE UNCHANGED queueVars
  BY <1>1 DEF QueueInv, QueueTypeOK, MutualExclusion, Blocked, Shape, Progress,
              HasValues, Quiet, Linked, HalfLinked, Whole, queueVars
<1>2. CASE SomeMove
  <2> PICK t \in Threads : QueueMove(t)
    BY <1>2 DEF SomeMove
  <2> QED
    BY CallEnqueueInv, CallDequeueInv, EnqueueLockInv, DequeueLockInv,
       DequeueWokenInv, EnqueueUnlockInv, DequeueWaitInv, SpuriousWakeupInv,
       DequeueReadInv, DequeueUnlockInv, EnqueueLinkInv, EnqueueTailInv,
       EnqueueSizeInv, DequeueUnlinkInv, DequeueFreeInv
       DEF QueueMove, QueueStep, EnqueueStep, DequeueStep
<1> QED
  BY <1>1, <1>2

\* The tests' client only makes such moves.
LEMMA NextMoves == [QueueNext]_queueVars => [SomeMove]_queueVars
  BY DEF QueueNext, SomeMove, QueueMove

\* The invariant holds in every reachable state of the queue.
THEOREM QueueInvariance == QueueSpec => []QueueInv
<1> QED
  BY InitInv, StepInv, NextMoves, PTL DEF QueueSpec

\* Every variable keeps its type: in particular size never drops below zero,
\* although queue_dequeue decrements it without a test of its own.
THEOREM QueueTypeCorrect == QueueSpec => []QueueTypeOK
<1>1. QueueInv => QueueTypeOK
  BY DEF QueueInv
<1> QED
  BY <1>1, QueueInvariance, PTL

\* The mutex of the queue keeps two operations from overlapping.
THEOREM QueueMutualExclusion == QueueSpec => []MutualExclusion
<1>1. QueueInv => MutualExclusion
  BY DEF QueueInv
<1> QED
  BY <1>1, QueueInvariance, PTL

\* What the invariant says when no thread is inside an operation.
LEMMA WholeWhenFree == QueueInv => ListIntact
<1> SUFFICES ASSUME QueueInv, mutex = NoThread
             PROVE  /\ Linked(order) /\ size = Len(order) /\ Distinct(order)
                    /\ allocated = {HeadNode, TailNode} \cup NodesOf(order)
  BY DEF ListIntact
<1>1. Quiet
  BY DEF QueueInv, MutualExclusion, Quiet, Critical, EnqPcs, DeqPcs
<1> QED
  BY <1>1 DEF QueueInv, Shape, Whole

\* The list is whole whenever the mutex is free.
THEOREM QueueListIntact == QueueSpec => []ListIntact
  BY WholeWhenFree, QueueInvariance, PTL

-----------------------------------------------------------------------------
\* The takers are finitely many, so their number is a natural number.
LEMMA TakersFinite ==
  /\ IsFiniteSet(Takers) /\ Cardinality(Takers) \in Nat
  /\ IsFiniteSet(Takers') /\ Cardinality(Takers') \in Nat
<1>1. Takers \subseteq Threads /\ Takers' \subseteq Threads
  BY DEF Takers
<1> QED
  BY <1>1, FS_Subset, FS_CardinalityType

\* A step that changes no size, blocks nobody and takes no taker away keeps
\* enough threads awake.
LEMMA StillEnoughTakers ==
  ASSUME NoLostWakeup, QueueTypeOK, size' = size, waiting' \subseteq waiting,
         Takers \subseteq Takers'
  PROVE  NoLostWakeup'
<1>1. Cardinality(Takers) <= Cardinality(Takers')
  BY TakersFinite, FS_Subset
<1> QED
  BY <1>1, TakersFinite DEF NoLostWakeup, QueueTypeOK

\* Every step keeps enough threads awake for the items in the queue.
LEMMA WakeupStep ==
  QueueInv /\ NoLostWakeup /\ [SomeMove]_queueVars => NoLostWakeup'
<1> SUFFICES ASSUME QueueInv, NoLostWakeup, [SomeMove]_queueVars
             PROVE  NoLostWakeup'
  OBVIOUS
<1> USE DEF QueueInv, fields, locals
<1>1. CASE UNCHANGED queueVars
  BY <1>1, StillEnoughTakers DEF queueVars, Takers
<1>2. CASE SomeMove
  <2> PICK t \in Threads : QueueMove(t)
    BY <1>2 DEF SomeMove
  <2>1. CASE EnqueueSize(t)
    <3> USE <2>1 DEF EnqueueSize
    <3>1. CASE waiting' = {}
      BY <3>1 DEF NoLostWakeup
    <3>2. CASE waiting' # {}
      <4> PICK w \in waiting : waiting' = waiting \ {w}
        BY <3>2
      <4>1. w \in Threads /\ pc[w] = "deq_wait" /\ w # t /\ w \notin Takers
        BY DEF Blocked, Takers, QueueTypeOK
      <4>2. Takers' = Takers \cup {w}
        BY <4>1 DEF Takers, QueueTypeOK
      <4>3. Cardinality(Takers') = Cardinality(Takers) + 1
        BY <4>1, <4>2, TakersFinite, FS_AddElement
      <4> QED
        BY <4>3, TakersFinite DEF NoLostWakeup, QueueTypeOK
    <3> QED
      BY <3>1, <3>2
  <2>2. CASE DequeueWait(t)
    BY <2>2, TakersFinite DEF DequeueWait, NoLostWakeup
  <2>3. CASE DequeueFree(t)
    <3> USE <2>3 DEF DequeueFree
    <3>1. t \in Takers /\ Takers' = Takers \ {t}
      BY DEF Takers, QueueTypeOK
    <3>2. Cardinality(Takers') = Cardinality(Takers) - 1
      BY <3>1, TakersFinite, FS_RemoveElement
    <3>3. size \in Nat \ {0}
      <4>1. Progress(t) /\ pc[t] = "deq_free"
        BY DEF Shape
      <4>2. size = Len(order) + 1
        BY <4>1 DEF Progress
      <4>3. Len(order) \in Nat
        BY DEF QueueTypeOK
      <4> QED
        BY <4>2, <4>3
    <3> QED
      BY <3>2, <3>3, TakersFinite DEF NoLostWakeup
  <2>4. CASE SpuriousWakeup(t)
    BY <2>4, StillEnoughTakers DEF SpuriousWakeup, Takers
  <2>5. CASE \/ \E v \in Values : CallEnqueue(t, v)
             \/ CallDequeue(t)
             \/ EnqueueLock(t) \/ DequeueLock(t) \/ DequeueWoken(t)
             \/ EnqueueUnlock(t) \/ DequeueUnlock(t)
    BY <2>5, StillEnoughTakers
       DEF CallEnqueue, CallDequeue, EnqueueLock, DequeueLock, DequeueWoken,
           Lock, EnqueueUnlock, DequeueUnlock, Takers, QueueTypeOK
  <2>6. CASE DequeueRead(t) \/ DequeueUnlink(t)
    BY <2>6, StillEnoughTakers DEF DequeueRead, DequeueUnlink, Takers, QueueTypeOK
  <2>7. CASE EnqueueLink(t) \/ EnqueueTail(t)
    BY <2>7, StillEnoughTakers DEF EnqueueLink, EnqueueTail, Takers, QueueTypeOK
  <2> QED
    BY <2>1, <2>2, <2>3, <2>4, <2>5, <2>6, <2>7
       DEF QueueMove, QueueStep, EnqueueStep, DequeueStep
<1> QED
  BY <1>1, <1>2

\* One signal per enqueue loses no wakeup: while a thread is blocked on the
\* condition variable, each item has a thread awake that will take it.
THEOREM QueueNoLostWakeup == QueueSpec => []NoLostWakeup
<1>1. QueueInit => NoLostWakeup
  BY DEF QueueInit, NoLostWakeup
<1> QED
  BY <1>1, WakeupStep, NextMoves, QueueInvariance, PTL DEF QueueSpec

-----------------------------------------------------------------------------
\* queue_init yields an empty FIFO.
LEMMA FifoInit == QueueInit => Fifo!Init
<1> SUFFICES ASSUME QueueInit PROVE Fifo!Init
  OBVIOUS
<1>1. Items = <<>>
  BY DEF QueueInit, Items
<1>2. Returned = [t \in Threads |-> Junk]
  BY DEF QueueInit, Returned
<1> QED
  BY <1>1, <1>2 DEF Fifo!Init

\* A step that changes neither the content nor what was returned is a stutter
\* of the FIFO; this is every step but EnqueueSize and DequeueUnlink.
LEMMA FifoStutter ==
  ASSUME Items' = Items, Returned' = Returned
  PROVE  [Fifo!Next]_(Fifo!vars)
BY DEF Fifo!vars

\* EnqueueSize appends the value of its argument.
LEMMA FifoEnqueue ==
  ASSUME QueueInv, NEW t \in Threads, EnqueueSize(t)
  PROVE  Fifo!Next
<1> USE DEF QueueInv, EnqueueSize, fields, locals
<1>0. Progress(t) /\ pc[t] = "enq_size"
  BY DEF Shape
<1>1. value[node[t]] \in Values /\ node[t] \in Nodes
  BY <1>0 DEF Progress
<1>2. Items' = Append(Items, value[node[t]])
  BY <1>1 DEF Items, QueueTypeOK
<1>3. Returned' = Returned
  BY DEF Returned, QueueTypeOK
<1> QED
  BY <1>1, <1>2, <1>3 DEF Fifo!Next, Fifo!Enqueue

\* DequeueUnlink removes the oldest value, which the thread will return.
LEMMA FifoDequeue ==
  ASSUME QueueInv, NEW t \in Threads, DequeueUnlink(t)
  PROVE  Fifo!Next
<1> USE DEF QueueInv, DequeueUnlink, fields, locals
<1>0. Progress(t) /\ pc[t] = "deq_unlink"
  BY DEF Shape
<1>1. order # <<>> /\ val[t] = value[order[1]]
  BY <1>0 DEF Progress
<1>2. Items # <<>> /\ Items' = Tail(Items) /\ Head(Items) = val[t]
  BY <1>1 DEF Items, QueueTypeOK
<1>3. Returned' = [Returned EXCEPT ![t] = val[t]]
  BY DEF Returned, QueueTypeOK
<1> QED
  BY <1>1, <1>2, <1>3 DEF Fifo!Next, Fifo!Dequeue

\* Every step of the queue is a step of the FIFO or a stutter.
LEMMA FifoStep ==
  QueueInv /\ [SomeMove]_queueVars => [Fifo!Next]_(Fifo!vars)
<1> SUFFICES ASSUME QueueInv, [SomeMove]_queueVars
             PROVE  [Fifo!Next]_(Fifo!vars)
  OBVIOUS
<1> USE DEF QueueInv, fields, locals
<1>1. CASE UNCHANGED queueVars
  BY <1>1, FifoStutter DEF queueVars, Items, Returned
<1>2. CASE SomeMove
  <2> PICK t \in Threads : QueueMove(t)
    BY <1>2 DEF SomeMove
  <2>1. CASE EnqueueSize(t)
    BY <2>1, FifoEnqueue
  <2>2. CASE DequeueUnlink(t)
    BY <2>2, FifoDequeue
  <2>3. CASE EnqueueLink(t)
    <3>1. Quiet
      BY <2>3 DEF MutualExclusion, Quiet, Critical, EnqPcs, DeqPcs, EnqueueLink
    <3>2. \A i \in 1 .. Len(order) : order[i] \in allocated
      BY <3>1 DEF Shape, Whole, NodesOf
    <3>3. Items' = Items
      BY <2>3, <3>2 DEF EnqueueLink, Items, QueueTypeOK
    <3>4. Returned' = Returned
      BY <2>3 DEF EnqueueLink, Returned, QueueTypeOK
    <3> QED
      BY <3>3, <3>4, FifoStutter
  <2>4. CASE DequeueFree(t)
    <3>0. Progress(t) /\ pc[t] = "deq_free"
      BY <2>4 DEF DequeueFree, Shape
    <3>1. \A i \in 1 .. Len(order) : order[i] # node[t]
      BY <3>0 DEF Progress, Whole, NodesOf
    <3>2. Items' = Items
      BY <2>4, <3>1 DEF DequeueFree, Items, QueueTypeOK
    <3>3. Returned' = Returned
      BY <2>4 DEF DequeueFree, Returned, QueueTypeOK
    <3> QED
      BY <3>2, <3>3, FifoStutter
  <2>5. CASE \/ \E v \in Values : CallEnqueue(t, v)
             \/ CallDequeue(t)
             \/ EnqueueLock(t) \/ DequeueLock(t) \/ DequeueWoken(t)
             \/ EnqueueTail(t) \/ EnqueueUnlock(t) \/ DequeueUnlock(t)
             \/ DequeueWait(t) \/ DequeueRead(t) \/ SpuriousWakeup(t)
    <3>1. Items' = Items
      BY <2>5 DEF CallEnqueue, CallDequeue, EnqueueLock, DequeueLock,
           DequeueWoken, Lock, EnqueueTail, EnqueueUnlock, DequeueUnlock,
           DequeueWait, DequeueRead, SpuriousWakeup, Items
    <3>2. Returned' = Returned
      BY <2>5 DEF CallEnqueue, CallDequeue, EnqueueLock, DequeueLock,
           DequeueWoken, Lock, EnqueueTail, EnqueueUnlock, DequeueUnlock,
           DequeueWait, DequeueRead, SpuriousWakeup, Returned, QueueTypeOK
    <3> QED
      BY <3>1, <3>2, FifoStutter
  <2> QED
    BY <2>1, <2>2, <2>3, <2>4, <2>5 DEF QueueMove, QueueStep, EnqueueStep, DequeueStep
<1> QED
  BY <1>1, <1>2

\* queue.c implements the FIFO that queue.h promises, for any number of
\* threads enqueueing and dequeueing simultaneously.
THEOREM QueueImplementsFifo == QueueSpec => ImplementsFifo
<1> QED
  BY FifoInit, FifoStep, NextMoves, QueueInvariance, PTL DEF QueueSpec, ImplementsFifo, Fifo!Spec

==============================================================================
