---------------------------- MODULE WorkPoolProofs ----------------------------
(***************************************************************************)
(* The thread pool implements WorkPool, for any client that keeps to       *)
(* thread_pool.h: Puts is Add, Gets is Start, WorkReturns is Complete and  *)
(* thread_pool_free is Close; the rest are stutters.                       *)
(***************************************************************************)
EXTENDS ThreadPoolProofs, WellFoundedInduction

\* The work in a queue whose NULLs come last is what comes before them.
LEMMA WorkInIs ==
  ASSUME NEW s \in Seq(Values), NEW n \in 0 .. Len(s),
         \A i \in 1 .. n : s[i] # Null,
         \A i \in n + 1 .. Len(s) : s[i] = Null
  PROVE  WorkIn(s) = SubSeq(s, 1, n)
<1> DEFINE P(m) == (m # 0 => s[m] # Null) /\ \A i \in m + 1 .. Len(s) : s[i] = Null
<1>1. Len(s) \in Nat
  OBVIOUS
<1>2. P(n)
  OBVIOUS
<1>3. ASSUME NEW m \in 0 .. Len(s), P(m) PROVE m = n
  <2>1. ~ (m < n)
    <3>1. m < n => n \in m + 1 .. Len(s) /\ n \in 1 .. n
      BY <1>1
    <3> QED
      BY <3>1, <1>3
  <2>2. ~ (n < m)
    <3>1. n < m => m \in n + 1 .. Len(s) /\ m # 0
      BY <1>1
    <3> QED
      BY <3>1, <1>3
  <2> QED
    BY <2>1, <2>2, <1>1
<1>4. n = CHOOSE m \in 0 .. Len(s) : P(m)
  BY <1>2, <1>3
<1> QED
  BY <1>4 DEF WorkIn

\* A set of natural numbers that is not empty has a least one.
LEMMA LeastNat ==
  ASSUME NEW T, T \subseteq Nat, T # {}
  PROVE  \E m \in T : \A i \in T : m <= i
<1>1. PICK m \in T : \A i \in T : ~ (<<i, m>> \in OpToRel(<, Nat))
  BY WFMin, NatLessThanWellFounded, Zenon
<1>2. \A i \in T : ~ (i < m)
  BY <1>1, Zenon DEF OpToRel
<1> QED
  BY <1>2

\* A sequence whose NULLs are at its end is divided by the first of them.
LEMMA NullsAtTheEnd ==
  ASSUME NEW s \in Seq(Values),
         \A i, j \in 1 .. Len(s) : i < j /\ s[i] = Null => s[j] = Null
  PROVE  \E n \in 0 .. Len(s) : /\ \A i \in 1 .. n : s[i] # Null
                                /\ \A i \in n + 1 .. Len(s) : s[i] = Null
<1>0. Len(s) \in Nat
  OBVIOUS
<1> DEFINE T == {i \in 1 .. Len(s) : s[i] = Null}
<1>1. CASE T = {}
  <2>1. /\ \A i \in 1 .. Len(s) : s[i] # Null
        /\ \A i \in Len(s) + 1 .. Len(s) : s[i] = Null
    BY <1>0, <1>1
  <2> QED
    BY <2>1, <1>0
<1>2. CASE T # {}
  <2>1. T \in SUBSET Nat
    OBVIOUS
  <2>2. PICK m \in T : \A i \in T : m <= i
    <3> HIDE DEF T
    <3> QED
      BY <1>2, <2>1, LeastNat, Zenon
  <2>3. /\ m - 1 \in 0 .. Len(s)
        /\ \A i \in 1 .. m - 1 : s[i] # Null
        /\ \A i \in (m - 1) + 1 .. Len(s) : s[i] = Null
    BY <1>0, <2>2
  <2> QED
    BY <2>3
<1> QED
  BY <1>1, <1>2

\* Worker w has work in hand, not a NULL.
HasWork(w) == Holds(w) /\ Returned[w] # Null

\* InHand, told by workers.
LEMMA HandIs ==
  /\ InHand = {Returned[w] : w \in {x \in Workers : HasWork(x)}}
  /\ InHand' = {Returned'[w] : w \in {x \in Workers : HasWork(x)'}}
<1>0. Workers \subseteq Threads
  BY PoolConstants
<1>1. InHand = {Returned[w] : w \in {x \in Workers : HasWork(x)}}
  BY <1>0, Zenon DEF InHand, HasWork, Holds, Got, Returned
<1>2. InHand' = {Returned'[w] : w \in {x \in Workers : HasWork(x)'}}
  BY <1>0, Zenon DEF InHand, HasWork, Holds, Got, Returned
<1> QED
  BY <1>1, <1>2

\* A step that moves no work is a stutter of WorkPool.
LEMMA NoWorkMoves ==
  ASSUME Items' = Items, done' = done, mpc # "finished", mpc' # "finished",
         \A w \in Workers : /\ HasWork(w)' <=> HasWork(w)
                            /\ HasWork(w) => Returned'[w] = Returned[w]
  PROVE  UNCHANGED Pool!vars
<1>1. InHand' = InHand
  BY HandIs
<1>2. (mpc = "finished")' = (mpc = "finished")
  OBVIOUS
<1> QED
  BY <1>1, <1>2 DEF Pool!vars

\* The work that queue_enqueue links in is added to the abstract pool.
LEMMA AddStep ==
  ASSUME Working, NEW t \in Threads, Effect(t), Puts(t), UNCHANGED poolVars
  PROVE  [Pool!Next]_(Pool!vars)
<1> USE DEF Working, PoolInv
<1>0. /\ Items' = Append(Items, arg[t]) /\ Returned' = Returned
      /\ UNCHANGED <<mpc, count, wpc, added, functs, done>>
  BY DEF Puts, poolVars
<1>1. \A u \in Threads : /\ pc'[u] \in Got <=> pc[u] \in Got
                         /\ pc'[u] = "idle" <=> pc[u] = "idle"
  BY Zenon DEF Effect, Puts, Putting, Got
<1>2. InHand' = InHand
  BY <1>0, <1>1, HandIs, PoolConstants, Zenon DEF HasWork, Holds
<1>3. (mpc = "finished")' = (mpc = "finished") /\ ~ (mpc = "finished")
  BY <1>0
<1>v. arg[t] \in Values /\ (arg[t] = Null <=> Closing)
  BY Zenon DEF Puts, PillsLast
<1>i. /\ Items \in Seq(Values) /\ Items' \in Seq(Values)
      /\ Len(Items') = Len(Items) + 1 /\ Len(Items) \in Nat
      /\ \A i \in 1 .. Len(Items) : Items'[i] = Items[i]
      /\ Items'[Len(Items) + 1] = arg[t]
  BY <1>0, <1>v, ViewTypes
<1>4. CASE arg[t] = Null
  <2>1. PICK n \in 0 .. Len(Items) : /\ \A i \in 1 .. n : Items[i] # Null
                                     /\ \A i \in n + 1 .. Len(Items) : Items[i] = Null
    BY <1>i, NullsAtTheEnd, Zenon DEF PillsLast
  <2>2. WorkIn(Items) = SubSeq(Items, 1, n)
    BY <1>i, <2>1, WorkInIs, Zenon
  <2>3. WorkIn(Items') = SubSeq(Items', 1, n)
    <3>1. n \in 0 .. Len(Items')
      BY <1>i
    <3>2. \A i \in 1 .. n : Items'[i] # Null
      BY <1>i, <2>1
    <3>3. \A i \in n + 1 .. Len(Items') : Items'[i] = Null
      BY <1>i, <2>1, <1>4
    <3> QED
      BY <1>i, <3>1, <3>2, <3>3, WorkInIs
  <2>4. SubSeq(Items', 1, n) = SubSeq(Items, 1, n)
    BY <1>i
  <2>5. WorkIn(Items)' = WorkIn(Items)
    BY <2>2, <2>3, <2>4, Zenon DEF WorkIn
  <2> QED
    BY <1>0, <1>2, <1>3, <2>5 DEF Pool!vars
<1>5. CASE arg[t] # Null
  <2> DEFINE k == arg[t]
  <2>1. k \in Tasks /\ ~ Closing
    BY <1>5, <1>v, PoolConstants
  <2>2. \A i \in 1 .. Len(Items) : Items[i] # Null
    BY <2>1, Zenon DEF PillsLast
  <2>3. WorkIn(Items) = Items
    <3>1. WorkIn(Items) = SubSeq(Items, 1, Len(Items))
      BY <1>i, <2>2, WorkInIs
    <3> QED
      BY <1>i, <3>1
  <2>4. WorkIn(Items)' = Append(Items, k)
    <3>1. \A i \in 1 .. Len(Items') : Items'[i] # Null
      BY <1>i, <1>5, <2>2
    <3>2. WorkIn(Items') = SubSeq(Items', 1, Len(Items'))
      BY <1>i, <3>1, WorkInIs
    <3>3. WorkIn(Items') = Items'
      BY <1>i, <3>2
    <3> QED
      BY <3>3, <1>0, Zenon DEF WorkIn
  <2>5. IsPut(k)
    BY DEF Puts, IsPut
  <2>6. ~ IsQueued(k) /\ ~ IsHeld(k) /\ k \notin done
    BY <2>1, <2>5, Zenon DEF Work
  <2>7. k \notin InHand
    BY <2>6, HandIs, Zenon DEF IsHeld, HasWork
  <2>8. k \notin Pool!Added
    BY <2>3, <2>6, <2>7, Zenon DEF Pool!Added, IsQueued
  <2>9. Pool!Add(k)
    BY <1>0, <1>2, <1>3, <2>3, <2>4, <2>8 DEF Pool!Add
  <2> QED
    BY <2>1, <2>9 DEF Pool!Next
<1> QED
  BY <1>4, <1>5

\* The work that queue_dequeue unlinks is started in the abstract pool.
LEMMA StartStep ==
  ASSUME Working, NEW t \in Threads, Effect(t), Gets(t), UNCHANGED poolVars
  PROVE  [Pool!Next]_(Pool!vars)
<1> USE DEF Working, PoolInv
<1>0. /\ Items # <<>> /\ Items' = Tail(Items)
      /\ Returned' = [Returned EXCEPT ![t] = Head(Items)]
      /\ UNCHANGED <<mpc, count, wpc, added, functs, done>>
  BY DEF Gets, poolVars
<1>1. /\ pc[t] \in Getting /\ pc'[t] \in Got
      /\ \A u \in Threads \ {t} : pc'[u] = pc[u]
  BY Zenon DEF Effect, Gets
<1>2. t \in Workers /\ wpc[t] = "dequeue" /\ ~ Holds(t) /\ Holds(t)' /\ Workers \subseteq Threads
  BY <1>1, PoolConstants DEF Getting, Got, Control, WorkerControl, EnqPcs, Holds
<1>3. (mpc = "finished")' = (mpc = "finished")
  BY <1>0
<1>4. Returned'[t] = Head(Items)
  BY <1>0, ViewTypes
<1>5. \A u \in Workers \ {t} : (HasWork(u)' <=> HasWork(u)) /\ Returned'[u] = Returned[u]
  BY <1>0, <1>1, <1>2, ViewTypes, Zenon DEF HasWork, Holds
<1>i. /\ Items \in Seq(Values) /\ Items' \in Seq(Values)
      /\ Len(Items') = Len(Items) - 1 /\ Len(Items) \in Nat /\ Len(Items) # 0
      /\ \A i \in 1 .. Len(Items') : Items'[i] = Items[i + 1]
      /\ Head(Items) = Items[1]
  BY <1>0, ViewTypes
<1>n. PICK n \in 0 .. Len(Items) : /\ \A i \in 1 .. n : Items[i] # Null
                                   /\ \A i \in n + 1 .. Len(Items) : Items[i] = Null
  BY <1>i, NullsAtTheEnd, Zenon DEF PillsLast
<1>w. WorkIn(Items) = SubSeq(Items, 1, n)
  BY <1>i, <1>n, WorkInIs, Zenon
<1>6. CASE n = 0
  <2>0. 1 \in n + 1 .. Len(Items)
    BY <1>6, <1>i
  <2>1. Head(Items) = Null
    BY <2>0, <1>i, <1>n, Zenon
  <2>2. InHand' = InHand
    BY <2>1, <1>2, <1>4, <1>5, HandIs DEF HasWork
  <2>3. WorkIn(Items') = SubSeq(Items', 1, 0)
    <3>1. /\ 0 \in 0 .. Len(Items')
          /\ \A i \in 1 .. 0 : Items'[i] # Null
      BY <1>i
    <3>2. ASSUME NEW i \in 0 + 1 .. Len(Items') PROVE Items'[i] = Null
      <4>1. i \in 1 .. Len(Items') /\ i + 1 \in n + 1 .. Len(Items)
        BY <1>6, <1>i
      <4> QED
        BY <4>1, <1>i, <1>n
    <3> QED
      BY <1>i, <3>1, <3>2, WorkInIs
  <2>4. WorkIn(Items)' = WorkIn(Items)
    <3>1. SubSeq(Items', 1, 0) = <<>> /\ SubSeq(Items, 1, 0) = <<>>
      BY <1>i
    <3>2. WorkIn(Items') = WorkIn(Items)
      BY <1>w, <1>6, <2>3, <3>1
    <3> QED
      BY <3>2, Zenon DEF WorkIn
  <2> QED
    BY <1>0, <1>3, <2>2, <2>4 DEF Pool!vars
<1>7. CASE n # 0
  <2>1. Head(Items) # Null
    BY <1>7, <1>i, <1>n
  <2>2. InHand' = InHand \cup {Head(Items)}
    BY <2>1, <1>2, <1>4, <1>5, HandIs DEF HasWork
  <2>3. WorkIn(Items') = SubSeq(Items', 1, n - 1)
    <3>1. n - 1 \in 0 .. Len(Items')
      BY <1>7, <1>i
    <3>2. \A i \in 1 .. n - 1 : Items'[i] # Null
      BY <1>i, <1>n
    <3>3. ASSUME NEW i \in (n - 1) + 1 .. Len(Items') PROVE Items'[i] = Null
      <4>1. i \in 1 .. Len(Items') /\ i + 1 \in n + 1 .. Len(Items)
        BY <1>7, <1>i
      <4> QED
        BY <4>1, <1>i, <1>n
    <3> QED
      BY <1>i, <3>1, <3>2, <3>3, WorkInIs, Zenon
  <2>4. /\ WorkIn(Items) # <<>> /\ Head(WorkIn(Items)) = Head(Items)
        /\ WorkIn(Items') = Tail(WorkIn(Items))
    BY <1>7, <1>0, <1>i, <1>w, <2>3
  <2>5. WorkIn(Items)' = Tail(WorkIn(Items))
    BY <2>4, Zenon DEF WorkIn
  <2>6. Cardinality(InHand) < NumWorkers
    <3> DEFINE Others == Workers \ {t}
               f == [w \in Others |-> Returned[w]]
               Hands == {f[w] : w \in Others}
    <3>1. IsFiniteSet(Others) /\ Cardinality(Others) = NumWorkers - 1
      BY <1>2, StoppedFinite, FS_RemoveElement
    <3>2. f \in Surjection(Others, Hands)
      BY DEF Surjection
    <3>3. IsFiniteSet(Hands) /\ Cardinality(Hands) <= NumWorkers - 1
      <4> HIDE DEF Hands, Others, f
      <4> QED
        BY <3>1, <3>2, FS_Surjection
    <3>4. InHand \subseteq Hands
      BY <1>2, HandIs DEF HasWork
    <3>5. Cardinality(InHand) <= Cardinality(Hands) /\ IsFiniteSet(InHand)
      <4> HIDE DEF Hands
      <4> QED
        BY <3>3, <3>4, FS_Subset
    <3>6. Cardinality(InHand) \in Nat /\ Cardinality(Hands) \in Nat /\ NumWorkers \in Nat
      <4> HIDE DEF Hands
      <4> QED
        BY <3>3, <3>5, FS_CardinalityType, PoolConstants
    <3> QED
      <4> HIDE DEF Hands
      <4> QED
        BY <3>3, <3>5, <3>6
  <2>6a. Pool!Cardinality(InHand) = Cardinality(InHand)
    BY DEF Cardinality, Pool!Cardinality
  <2>7. Pool!Start
    BY <1>0, <1>3, <2>2, <2>4, <2>5, <2>6, <2>6a DEF Pool!Start
  <2> QED
    BY <2>7 DEF Pool!Next
<1> QED
  BY <1>6, <1>7

\* The function of the work returns.
LEMMA CompleteStep ==
  ASSUME Working, NEW w \in Workers, WorkReturns(w)
  PROVE  [Pool!Next]_(Pool!vars)
<1> USE DEF Working, PoolInv
<1>2. Workers \subseteq Threads
  BY PoolConstants
<1>v. Items' = Items /\ Returned' = Returned
  BY <1>2, CallsView, Zenon DEF WorkReturns
<1>1. /\ pc[w] = "idle" /\ pc'[w] = "deq_lock"
      /\ \A u \in Threads \ {w} : pc'[u] = pc[u]
  BY <1>2, ViewTypes, Zenon DEF WorkReturns, CallDequeue
<1> DEFINE k == Returned[w]
<1>0. /\ wpc[w] = "run" /\ Holds(w) /\ done' = done \cup {k}
      /\ wpc' = [wpc EXCEPT ![w] = "dequeue"] /\ mpc' = mpc
  BY <1>1, <1>2 DEF WorkReturns, Returned, Holds
<1>k. k \in Tasks /\ HasWork(w)
  BY <1>0, <1>2, PoolConstants DEF Control, WorkerControl, HasWork
<1>3. /\ \A u \in Workers \ {w} : HasWork(u)' <=> HasWork(u)
      /\ ~ HasWork(w)'
  BY <1>0, <1>1, <1>2, <1>v DEF Holds, HasWork, Got, Control
<1>4. \A u \in Workers \ {w} : HasWork(u) => Returned[u] # k
  BY <1>k, Zenon DEF Work, HasWork
<1>5. k \in InHand /\ InHand' = InHand \ {k}
  BY <1>k, <1>v, <1>3, <1>4, HandIs
<1>6. WorkIn(Items)' = WorkIn(Items) /\ (mpc = "finished")' = (mpc = "finished")
  BY <1>0, <1>v DEF WorkIn
<1>7. Pool!Complete(k)
  BY <1>0, <1>5, <1>6 DEF Pool!Complete
<1> QED
  BY <1>k, <1>7 DEF Pool!Next

\* thread_pool_free, at the end of thread_pool_finish.
LEMMA CloseStep ==
  ASSUME Working, PoolFree
  PROVE  [Pool!Next]_(Pool!vars)
<1>1. mpc = "free" /\ mpc' = "finished" /\ QueueFree /\ UNCHANGED <<count, wpc, added, functs, done>>
  BY DEF PoolFree
<1>2. order = <<>> /\ order' = <<>> /\ Items = <<>> /\ Items' = <<>>
  BY <1>1, EmptyAtTheEnd DEF QueueFree, Items
<1>3. \A w \in Workers : ~ HasWork(w) /\ ~ HasWork(w)'
  BY <1>1, EmptyAtTheEnd, PoolConstants, Zenon DEF HasWork, Holds, Got, QueueFree
<1>4. InHand = {} /\ InHand' = {}
  BY <1>3, HandIs
<1>5. WorkIn(Items) = <<>> /\ WorkIn(Items)' = <<>>
  <2>1. <<>> \in Seq(Values)
    OBVIOUS
  <2>2. WorkIn(<<>>) = SubSeq(<<>>, 1, 0)
    <3>1. /\ 0 \in 0 .. Len(<<>>)
          /\ \A i \in 1 .. 0 : <<>>[i] # Null
          /\ \A i \in 0 + 1 .. Len(<<>>) : <<>>[i] = Null
      OBVIOUS
    <3> QED
      BY <2>1, <3>1, WorkInIs, Zenon
  <2>3. WorkIn(<<>>) = <<>>
    BY <2>2
  <2> QED
    BY <1>2, <2>3 DEF WorkIn
<1>6. (mpc = "finished")' = TRUE
  BY <1>1
<1> QED
  BY <1>1, <1>4, <1>5, <1>6 DEF Pool!Next, Pool!Close

\* Every step of the pool is a step of WorkPool or none.
LEMMA WorkPoolStep ==
  ASSUME IInv, [PoolStep]_vars
  PROVE  [Pool!Next]_(Pool!vars)
<1>1. CASE UNCHANGED vars
  <2>1. UNCHANGED <<order, value, pc, val, result, wpc, mpc, done>>
    BY <1>1, Zenon DEF vars, queueVars, poolVars
  <2>2. WorkIn(Items)' = WorkIn(Items) /\ InHand' = InHand
    BY <2>1 DEF Items, WorkIn, InHand
  <2>3. (mpc = "finished")' = (mpc = "finished")
    BY <2>1
  <2> QED
    BY <2>1, <2>2, <2>3 DEF Pool!vars
<1>2. CASE PoolStep
  <2>1. Working
    BY <1>2, FinalStep DEF IInv
  <2> USE <2>1
  <2>2. Workers \subseteq Threads /\ mpc # "finished"
    BY PoolConstants DEF Working
  <2>3. CASE PoolFree \/ \E w \in Workers : WorkReturns(w)
    BY <2>3, CloseStep, CompleteStep
  <2>4. CASE \E t \in Threads : QueueStep(t) /\ UNCHANGED poolVars
    <3>1. PICK t \in Threads : QueueStep(t) /\ UNCHANGED poolVars
      BY <2>4
    <3>2. Effect(t) /\ mpc' = mpc /\ wpc' = wpc /\ done' = done
      BY <3>1, StepEffect DEF Working, poolVars
    <3>3. CASE Puts(t)
      BY <3>1, <3>2, <3>3, AddStep
    <3>4. CASE Gets(t)
      BY <3>1, <3>2, <3>4, StartStep
    <3>5. CASE Proceeds(t) \/ Leaves(t)
      <4>1. Items' = Items /\ Returned' = Returned
        BY <3>5, Zenon DEF Proceeds, Leaves
      <4>2. \A u \in Threads \ {t} : pc'[u] = pc[u]
        BY <3>2 DEF Effect
      <4>3. \A w \in Workers : Holds(w)' <=> Holds(w)
        <5>1. t \in Workers => (Holds(t)' <=> Holds(t))
          BY <3>2, <3>5, Zenon DEF Proceeds, Leaves, Holds, Putting, Getting, Got, Working, PoolInv,
                            Control, WorkerControl, EnqPcs, DeqPcs
        <5> QED
          BY <5>1, <4>2, <3>2, <2>2 DEF Holds
      <4> QED
        BY <4>1, <4>3, <3>2, <2>2, NoWorkMoves DEF HasWork
    <3> QED
      BY <3>2, <3>3, <3>4, <3>5, Zenon DEF Effect
  <2>5. CASE \E w \in Workers : WorkerTakes(w)
    <3>1. PICK w \in Workers : WorkerTakes(w)
      BY <2>5
    <3>2. UNCHANGED queueVars /\ mpc' = mpc /\ done' = done
      BY <3>1 DEF WorkerTakes
    <3>3. Items' = Items /\ Returned' = Returned /\ pc' = pc
      BY <3>2, UnchangedView DEF Working, queueVars
    <3>4. \A u \in Workers : HasWork(u)' <=> HasWork(u)
      <4>1. HasWork(w)' <=> HasWork(w)
        BY <3>1, <3>3, <2>2, Zenon DEF WorkerTakes, HasWork, Holds, Returned, Got, Working, PoolInv, Control
      <4> QED
        BY <4>1, <3>1, <3>3 DEF WorkerTakes, HasWork, Holds
    <3> QED
      BY <3>2, <3>3, <3>4, <2>2, NoWorkMoves
  <2>6. CASE \E w \in Workers : WorkerStart(w) \/ WorkAddsWork(w)
    <3>1. PICK w \in Workers : WorkerStart(w) \/ WorkAddsWork(w)
      BY <2>6
    <3>2. /\ CallDequeue(w) \/ \E v \in Values : CallEnqueue(w, v)
          /\ mpc' = mpc /\ done' = done
      BY <3>1, AddedByWork, PoolConstants, Zenon DEF WorkerStart, AddWork
    <3>3. /\ Items' = Items /\ Returned' = Returned
          /\ pc[w] = "idle" /\ pc'[w] \in {"enq_lock", "deq_lock"}
          /\ \A u \in Threads \ {w} : pc'[u] = pc[u]
      BY <3>2, <2>2, CallsView, ViewTypes DEF CallDequeue, CallEnqueue, Working
    <3>4. \A u \in Workers : Holds(u)' <=> Holds(u)
      <4>1. \A u \in Workers \ {w} : wpc'[u] = wpc[u]
        BY <3>1 DEF WorkerStart, WorkAddsWork, Working, PoolInv, Control
      <4>2. (wpc[w] = "run" /\ wpc'[w] = "run") \/ (wpc[w] = "start" /\ wpc'[w] = "dequeue")
        BY <3>1 DEF WorkerStart, WorkAddsWork, Working, PoolInv, Control
      <4>3. CASE wpc[w] = "start"
        <5>1. pc'[w] = "deq_lock" \/ wpc'[w] = "dequeue"
          BY <4>2, <4>3, Zenon
        <5> QED
          BY <4>1, <4>2, <4>3, <3>3, <2>2, Zenon DEF Holds, Got
      <4>4. CASE wpc[w] = "run"
        BY <4>1, <4>2, <4>4, <3>3, <2>2 DEF Holds, Got
      <4> QED
        BY <4>2, <4>3, <4>4
    <3> QED
      BY <3>2, <3>3, <3>4, <2>2, NoWorkMoves, Zenon DEF HasWork
  <2>7. CASE MainAddsAny \/ EnqueueNull
    <3>1. /\ \E v \in Values : CallEnqueue(Main, v)
          /\ wpc' = wpc /\ done' = done /\ mpc' # "finished"
      BY <2>7, PoolConstants DEF MainAddsAny, EnqueueNull, AddWork
    <3>2. /\ Items' = Items /\ Returned' = Returned
          /\ \A w \in Workers : pc'[w] = pc[w]
      BY <3>1, <2>2, PoolConstants, CallsView, ViewTypes, Zenon DEF CallEnqueue, Working
    <3> QED
      BY <3>1, <3>2, <2>2, NoWorkMoves DEF HasWork, Holds
  <2>8. CASE CreateWorker \/ Closes \/ JoinWorker
    <3>1. UNCHANGED queueVars /\ done' = done /\ mpc' # "finished"
      BY <2>8 DEF CreateWorker, Closes, JoinWorker
    <3>2. Items' = Items /\ Returned' = Returned /\ pc' = pc
      BY <3>1, UnchangedView DEF Working, queueVars
    <3>3. \A w \in Workers : (wpc'[w] = "run" <=> wpc[w] = "run") /\ (wpc'[w] = "dequeue" <=> wpc[w] = "dequeue")
      <4>1. CASE CreateWorker
        <5>1. /\ mpc = "create" /\ wpc' = [wpc EXCEPT ![count + 1] = "start"]
              /\ count \in 0 .. NumWorkers - 1 /\ NumWorkers \in Nat
          BY <4>1, PoolConstants DEF CreateWorker, Working, PoolInv, Control
        <5>2. count + 1 \in Workers /\ wpc[count + 1] = "none"
          BY <5>1 DEF Workers, Working, PoolInv, Control, WorkerControl
        <5> QED
          BY <5>1, <5>2 DEF Working, PoolInv, Control
      <4>2. CASE Closes \/ JoinWorker
        BY <4>2 DEF Closes, JoinWorker
      <4> QED
        BY <2>8, <4>1, <4>2
    <3> QED
      BY <3>1, <3>2, <3>3, <2>2, NoWorkMoves, Zenon DEF HasWork, Holds
  <2>9. CASE \E t \in Threads : SpuriousWakeup(t) /\ UNCHANGED poolVars
    <3>1. UNCHANGED <<order, value, pc, val, result, wpc, mpc, done>>
      BY <2>9 DEF SpuriousWakeup, fields, locals, poolVars
    <3> QED
      BY <3>1, <2>2, NoWorkMoves, Zenon DEF HasWork, Holds, Items, Returned
  <2> QED
    BY <1>2, <2>3, <2>4, <2>5, <2>6, <2>7, <2>8, <2>9 DEF PoolStep
<1> QED
  BY <1>1, <1>2

\* The pool keeps the promise of thread_pool.h: NumWorkers threads take the work
\* in the order in which it was added, each piece once, and thread_pool_finish
\* returns when all of it is done.
THEOREM PoolIsWorkPool == AnyClient => ImplementsWorkPool
<1>1. Init => Pool!Init
  <2> SUFFICES ASSUME Init PROVE Pool!Init
    OBVIOUS
  <2>1. order = <<>> /\ mpc = "create" /\ done = {}
    BY DEF Init, QueueInit
  <2>2. WorkIn(<<>>) = <<>>
    <3>1. /\ <<>> \in Seq(Values)
          /\ 0 \in 0 .. Len(<<>>)
          /\ \A i \in 1 .. 0 : <<>>[i] # Null
          /\ \A i \in 0 + 1 .. Len(<<>>) : <<>>[i] = Null
      OBVIOUS
    <3>2. WorkIn(<<>>) = SubSeq(<<>>, 1, 0)
      BY <3>1, WorkInIs, Zenon
    <3> QED
      BY <3>2
  <2>3. Items = <<>>
    BY <2>1 DEF Items
  <2>4. InHand = {}
    BY PoolConstants DEF InHand, Init, QueueInit
  <2>5. (mpc = "finished") = FALSE
    BY <2>1
  <2> QED
    BY <2>1, <2>2, <2>3, <2>4, <2>5 DEF Pool!Init
<1> QED
  BY <1>1, WorkPoolStep, PoolInvariance, PTL DEF AnyClient, ImplementsWorkPool, Pool!Spec

\* All of it for ThreadPool's own client, which adds any work in any order, from
\* main and from the work itself.
THEOREM PoolCorrect ==
    Spec => /\ ImplementsWorkPool /\ []FinishIsClean
            /\ ImplementsFifo /\ []ListIntact /\ []NoLostWakeup
<1>1. Spec => AnyClient
  BY NextIsPoolStep, PTL DEF Spec, AnyClient
<1> QED
  BY <1>1, PoolIsWorkPool, FinishLeavesNothing, PoolQueueIsFifo, PoolListIntact, PoolNoLostWakeup, PTL

==============================================================================
