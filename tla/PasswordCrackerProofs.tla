------------------------ MODULE PasswordCrackerProofs ------------------------
(***************************************************************************)
(* Proofs about PasswordCracker: the program and ThreadPool's other client *)
(* make only steps that a client of the pool may make, so that all that    *)
(* is proved of the pool holds of the program; and what the program prints *)
(* are passwords it was asked for.                                         *)
(***************************************************************************)
EXTENDS PasswordCracker, WorkPoolProofs, SequenceTheorems

IsSeq(s) == s \in Seq(ToSet(s))

\* A sequence over some set is one over the set of its elements.
LEMMA SeqIsSeq ==
  ASSUME NEW S, NEW s \in Seq(S)
  PROVE  IsSeq(s)
<1>1. Len(s) \in Nat /\ DOMAIN s = 1 .. Len(s) /\ s = [i \in 1 .. Len(s) |-> s[i]]
  OBVIOUS
<1>2. \A i \in 1 .. Len(s) : s[i] \in ToSet(s)
  BY <1>1 DEF ToSet
<1>3. s \in [1 .. Len(s) -> ToSet(s)]
  BY <1>1, <1>2
<1> QED
  BY <1>1, <1>3, SeqDef DEF IsSeq

\* What append does to a sequence, in terms of its elements.
LEMMA AppendSeq ==
  ASSUME NEW s, IsSeq(s), NEW x
  PROVE  /\ IsSeq(Append(s, x)) /\ Len(s) \in Nat /\ Len(Append(s, x)) = Len(s) + 1
         /\ \A i \in 1 .. Len(s) : Append(s, x)[i] = s[i]
         /\ Append(s, x)[Len(s) + 1] = x
<1> DEFINE S == ToSet(s) \cup {x}
<1>1. s \in Seq(S) /\ Len(s) \in Nat
  BY DEF IsSeq
<1> HIDE DEF S
<1>2. x \in S
  BY DEF S
<1>3. Append(s, x) \in Seq(S)
  BY <1>1, <1>2
<1>4. IsSeq(Append(s, x))
  BY <1>3, SeqIsSeq
<1> QED
  BY <1>1, <1>2, <1>4

\* What is left of a sequence after its first element.
LEMMA TailSeq ==
  ASSUME NEW s, IsSeq(s), s # <<>>
  PROVE  /\ IsSeq(Tail(s)) /\ ToSet(Tail(s)) \subseteq ToSet(s) /\ Head(s) \in ToSet(s)
<1>1. s \in Seq(ToSet(s)) /\ Len(s) \in Nat /\ Len(s) # 0
  BY DEF IsSeq
<1>2. Tail(s) \in Seq(ToSet(s))
  BY <1>1
<1>3. Len(Tail(s)) = Len(s) - 1 /\ \A i \in 1 .. Len(Tail(s)) : Tail(s)[i] = s[i + 1]
  BY <1>1
<1>4. DOMAIN s = 1 .. Len(s) /\ DOMAIN Tail(s) = 1 .. Len(Tail(s))
  BY <1>1, <1>2
<1>5. ToSet(Tail(s)) \subseteq ToSet(s)
  BY <1>1, <1>3, <1>4 DEF ToSet
<1>6. Head(s) \in ToSet(s)
  BY <1>1, <1>4 DEF ToSet
<1> QED
  BY <1>2, <1>5, <1>6, SeqIsSeq

\* The lines before the first empty one are a sequence of lines.
LEMMA HashesSeq ==
  ASSUME session \in Sessions
  PROVE  IsSeq(hashes)
<1> DEFINE lines == session.input
           T == {i \in 1 .. Len(lines) : lines[i] = EmptyLine}
           P(m) == /\ \A i \in 1 .. m : lines[i] # EmptyLine
                   /\ m = Len(lines) \/ lines[m + 1] = EmptyLine
<1>1. lines \in Seq(ToSet(lines)) /\ Len(lines) \in Nat
  BY CrackerConstants
<1>2. \E m \in 0 .. Len(lines) : P(m)
  <2>1. CASE T = {}
    <3>1. P(Len(lines))
      BY <2>1
    <3> QED
      BY <3>1, <1>1
  <2>2. CASE T # {}
    <3>1. T \subseteq Nat
      OBVIOUS
    <3>2. PICK k \in T : \A i \in T : k <= i
      <4> HIDE DEF T
      <4> QED
        BY <2>2, <3>1, LeastNat
    <3>3. k - 1 \in 0 .. Len(lines) /\ P(k - 1)
      BY <1>1, <3>2
    <3> QED
      BY <3>3
  <2> QED
    BY <2>1, <2>2
<1> DEFINE n == CHOOSE m \in 0 .. Len(lines) : P(m)
<1>3. n \in 0 .. Len(lines)
  <2> HIDE DEF P
  <2> QED
    BY <1>2
<1> HIDE DEF n
<1>4. SubSeq(lines, 1, n) \in Seq(ToSet(lines))
  BY <1>1, <1>3
<1>5. hashes = SubSeq(lines, 1, n)
  BY DEF hashes, n
<1> QED
  BY <1>4, <1>5, SeqIsSeq

-----------------------------------------------------------------------------
(* The invariant of the program *)

CrackInv ==
    /\ session \in Sessions \cup {NoSession}
    /\ Cracking =>
         /\ IsSeq(passes) /\ IsSeq(todo)
         /\ ToSet(todo) \subseteq ToSet(hashes)
         /\ \A k \in 1 .. Len(passes) : passes[k].hash \in ToSet(hashes)
         /\ added \subseteq 1 .. Len(passes)
    /\ OnlyPasswords

Inv == IInv /\ CrackInv

\* main's steps and its work, on the pool
LEMMA CrackerPoolStep ==
  ASSUME Inv, ClientNext
  PROVE  PoolStep \/ UNCHANGED vars
<1>0. Main \in Threads /\ Workers \subseteq Threads /\ NumWorkers \in Nat
  BY PoolConstants
<1>1. CASE ~ Cracking
  <2>1. Next \/ UNCHANGED vars
    BY <1>1 DEF ClientNext, ClientMain, ClientWorker, Next, Finished
  <2> QED
    BY <2>1, NextIsPoolStep
<1>2. CASE Cracking
  <2>1. CASE FormNext
    BY <2>1 DEF FormNext, vars
  <2>2. CASE AddNext
    BY <2>2 DEF AddNext, PoolStep, MainAddsAny
  <2>3. CASE AllAdded
    <3>1. IsSeq(passes) /\ added \subseteq 1 .. Len(passes)
      BY <1>2 DEF Inv, CrackInv
    <3>2. Spawning \cap added = {}
      <4>1. added \subseteq Nat
        BY <3>1, AppendSeq
      <4>2. \A k \in Spawning : k \notin Nat
        BY CrackerConstants DEF Spawning
      <4> QED
        BY <4>1, <4>2
    <3>3. Closes
      BY <2>3, <3>2 DEF AllAdded, Closes
    <3> QED
      BY <3>3 DEF PoolStep
  <2>4. CASE (CreateWorker \/ EnqueueNull \/ JoinWorker \/ PoolFree) /\ UNCHANGED crackVars
    BY <2>4 DEF PoolStep
  <2>5. CASE QueueStep(Main) /\ UNCHANGED <<poolVars, crackVars>>
    BY <2>5, <1>0 DEF PoolStep
  <2>6. CASE \E w \in Workers : CrackerWorker(w)
    BY <2>6, <1>0 DEF PoolStep, CrackerWorker, hashes_match
  <2>7. CASE Wakeup \/ Finished
    BY <2>7 DEF Wakeup, Finished, PoolStep
  <2> QED
    BY <1>2, <2>1, <2>2, <2>3, <2>4, <2>5, <2>6, <2>7 DEF ClientNext, ClientMain, ClientWorker, CrackerMain
<1> QED
  BY <1>1, <1>2

\* A step that leaves the program's variables alone.
LEMMA CrackUnchanged ==
  ASSUME CrackInv, UNCHANGED crackVars, Cracking => added' = added
  PROVE  CrackInv'
<1>1. UNCHANGED <<session, todo, passes, printed>>
  BY DEF crackVars, mainVars
<1>2. hashes' = hashes /\ (Cracking' <=> Cracking)
  BY <1>1 DEF hashes, Cracking
<1> QED
  BY <1>1, <1>2 DEF CrackInv, OnlyPasswords, Wanted

\* Every step of the program and of its workers keeps CrackInv.
LEMMA CrackerStep ==
  ASSUME Inv, ClientNext
  PROVE  CrackInv'
<1> USE DEF Inv
<1>1. CASE ~ Cracking
  BY <1>1, CrackUnchanged DEF ClientNext, ClientMain, ClientWorker
<1>2. CASE Cracking
  <2>0. session \in Sessions
    BY <1>2 DEF CrackInv, Cracking
  <2>s. session' = session
    BY <1>2 DEF ClientNext, ClientMain, ClientWorker, CrackerMain, CrackerWorker, FormNext, AddNext,
           AllAdded, hashes_match, crackVars, mainVars
  <2>h. hashes' = hashes /\ Cracking' /\ Wanted' = Wanted
    BY <1>2, <2>s DEF hashes, Cracking, Wanted
  <2> USE <1>2
  <2>1. CASE FormNext
    <3>1. todo' = hashes /\ UNCHANGED <<added, passes, printed>>
      BY <2>1 DEF FormNext, poolVars
    <3>2. IsSeq(hashes)
      BY <2>0, HashesSeq
    <3>3. IsSeq(todo') /\ ToSet(todo') \subseteq ToSet(hashes)
      BY <3>1, <3>2
    <3> QED
      BY <2>s, <2>h, <3>1, <3>3 DEF CrackInv, OnlyPasswords
  <2>2. CASE AddNext
    <3> DEFINE pass == [password |-> password, hash |-> Head(todo)]
    <3>1. /\ todo # <<>> /\ todo' = Tail(todo) /\ passes' = Append(passes, pass)
          /\ added' = added \cup {Len(passes) + 1} /\ printed' = printed
      BY <2>2 DEF AddNext, AddWork
    <3>2. IsSeq(passes) /\ IsSeq(todo) /\ pass.hash = Head(todo)
      BY DEF CrackInv
    <3>3. IsSeq(todo') /\ ToSet(todo') \subseteq ToSet(hashes) /\ pass.hash \in ToSet(hashes)
      BY <3>1, <3>2, TailSeq DEF CrackInv
    <3> HIDE DEF pass
    <3>4. /\ IsSeq(passes') /\ Len(passes) \in Nat /\ Len(passes') = Len(passes) + 1
          /\ \A k \in 1 .. Len(passes) : passes'[k] = passes[k]
          /\ passes'[Len(passes) + 1] = pass
      BY <3>1, <3>2, AppendSeq
    <3>5. \A k \in 1 .. Len(passes') : passes'[k].hash \in ToSet(hashes)
      <4>1. \A k \in 1 .. Len(passes') : k \in 1 .. Len(passes) \/ k = Len(passes) + 1
        BY <3>4
      <4> QED
        BY <4>1, <3>3, <3>4 DEF CrackInv
    <3>6. added' \subseteq 1 .. Len(passes')
      BY <3>1, <3>4 DEF CrackInv
    <3> QED
      BY <2>s, <2>h, <3>1, <3>3, <3>4, <3>5, <3>6 DEF CrackInv, OnlyPasswords
  <2>3. CASE \E w \in Workers : hashes_match(w)
    <3>1. PICK w \in Workers : hashes_match(w)
      BY <2>3
    <3> DEFINE k == result[w]
               text == strings[passes[k].password]
    <3>2. /\ wpc[w] = "run" /\ pc[w] = "idle" /\ UNCHANGED <<added, todo, passes>>
          /\ printed' = IF Matches(k) THEN printed \cup {<<k, text>>} ELSE printed
      BY <3>1 DEF hashes_match, WorkReturns, CallDequeue, mainVars
    <3>3. k \in added
      <4>1. Working /\ w \in Threads
        BY <3>2, PoolConstants DEF IInv, Final, FinishIsClean
      <4>2. Returned[w] = k
        BY <3>2, <4>1 DEF Returned
      <4>3. Holds(w) /\ k \in Tasks
        BY <3>2, <4>1, <4>2, PoolConstants DEF Holds, Working, PoolInv, Control, WorkerControl
      <4>4. IsHeld(k)
        BY <4>2, <4>3 DEF IsHeld
      <4> QED
        BY <4>1, <4>3, <4>4 DEF Working, PoolInv, Work
    <3>4. passes[k].hash \in ToSet(hashes)
      BY <3>3 DEF CrackInv
    <3>5. Matches(k) => text \in Wanted
      <4>1. Matches(k) => <<passes[k].hash.salt, text>> = passes[k].hash.digest
        BY DEF Matches, crypt_r
      <4>2. Matches(k) => passes[k].hash.digest[2] = text
        BY <4>1
      <4> QED
        BY <4>2, <3>4 DEF Wanted
    <3> HIDE DEF k, text
    <3>6. OnlyPasswords'
      <4>1. \A p \in printed' : p \in printed \/ (Matches(k) /\ p[2] = text)
        BY <3>2
      <4> QED
        BY <4>1, <3>5, <2>h DEF CrackInv, OnlyPasswords
    <3> QED
      BY <2>s, <2>h, <3>2, <3>6 DEF CrackInv
  <2>4. CASE UNCHANGED crackVars /\ added' = added
    BY <2>4, CrackUnchanged
  <2>5. \/ FormNext \/ AddNext \/ \E w \in Workers : hashes_match(w)
        \/ UNCHANGED crackVars /\ added' = added
    BY DEF ClientNext, ClientMain, ClientWorker, CrackerMain, CrackerWorker, AllAdded, CreateWorker,
       EnqueueNull, JoinWorker, PoolFree, WorkerStart, WorkerTakes, Wakeup, Finished, poolVars, vars
  <2> QED
    BY <2>1, <2>2, <2>3, <2>4, <2>5
<1> QED
  BY <1>1, <1>2

\* Inv always holds, and the program is a client the pool allows.
LEMMA CrackerInvariance == ClientSpec => []Inv /\ AnyClient
<1>1. CrackerInit => Inv
  <2> SUFFICES ASSUME CrackerInit PROVE CrackInv
    BY PoolInit DEF CrackerInit, Inv
  <2>1. passes = <<>> /\ todo = <<>> /\ printed = {} /\ added = {} /\ session \in Sessions \cup {NoSession}
    BY DEF CrackerInit, Init
  <2>2. IsSeq(<<>>) /\ ToSet(<<>>) = {} /\ Len(<<>>) = 0
    BY DEF IsSeq, ToSet
  <2> QED
    BY <2>1, <2>2 DEF CrackInv, OnlyPasswords
<1>2. Inv /\ [ClientNext]_<<vars, crackVars>> => Inv' /\ [PoolStep]_vars
  <2>1. ASSUME Inv, ClientNext PROVE Inv' /\ [PoolStep]_vars
    BY <2>1, CrackerPoolStep, CrackerStep, PoolStepInv DEF Inv
  <2>2. ASSUME Inv, UNCHANGED <<vars, crackVars>> PROVE Inv' /\ [PoolStep]_vars
    BY <2>2, CrackUnchanged, PoolStepInv DEF Inv, vars, poolVars
  <2> QED
    BY <2>1, <2>2
<1>3. CrackerInit => Init
  BY DEF CrackerInit
<1> QED
  BY <1>1, <1>2, <1>3, PTL DEF ClientSpec, AnyClient

\* The password cracker, and the other client, get from the pool what thread_pool.h
\* and queue.h promise: no work is lost, repeated or left behind, the queue stays
\* whole and in order, and no wakeup is lost.
THEOREM CrackerPoolCorrect ==
    ClientSpec => /\ ImplementsWorkPool /\ []FinishIsClean
                  /\ ImplementsFifo /\ []ListIntact /\ []NoLostWakeup
  BY CrackerInvariance, PoolIsWorkPool, FinishLeavesNothing, PoolQueueIsFifo, PoolListIntact,
     PoolNoLostWakeup, PTL

\* hashes_match prints a string only if it is the password of a hash that main
\* read: the work it was given is one that main added, and its hash is one of those
\* before the first empty line.
THEOREM PrintsOnlyPasswords == ClientSpec => []OnlyPasswords
<1>1. Inv => OnlyPasswords
  BY DEF Inv, CrackInv
<1> QED
  BY <1>1, CrackerInvariance, PTL

==============================================================================
