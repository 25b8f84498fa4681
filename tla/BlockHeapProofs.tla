--------------------------- MODULE BlockHeapProofs ---------------------------
(***************************************************************************)
(* The heap of BlockHeap stays tiled, never has two free blocks that touch *)
(* and never disturbs a block in use, for all addresses, sizes and heap    *)
(* lengths.  The inductive invariant is the three together with the shape  *)
(* of the record; the least and greatest elements that neighbouring blocks *)
(* are come from the well-ordering of the natural numbers.                 *)
(***************************************************************************)
EXTENDS BlockHeap, WellFoundedInduction, TLAPS

Heaps == [brk : Int, bounds : SUBSET Int, used : SUBSET Int]

Good(t) == t \in Heaps /\ Tiled(t)

Apart(t) == \A c \in t.bounds : ~ Touch(t, c)

-----------------------------------------------------------------------------
(* Neighbours *)

\* A set of natural numbers that is not empty has a least element.
LEMMA LeastNat ==
    ASSUME NEW T, T \subseteq Nat, T # {}
    PROVE  \E x \in T : \A y \in T : x <= y
<1>1. PICK x \in T : \A y \in T : ~ (<<y, x>> \in OpToRel(<, Nat))
    BY WFMin, NatLessThanWellFounded
<1>2. \A y \in T : ~ (y < x)
    BY <1>1 DEF OpToRel
<1> QED
    BY <1>2

\* A block that does not end at the break has a block after it.
LEMMA HasSuccessor ==
    ASSUME NEW t, Good(t), NEW b \in t.bounds, b # t.brk
    PROVE  \E c \in t.bounds : Ends(t, b, c)
<1> DEFINE T == {c \in t.bounds : b < c}
<1>1. T \subseteq Nat /\ t.brk \in T
    BY HeapAssumption DEF Good, Tiled, Heaps
<1>2. PICK c \in T : \A d \in T : c <= d
    <2> HIDE DEF T
    <2> QED
        BY <1>1, LeastNat
<1>3. \A d \in t.bounds : d <= b \/ c <= d
    BY <1>1, <1>2, HeapAssumption DEF Good, Tiled, Heaps
<1> QED
    BY <1>3 DEF Ends

\* A block that does not start at Lo has a block before it.
LEMMA HasPredecessor ==
    ASSUME NEW t, Good(t), NEW c \in t.bounds, c # Lo
    PROVE  \E a \in t.bounds : Ends(t, a, c)
<1> DEFINE T == {t.brk - a : a \in {b \in t.bounds : b < c}}
<1>0. c \in Lo .. t.brk /\ t.bounds \subseteq Lo .. t.brk /\ Lo \in t.bounds /\ t.brk \in Int /\ Lo \in Nat
    BY HeapAssumption DEF Good, Tiled, Heaps
<1>1. T \subseteq Nat
    BY <1>0
<1>2. t.brk - Lo \in T
    BY <1>0
<1>3. PICK x \in T : \A y \in T : x <= y
    <2> HIDE DEF T
    <2> QED
        BY <1>1, <1>2, LeastNat
<1>4. PICK a \in t.bounds : a < c /\ x = t.brk - a
    BY <1>3
<1>5. ASSUME NEW d \in t.bounds, ~ (d <= a), ~ (c <= d) PROVE FALSE
    <2>1. t.brk - d \in T
        BY <1>0, <1>5
    <2>2. x <= t.brk - d
        BY <2>1, <1>3
    <2> QED
        BY <2>2, <1>0, <1>4, <1>5
<1> QED
    BY <1>4, <1>5 DEF Ends

\* Only one block ends at c.
LEMMA OnePredecessor ==
    ASSUME NEW t, t \in Heaps, NEW a, NEW b, NEW c, Ends(t, a, c), Ends(t, b, c)
    PROVE  a = b
BY DEF Ends, Heaps

-----------------------------------------------------------------------------
(* Joined *)

\* What joining changes.
LEMMA JoinedFields ==
    ASSUME NEW t \in Heaps
    PROVE  /\ Joined(t) \in Heaps
           /\ Joined(t).brk = t.brk
           /\ Joined(t).used = t.used
           /\ Joined(t).bounds = {c \in t.bounds : ~ Touch(t, c)}
BY DEF Joined, Heaps

\* Joining keeps the region tiled: its ends and the blocks in use stay.
LEMMA JoinedTiled ==
    ASSUME NEW t, Good(t)
    PROVE  Good(Joined(t))
<1>0. t \in Heaps /\ t.bounds \subseteq Lo .. t.brk
    BY DEF Good, Tiled
<1>1. ~ Touch(t, Lo)
    <2> SUFFICES ASSUME NEW a \in t.bounds, Ends(t, a, Lo) PROVE FALSE
        BY DEF Touch
    <2>1. Lo <= a /\ a < Lo /\ a \in Int /\ Lo \in Int
        BY <1>0, HeapAssumption DEF Ends, Heaps
    <2> QED
        BY <2>1
<1>2. ~ Touch(t, t.brk)
    BY <1>0, HeapAssumption DEF Touch, Ends, Heaps
<1>3. \A b \in t.used : ~ Touch(t, b)
    BY DEF Touch
<1> QED
    BY <1>0, <1>1, <1>2, <1>3, JoinedFields DEF Good, Tiled

\* Joining leaves every block in use where it was.
LEMMA JoinedStays ==
    ASSUME NEW t, Good(t), NEW b \in t.used, NEW c \in t.bounds, Ends(t, b, c)
    PROVE  Ends(Joined(t), b, c)
<1>0. t \in Heaps
    BY DEF Good
<1>1. ~ Touch(t, b)
    BY DEF Touch
<1>2. ~ Touch(t, c)
    <2> SUFFICES ASSUME Touch(t, c) PROVE FALSE
        OBVIOUS
    <2>1. PICK a \in t.bounds \ t.used : Ends(t, a, c)
        BY DEF Touch
    <2> QED
        BY <2>1, <1>0, OnePredecessor
<1> QED
    BY <1>0, <1>1, <1>2, JoinedFields DEF Ends

\* After joining, no two free blocks touch: had c a free block on either side,
\* its old left neighbour was free too, being that block or one that was joined.
LEMMA JoinedApart ==
    ASSUME NEW t, Good(t)
    PROVE  Apart(Joined(t))
<1> DEFINE j == Joined(t)
<1>0. t \in Heaps /\ Good(j)
    BY JoinedTiled DEF Good
<1> SUFFICES ASSUME NEW c \in j.bounds, Touch(j, c) PROVE FALSE
    BY DEF Apart
<1>1. PICK a \in j.bounds \ j.used : Ends(j, a, c)
    BY DEF Touch
<1>2. PICK d \in j.bounds : Ends(j, c, d)
    BY DEF Touch
<1>3. c \in t.bounds /\ c # Lo /\ c # t.brk /\ c \notin t.used /\ ~ Touch(t, c)
    <2>1. c \in t.bounds /\ ~ Touch(t, c) /\ c \notin t.used
        BY <1>0, JoinedFields DEF Touch
    <2>2. a < c /\ c < d /\ a \in Lo .. t.brk /\ d \in Lo .. t.brk
        BY <1>0, <1>1, <1>2, JoinedFields DEF Ends, Good, Tiled
    <2> QED
        BY <2>1, <2>2, <1>0, HeapAssumption DEF Heaps
<1>4. PICK p \in t.bounds : Ends(t, p, c)
    BY <1>3, HasPredecessor
<1>5. p \notin t.used
    <2>1. CASE p \in j.bounds
        <3>1. p = a
            BY <2>1, <1>0, <1>1, <1>4, JoinedFields DEF Ends, Heaps
        <3> QED
            BY <3>1, <1>0, JoinedFields
    <2>2. CASE p \notin j.bounds
        <3>1. Touch(t, p)
            BY <2>2, <1>0, JoinedFields
        <3> QED
            BY <3>1 DEF Touch
    <2> QED
        BY <2>1, <2>2
<1>6. \E e \in t.bounds : Ends(t, c, e)
    BY <1>3, HasSuccessor
<1> QED
    BY <1>3, <1>4, <1>5, <1>6 DEF Touch

-----------------------------------------------------------------------------
(* malloc and free *)

\* A block that t and u both use is the same block in both.
Stays(t, u) ==
    \A b \in t.used \cap u.used : \A c \in t.bounds : Ends(t, b, c) => Ends(u, b, c)

\* What taking a block changes.
LEMMA TakenFields ==
    ASSUME NEW t \in Heaps, NEW n \in Int, NEW p \in Fitting(t, n)
    PROVE  /\ p[1] \in t.bounds \ t.used /\ p[2] \in t.bounds
           /\ p[1] \in Int /\ p[2] \in Int
           /\ Ends(t, p[1], p[2]) /\ p[2] - p[1] >= n
           /\ Taken(t, p, n) \in Heaps
           /\ Taken(t, p, n).brk = t.brk
           /\ Taken(t, p, n).used = t.used \cup {p[1]}
           /\ \/ Taken(t, p, n).bounds = t.bounds
              \/ /\ Taken(t, p, n).bounds = t.bounds \cup {p[1] + n}
                 /\ p[2] - p[1] - n >= MinRest
<1>1. /\ p[1] \in t.bounds \ t.used /\ p[2] \in t.bounds
      /\ Ends(t, p[1], p[2]) /\ p[2] - p[1] >= n
    BY DEF Fitting
<1>2. p[1] \in Int /\ p[2] \in Int
    BY <1>1 DEF Heaps
<1>3. t.bounds \cup {p[1] + n} \subseteq Int /\ t.used \cup {p[1]} \subseteq Int
    BY <1>1, <1>2 DEF Heaps
<1>4. CASE p[2] - p[1] - n >= MinRest
    <2>1. Taken(t, p, n) = [t EXCEPT !.bounds = @ \cup {p[1] + n}, !.used = @ \cup {p[1]}]
        BY <1>4 DEF Taken
    <2> QED
        BY <1>1, <1>2, <1>3, <1>4, <2>1 DEF Heaps
<1>5. CASE ~ (p[2] - p[1] - n >= MinRest)
    <2>1. Taken(t, p, n) = [t EXCEPT !.used = @ \cup {p[1]}]
        BY <1>5 DEF Taken
    <2> QED
        BY <1>1, <1>2, <1>3, <2>1 DEF Heaps
<1> QED
    BY <1>4, <1>5

\* Using a free block, split or whole, keeps the region tiled.
LEMMA TakenGood ==
    ASSUME NEW t, Good(t), NEW n \in BlockSizes, NEW p \in Fitting(t, n)
    PROVE  Good(Taken(t, p, n))
<1> DEFINE u == Taken(t, p, n)
<1>0. t \in Heaps /\ Tiled(t) /\ n \in Int /\ n > 0 /\ n % 16 = 0 /\ MinRest > 0 /\ MinRest \in Int
    BY HeapAssumption DEF Good
<1>1. /\ p[1] \in t.bounds \ t.used /\ p[2] \in t.bounds
      /\ p[1] \in Int /\ p[2] \in Int /\ p[1] < p[2]
      /\ u \in Heaps /\ u.brk = t.brk /\ u.used = t.used \cup {p[1]}
      /\ \/ u.bounds = t.bounds
         \/ u.bounds = t.bounds \cup {p[1] + n} /\ p[2] - p[1] - n >= MinRest
    BY <1>0, TakenFields DEF Ends
<1> HIDE DEF u
<1> SUFFICES Good(u)
    BY DEF u
<1>2. p[1] \in Lo .. t.brk /\ p[2] \in Lo .. t.brk /\ Lo \in Int /\ t.brk \in Int
    BY <1>0, <1>1, HeapAssumption DEF Tiled, Heaps
<1>3. u.used \subseteq u.bounds \ {u.brk}
    BY <1>0, <1>1, <1>2 DEF Tiled
<1>4. CASE u.bounds = t.bounds
    BY <1>0, <1>1, <1>3, <1>4 DEF Good, Tiled
<1>5. CASE u.bounds = t.bounds \cup {p[1] + n} /\ p[2] - p[1] - n >= MinRest
    <2>1. p[1] + n \in Lo .. t.brk
        BY <1>0, <1>1, <1>2, <1>5
    <2>2. (p[1] + n + 8) % 16 = 0
        <3>1. (p[1] + 8) % 16 = 0
            BY <1>0, <1>1 DEF Tiled
        <3> QED
            BY <3>1, <1>0, <1>1
    <2> QED
        BY <1>0, <1>1, <1>3, <1>5, <2>1, <2>2 DEF Good, Tiled
<1> QED
    BY <1>1, <1>4, <1>5

\* The cut of a split lies inside a free block, so no block in use changes.
LEMMA TakenStays ==
    ASSUME NEW t, Good(t), NEW n \in BlockSizes, NEW p \in Fitting(t, n),
           NEW b \in t.used, NEW c \in t.bounds, Ends(t, b, c)
    PROVE  Ends(Taken(t, p, n), b, c)
<1> DEFINE u == Taken(t, p, n)
<1>0. t \in Heaps /\ n \in Int /\ n > 0 /\ MinRest > 0 /\ MinRest \in Int
    BY HeapAssumption DEF Good
<1>1. /\ p[1] \in t.bounds \ t.used /\ p[2] \in t.bounds
      /\ p[1] \in Int /\ p[2] \in Int /\ Ends(t, p[1], p[2])
      /\ \/ u.bounds = t.bounds
         \/ u.bounds = t.bounds \cup {p[1] + n} /\ p[2] - p[1] - n >= MinRest
    BY <1>0, TakenFields
<1> HIDE DEF u
<1>2. b \in t.bounds /\ b \in Int /\ c \in Int /\ b # p[1] /\ b < c
    BY <1>0, <1>1 DEF Ends, Heaps
<1>3. p[2] - p[1] - n >= MinRest => p[1] + n <= b \/ c <= p[1] + n
    BY <1>0, <1>1, <1>2 DEF Ends
<1>4. Ends(u, b, c)
    BY <1>1, <1>2, <1>3 DEF Ends
<1> QED
    BY <1>4 DEF u

\* Nor do two free blocks touch after a split that did not before: the cut has
\* the block now in use on its left.
LEMMA TakenApart ==
    ASSUME NEW t, Good(t), Apart(t), NEW n \in BlockSizes, NEW p \in Fitting(t, n)
    PROVE  Apart(Taken(t, p, n))
<1> DEFINE u == Taken(t, p, n)
<1>0. t \in Heaps /\ n \in Int /\ n > 0 /\ MinRest > 0 /\ MinRest \in Int /\ Good(u)
    BY HeapAssumption, TakenGood DEF Good
<1>1. /\ p[1] \in t.bounds \ t.used /\ p[2] \in t.bounds
      /\ p[1] \in Int /\ p[2] \in Int /\ Ends(t, p[1], p[2])
      /\ u \in Heaps /\ u.brk = t.brk /\ u.used = t.used \cup {p[1]}
      /\ \/ u.bounds = t.bounds
         \/ u.bounds = t.bounds \cup {p[1] + n} /\ p[2] - p[1] - n >= MinRest
    BY <1>0, TakenFields
<1> HIDE DEF u
<1> SUFFICES ASSUME NEW c \in u.bounds, Touch(u, c) PROVE FALSE
    BY DEF Apart, u
<1>2. PICK a \in u.bounds \ u.used : Ends(u, a, c)
    BY DEF Touch
<1>3. PICK d \in u.bounds : Ends(u, c, d)
    BY DEF Touch
<1>4. c \notin t.used /\ c \in Int /\ a \in Int /\ d \in Int /\ a < c /\ c < d /\ d <= t.brk
    BY <1>0, <1>1, <1>2, <1>3 DEF Touch, Ends, Heaps, Good, Tiled
<1>5. c \in t.bounds
    <2> SUFFICES ASSUME c \notin t.bounds PROVE FALSE
        OBVIOUS
    <2>0. c = p[1] + n /\ p[2] - p[1] - n >= MinRest
        BY <1>1
    <2>1. p[1] <= a /\ a < p[1] + n
        BY <2>0, <1>0, <1>1, <1>2, <1>4 DEF Ends
    <2>2. a \in t.bounds /\ p[1] + n < p[2]
        BY <2>0, <2>1, <1>0, <1>1, <1>2, <1>4
    <2>3. a <= p[1] \/ p[2] <= a
        BY <2>2, <1>1 DEF Ends
    <2>4. a = p[1]
        BY <2>1, <2>2, <2>3, <1>0, <1>1, <1>4
    <2> QED
        BY <2>4, <1>1
<1>6. \E e \in t.bounds : Ends(t, c, e)
    BY <1>0, <1>4, <1>5, HasSuccessor
<1>7. \E e \in t.bounds \ t.used : Ends(t, e, c)
    <2>1. CASE a \in t.bounds
        BY <2>1, <1>1, <1>2, <1>4, <1>5 DEF Ends
    <2>2. CASE a \notin t.bounds
        <3>1. a = p[1] + n /\ p[2] - p[1] - n >= MinRest
            BY <2>2, <1>1
        <3>2. c = p[2]
            BY <3>1, <1>0, <1>1, <1>2, <1>4, <1>5 DEF Ends
        <3> QED
            BY <3>2, <1>1
    <2> QED
        BY <2>1, <2>2
<1>8. Touch(t, c)
    BY <1>4, <1>6, <1>7 DEF Touch
<1> QED
    BY <1>5, <1>8 DEF Apart

\* Growing the heap puts one used block behind the old break.
LEMMA GrownGood ==
    ASSUME NEW t, Good(t), NEW n \in BlockSizes, t.brk + n <= Top
    PROVE  Good(Grown(t, n))
<1> DEFINE u == Grown(t, n)
<1>0. t \in Heaps /\ Tiled(t) /\ n \in Int /\ n > 0 /\ n % 16 = 0 /\ t.brk \in Int /\ Lo \in Int
    BY HeapAssumption DEF Good, Heaps
<1>1. /\ u.brk = t.brk + n /\ u.bounds = t.bounds \cup {t.brk + n}
      /\ u.used = t.used \cup {t.brk}
    BY DEF Grown
<1>2. u \in Heaps
    BY <1>0 DEF Grown, Heaps
<1> HIDE DEF u
<1> SUFFICES Good(u)
    BY DEF u
<1>3. t.bounds \subseteq Lo .. t.brk /\ t.brk \in t.bounds /\ Lo \in t.bounds
    BY <1>0 DEF Tiled
<1>4. u.bounds \subseteq Lo .. u.brk
    BY <1>0, <1>1, <1>3
<1>5. u.used \subseteq u.bounds \ {u.brk}
    BY <1>0, <1>1, <1>3 DEF Tiled
<1>6. (t.brk + n + 8) % 16 = 0
    <2>1. (t.brk + 8) % 16 = 0
        BY <1>0, <1>3 DEF Tiled
    <2> QED
        BY <2>1, <1>0
<1>7. \A b \in u.bounds : (b + 8) % 16 = 0
    BY <1>0, <1>1, <1>6 DEF Tiled
<1> QED
    BY <1>1, <1>2, <1>3, <1>4, <1>5, <1>7 DEF Good, Tiled

\* A block in use keeps its end when the heap grows.
LEMMA GrownStays ==
    ASSUME NEW t, Good(t), NEW n \in BlockSizes,
           NEW b \in t.used, NEW c \in t.bounds, Ends(t, b, c)
    PROVE  Ends(Grown(t, n), b, c)
<1>0. n \in Int /\ n > 0 /\ t.brk \in Int /\ c \in Int /\ c <= t.brk
    BY HeapAssumption DEF Good, Heaps, Tiled
<1>1. Grown(t, n).bounds = t.bounds \cup {t.brk + n}
    BY DEF Grown
<1> QED
    BY <1>0, <1>1 DEF Ends

\* The heap grows by a block in use, so that no two free blocks meet.
LEMMA GrownApart ==
    ASSUME NEW t, Good(t), Apart(t), NEW n \in BlockSizes, t.brk + n <= Top
    PROVE  Apart(Grown(t, n))
<1> DEFINE u == Grown(t, n)
<1>0. /\ t \in Heaps /\ n \in Int /\ n > 0 /\ t.brk \in Int
      /\ t.bounds \subseteq Lo .. t.brk /\ Lo \in Int
    BY HeapAssumption DEF Good, Heaps, Tiled
<1>1. /\ u.bounds = t.bounds \cup {t.brk + n}
      /\ u.used = t.used \cup {t.brk}
    BY DEF Grown
<1> HIDE DEF u
<1> SUFFICES ASSUME NEW c \in u.bounds, Touch(u, c) PROVE FALSE
    BY DEF Apart, u
<1>2. PICK a \in u.bounds \ u.used : Ends(u, a, c)
    BY DEF Touch
<1>3. PICK d \in u.bounds : Ends(u, c, d)
    BY DEF Touch
<1>4. c \in Int /\ a \in Int /\ d \in Int /\ a < c /\ c < d /\ d <= t.brk + n
    BY <1>0, <1>1, <1>2, <1>3 DEF Ends
<1>5. c \in t.bounds /\ a \in t.bounds /\ c \notin t.used /\ c # t.brk
    BY <1>0, <1>1, <1>4 DEF Touch
<1>6. \E e \in t.bounds : Ends(t, c, e)
    BY <1>5, HasSuccessor
<1>7. Ends(t, a, c) /\ a \notin t.used
    BY <1>1, <1>2, <1>5 DEF Ends
<1>8. Touch(t, c)
    BY <1>5, <1>6, <1>7 DEF Touch
<1> QED
    BY <1>5, <1>8 DEF Apart

\* Whatever malloc does to the heap, it leaves it tiled, with no two free blocks
\* that touch, and with every block in use where it was.
LEMMA AllocatedSafe ==
    ASSUME NEW t, Good(t), NEW n \in BlockSizes, NEW u \in Allocated(t, n)
    PROVE  Good(u) /\ Apart(u) /\ Stays(t, u) /\ t.used \subseteq u.used
<1> DEFINE j == Joined(t)
<1>1. Good(j) /\ Apart(j) /\ j.used = t.used
    BY JoinedTiled, JoinedApart, JoinedFields DEF Good
<1>2. \A b \in t.used, c \in t.bounds : Ends(t, b, c) => Ends(j, b, c)
    BY JoinedStays
<1>3. \A b, c : Ends(j, b, c) => c \in j.bounds
    BY DEF Ends
<1>4. \/ \E p \in Fitting(j, n) : u = Taken(j, p, n)
      \/ j.brk + n <= Top /\ u = Grown(j, n)
      \/ u = j
    BY DEF Allocated
<1> HIDE DEF j
<1>5. CASE \E p \in Fitting(j, n) : u = Taken(j, p, n)
    <2>1. PICK p \in Fitting(j, n) : u = Taken(j, p, n)
        BY <1>5
    <2>2. Good(u) /\ Apart(u)
        BY <2>1, <1>1, TakenGood, TakenApart
    <2>3. \A b \in j.used, c \in j.bounds : Ends(j, b, c) => Ends(u, b, c)
        BY <2>1, <1>1, TakenStays
    <2>4. j.used \subseteq u.used
        BY <2>1, <1>1, TakenFields, HeapAssumption DEF Good
    <2> QED
        BY <2>2, <2>3, <2>4, <1>1, <1>2, <1>3 DEF Stays
<1>6. CASE j.brk + n <= Top /\ u = Grown(j, n)
    <2>1. Good(u) /\ Apart(u)
        BY <1>1, <1>6, GrownGood, GrownApart
    <2>2. \A b \in j.used, c \in j.bounds : Ends(j, b, c) => Ends(u, b, c)
        BY <1>1, <1>6, GrownStays
    <2>3. j.used \subseteq u.used
        BY <1>6 DEF Grown
    <2> QED
        BY <2>1, <2>2, <2>3, <1>1, <1>2, <1>3 DEF Stays
<1>7. CASE u = j
    BY <1>1, <1>2, <1>7 DEF Stays
<1> QED
    BY <1>4, <1>5, <1>6, <1>7

\* So does free; the free blocks that touch are joined unless that is deferred.
LEMMA FreedSafe ==
    ASSUME NEW t, Good(t), NEW b \in t.used
    PROVE  Good(Freed(t, b)) /\ (~ Deferred => Apart(Freed(t, b))) /\ Stays(t, Freed(t, b))
           /\ Freed(t, b).used = t.used \ {b}
<1> DEFINE u == [t EXCEPT !.used = @ \ {b}]
<1>1. u.used = t.used \ {b} /\ u.bounds = t.bounds /\ u.brk = t.brk /\ u \in Heaps
    BY DEF Good, Heaps
<1>2. Freed(t, b) = IF Deferred THEN u ELSE Joined(u)
    BY DEF Freed
<1> HIDE DEF u
<1>3. Good(u)
    BY <1>1 DEF Good, Tiled
<1>4. \A x, c : Ends(t, x, c) => Ends(u, x, c)
    BY <1>1 DEF Ends
<1>5. CASE Deferred
    BY <1>1, <1>2, <1>3, <1>4, <1>5 DEF Stays
<1>6. CASE ~ Deferred
    <2>1. Freed(t, b) = Joined(u)
        BY <1>2, <1>6
    <2>2. Good(Joined(u)) /\ Apart(Joined(u)) /\ Joined(u).used = u.used
        BY <1>3, JoinedTiled, JoinedApart, JoinedFields DEF Good
    <2>3. \A x \in u.used, c \in u.bounds : Ends(u, x, c) => Ends(Joined(u), x, c)
        BY <1>3, JoinedStays
    <2> QED
        BY <2>1, <2>2, <2>3, <1>1, <1>4 DEF Stays
<1> QED
    BY <1>5, <1>6

-----------------------------------------------------------------------------
(* The theorems *)

IInv == Good(s) /\ (~ Deferred => Apart(s))

\* The heap that mm_init leaves is right.
LEMMA EmptySafe == Good(Empty) /\ Apart(Empty) /\ Empty.used = {}
<1>1. Empty.brk = Lo /\ Empty.bounds = {Lo} /\ Empty.used = {} /\ Empty \in Heaps
    BY HeapAssumption DEF Empty, Heaps
<1>2. (Lo + 8) % 16 = 0
    BY HeapAssumption
<1>3. ~ Ends(Empty, Lo, Lo)
    BY HeapAssumption DEF Ends
<1> QED
    BY <1>1, <1>2, <1>3, HeapAssumption DEF Good, Tiled, Apart, Touch

\* Each of mm_malloc, mm_free, mm_realloc and mm_init keeps the invariant and
\* disturbs no block that stays in use.
LEMMA NextSafe ==
    ASSUME IInv, [Next]_s
    PROVE  IInv' /\ Stays(s, s')
<1>1. CASE \E n \in BlockSizes : Malloc(n)
    BY <1>1, AllocatedSafe DEF Malloc, IInv
<1>2. CASE \E n \in BlockSizes : \E b \in s.used : Realloc(b, n)
    <2>0. PICK n \in BlockSizes, b \in s.used : Realloc(b, n)
        BY <1>2
    <2>1. PICK t \in Allocated(s, n) : s' = Freed(t, b)
        BY <2>0 DEF Realloc
    <2>2. Good(t) /\ Stays(s, t) /\ s.used \subseteq t.used
        BY AllocatedSafe DEF IInv
    <2>3. /\ Good(s') /\ (~ Deferred => Apart(s')) /\ Stays(t, s')
          /\ s'.used = t.used \ {b}
        BY <2>1, <2>2, FreedSafe
    <2>4. \A x, c : Ends(t, x, c) => c \in t.bounds
        BY DEF Ends
    <2>5. Stays(s, s')
        BY <2>2, <2>3, <2>4 DEF Stays
    <2> QED
        BY <2>3, <2>5 DEF IInv
<1>3. CASE \E b \in s.used : Free(b)
    BY <1>3, FreedSafe DEF Free, IInv
<1>4. CASE Reset
    BY <1>4, EmptySafe DEF Reset, IInv, Stays
<1>5. CASE UNCHANGED s
    BY <1>5 DEF IInv, Stays
<1> QED
    BY <1>1, <1>2, <1>3, <1>4, <1>5 DEF Next

\* IInv always holds.
LEMMA Invariant == Spec => []IInv
<1>1. Init => IInv
    BY EmptySafe DEF Init, IInv
<1>2. IInv /\ [Next]_s => IInv'
    BY NextSafe
<1> QED
    BY <1>1, <1>2, PTL DEF Spec

\* However mm_malloc, mm_free and mm_realloc are called, the blocks tile the heap
\* within its limit and every payload is aligned; with an mm_free that coalesces at
\* once, two free blocks never touch.
THEOREM HeapTiling == Spec => []Tiling
<1>1. IInv => Tiling
    BY DEF IInv, Good, Apart, Tiling
<1> QED
    BY <1>1, Invariant, PTL

\* No call moves, cuts or joins a block that stays in use.
THEOREM HeapUsedBlocksStay == Spec => UsedBlocksStay
<1>1. IInv /\ [Next]_s =>
        [\A b \in s.used \cap s'.used : \A c \in s.bounds :
            Ends(s, b, c) => Ends(s', b, c)]_s
    BY NextSafe DEF Stays
<1> QED
    BY <1>1, Invariant, PTL DEF Spec, UsedBlocksStay

==============================================================================
