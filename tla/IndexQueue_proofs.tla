-------------------------- MODULE IndexQueue_proofs --------------------------
(* Lemmas about the operators of IndexQueue and IndexRequests: what           *)
(* re-arranging a queue by a strict total order keeps, what scheduling does   *)
(* to the pending tasks, that draining loses nothing, that no two ready tasks *)
(* come to share a slot, and what callers and results ask for.                *)
EXTENDS IndexRequests, FiniteSetTheorems, SequenceTheorems, TLAPS

(* R orders the positions in I: irreflexive, transitive and total. *)
TotalOrder(I, R) ==
  /\ \A i \in I : <<i, i>> \notin R
  /\ \A i, j, k \in I : <<i, j>> \in R /\ <<j, k>> \in R => <<i, k>> \in R
  /\ \A i, j \in I : i # j => <<i, j>> \in R \/ <<j, i>> \in R

-----------------------------------------------------------------------------
(* Ranks.                                                                    *)

(* The rank of a position lies between 1 and the number of positions. *)
LEMMA RankRange ==
  ASSUME NEW I, IsFiniteSet(I), NEW R, TotalOrder(I, R), NEW i \in I
  PROVE  Rank(I, R, i) \in 1..Cardinality(I)
<1> DEFINE B == {j \in I : <<j, i>> \in R}
<1>1. B \in SUBSET (I \ {i})
  BY DEF TotalOrder
<1>2. Rank(I, R, i) = Cardinality(B) + 1
  BY DEF Rank
<1> HIDE DEF B
<1>3. IsFiniteSet(I \ {i}) /\ Cardinality(I \ {i}) = Cardinality(I) - 1
  BY FS_RemoveElement
<1>4. IsFiniteSet(B) /\ Cardinality(B) <= Cardinality(I) - 1
  BY <1>1, <1>3, FS_Subset
<1>5. Cardinality(B) \in Nat /\ Cardinality(I) \in Nat
  BY <1>4, FS_CardinalityType
<1>6. QED
  BY <1>2, <1>4, <1>5

(* Of two positions the earlier has the smaller rank. *)
LEMMA RankMonotone ==
  ASSUME NEW I, IsFiniteSet(I), NEW R, TotalOrder(I, R),
         NEW i \in I, NEW j \in I, <<i, j>> \in R
  PROVE  Rank(I, R, i) < Rank(I, R, j)
<1> DEFINE Bi == {k \in I : <<k, i>> \in R}
           Bj == {k \in I : <<k, j>> \in R}
<1>1. Bi \in SUBSET (Bj \ {i}) /\ Bj \in SUBSET I /\ i \in Bj
  BY DEF TotalOrder
<1>2. Rank(I, R, i) = Cardinality(Bi) + 1 /\ Rank(I, R, j) = Cardinality(Bj) + 1
  BY DEF Rank
<1> HIDE DEF Bi, Bj
<1>3. IsFiniteSet(Bj)
  BY <1>1, FS_Subset
<1>4. IsFiniteSet(Bj \ {i}) /\ Cardinality(Bj \ {i}) = Cardinality(Bj) - 1
  BY <1>1, <1>3, FS_RemoveElement
<1>5. IsFiniteSet(Bi) /\ Cardinality(Bi) <= Cardinality(Bj) - 1
  BY <1>1, <1>4, FS_Subset
<1>6. Cardinality(Bi) \in Nat /\ Cardinality(Bj) \in Nat
  BY <1>3, <1>5, FS_CardinalityType
<1>7. QED
  BY <1>2, <1>5, <1>6

(* Every number up to the number of positions is the rank of one of them. *)
LEMMA RankOnto ==
  ASSUME NEW I, IsFiniteSet(I), NEW R, TotalOrder(I, R), NEW k \in 1..Cardinality(I)
  PROVE  \E i \in I : Rank(I, R, i) = k
<1> DEFINE f == [i \in I |-> Rank(I, R, i)]
           N == 1..Cardinality(I)
<1>1. Cardinality(I) \in Nat
  BY FS_CardinalityType
<1>2. IsFiniteSet(N) /\ Cardinality(N) = Cardinality(I)
  BY <1>1, FS_Interval
<1>3. f \in [I -> N]
  BY RankRange
<1>4. \A i, j \in I : f[i] = f[j] => i = j
  <2> SUFFICES ASSUME NEW i \in I, NEW j \in I, i # j
               PROVE  Rank(I, R, i) # Rank(I, R, j)
    OBVIOUS
  <2>1. Rank(I, R, i) \in Nat /\ Rank(I, R, j) \in Nat
    BY RankRange, <1>1
  <2>2. CASE <<i, j>> \in R
    BY <2>1, <2>2, RankMonotone
  <2>3. CASE <<j, i>> \in R
    BY <2>1, <2>3, RankMonotone
  <2>4. QED
    BY <2>2, <2>3 DEF TotalOrder
<1>5. f \in Injection(I, N)
  BY <1>3, <1>4 DEF Injection, IsInjective
<1>6. f \in Surjection(I, N)
  BY <1>2, <1>5, FS_Injection
<1>7. QED
  BY <1>6 DEF Surjection

(* At inverts Rank. *)
LEMMA AtRank ==
  ASSUME NEW I, IsFiniteSet(I), NEW R, TotalOrder(I, R)
  PROVE  /\ \A k \in 1..Cardinality(I) : At(I, R, k) \in I /\ Rank(I, R, At(I, R, k)) = k
         /\ \A i \in I : At(I, R, Rank(I, R, i)) = i
<1>1. \A k \in 1..Cardinality(I) : At(I, R, k) \in I /\ Rank(I, R, At(I, R, k)) = k
  BY RankOnto DEF At
<1>2. ASSUME NEW i \in I
      PROVE  At(I, R, Rank(I, R, i)) = i
  <2> DEFINE a == At(I, R, Rank(I, R, i))
  <2>1. Rank(I, R, i) \in 1..Cardinality(I)
    BY RankRange
  <2>2. a \in I /\ Rank(I, R, a) = Rank(I, R, i)
    BY <1>1, <2>1
  <2>3. Rank(I, R, i) \in Int
    BY <2>1
  <2>4. ~(<<a, i>> \in R) /\ ~(<<i, a>> \in R)
    BY <2>2, <2>3, RankMonotone
  <2>5. QED
    BY <2>2, <2>4 DEF TotalOrder
<1>3. QED
  BY <1>1, <1>2

-----------------------------------------------------------------------------
(* Arrangements.                                                             *)

ValuesAt(s, I) == {s[i] : i \in I}
Elements(s)    == ValuesAt(s, DOMAIN s)

(* Re-arranging the positions I of a sequence of T's gives a sequence of T's  *)
(* of the same number of elements, the elements at the positions in I.        *)
LEMMA ArrangeProperties ==
  ASSUME NEW T, NEW s \in Seq(T), NEW I \in SUBSET DOMAIN s, NEW R, TotalOrder(I, R)
  PROVE  /\ Arrange(s, I, R) \in Seq(T)
         /\ Len(Arrange(s, I, R)) = Cardinality(I)
         /\ Elements(Arrange(s, I, R)) = ValuesAt(s, I)
<1> DEFINE a == Arrange(s, I, R)
           n == Cardinality(I)
<1>0. DOMAIN s = 1..Len(s) /\ Len(s) \in Nat
  BY LenProperties
<1>1. IsFiniteSet(I) /\ n \in Nat
  <2>1. IsFiniteSet(DOMAIN s)
    BY <1>0, FS_Interval
  <2>2. IsFiniteSet(I)
    BY <2>1, FS_Subset
  <2>3. QED
    BY <2>2, FS_CardinalityType
<1>2. a = [k \in 1..n |-> s[At(I, R, k)]]
  BY DEF Arrange
<1>3. \A k \in 1..n : At(I, R, k) \in I /\ s[At(I, R, k)] \in T
  BY <1>1, AtRank, ElementOfSeq, LenProperties
<1>4. a \in [1..n -> T]
  BY <1>2, <1>3
<1>5. a \in Seq(T) /\ Len(a) = n /\ DOMAIN a = 1..n
  BY <1>1, <1>4, SeqDef, LenProperties
<1>6. \A k \in 1..n : \E i \in I : a[k] = s[i]
  BY <1>2, <1>3
<1>7. \A i \in I : \E k \in 1..n : a[k] = s[i]
  <2> SUFFICES ASSUME NEW i \in I
               PROVE  \E k \in 1..n : a[k] = s[i]
    OBVIOUS
  <2>1. Rank(I, R, i) \in 1..n
    BY <1>1, RankRange
  <2>2. At(I, R, Rank(I, R, i)) = i
    BY <1>1, AtRank
  <2>3. QED
    BY <1>2, <2>1, <2>2
<1>8. /\ \A k \in DOMAIN a : \E i \in I : a[k] = s[i]
      /\ \A i \in I : \E k \in DOMAIN a : a[k] = s[i]
  BY <1>5, <1>6, <1>7
<1> HIDE DEF a, n
<1>9. Elements(a) = ValuesAt(s, I)
  BY <1>8 DEF Elements, ValuesAt
<1>10. QED
  BY <1>5, <1>9 DEF a, n

(* A concatenation holds the elements of its two parts. *)
LEMMA ConcatElements ==
  ASSUME NEW T, NEW s \in Seq(T), NEW t \in Seq(T)
  PROVE  s \o t \in Seq(T) /\ Elements(s \o t) = Elements(s) \cup Elements(t)
<1> DEFINE c == s \o t
<1>1. /\ DOMAIN s = 1..Len(s) /\ Len(s) \in Nat
      /\ DOMAIN t = 1..Len(t) /\ Len(t) \in Nat
  BY LenProperties
<1>2. c \in Seq(T) /\ Len(c) = Len(s) + Len(t)
  BY ConcatProperties
<1>3. DOMAIN c = 1..(Len(s) + Len(t))
  BY <1>2, LenProperties
<1>4. \A i \in 1..(Len(s) + Len(t)) :
         c[i] = IF i <= Len(s) THEN s[i] ELSE t[i - Len(s)]
  BY ConcatProperties
<1> HIDE DEF c
<1>5. \A i \in DOMAIN s : i \in DOMAIN c /\ c[i] = s[i]
  BY <1>1, <1>3, <1>4
<1>6. ASSUME NEW i \in DOMAIN t
      PROVE  Len(s) + i \in DOMAIN c /\ c[Len(s) + i] = t[i]
  <2>1. i \in Int /\ 1 <= i /\ i <= Len(t)
    BY <1>1
  <2>2. Len(s) + i \in 1..(Len(s) + Len(t)) /\ ~(Len(s) + i <= Len(s))
    BY <1>1, <2>1
  <2>3. (Len(s) + i) - Len(s) = i
    BY <1>1, <2>1
  <2>4. QED
    BY <1>3, <1>4, <2>2, <2>3
<1>7. \A i \in DOMAIN c : \/ i \in DOMAIN s /\ c[i] = s[i]
                          \/ i - Len(s) \in DOMAIN t /\ c[i] = t[i - Len(s)]
  BY <1>1, <1>3, <1>4
<1>8. Elements(c) \subseteq Elements(s) \cup Elements(t)
  BY <1>7 DEF Elements, ValuesAt
<1>9. Elements(s) \subseteq Elements(c)
  BY <1>5 DEF Elements, ValuesAt
<1>10. Elements(t) \subseteq Elements(c)
  BY <1>6 DEF Elements, ValuesAt
<1>11. QED
  BY <1>2, <1>8, <1>9, <1>10 DEF c

(* Keep is a subsequence: it holds the elements at the kept positions, no others. *)
LEMMA KeepProperties ==
  ASSUME NEW T, NEW s \in Seq(T), NEW I \in SUBSET DOMAIN s
  PROVE  /\ Keep(s, I) \in Seq(T)
         /\ Elements(Keep(s, I)) = ValuesAt(s, I)
<1> DEFINE R == {p \in I \X I : p[1] < p[2]}
<1>1. DOMAIN s = 1..Len(s) /\ Len(s) \in Nat
  BY LenProperties
<1>2. TotalOrder(I, R)
  BY <1>1 DEF TotalOrder
<1>3. Keep(s, I) = Arrange(s, I, R)
  BY DEF Keep
<1> HIDE DEF R
<1>4. QED
  BY <1>2, <1>3, ArrangeProperties

(* sort_by orders the positions of a queue totally: no two tie. *)
LEMMA PriorityOrder ==
  ASSUME NEW q \in Seq(Tasks)
  PROVE  TotalOrder(DOMAIN q, {p \in (DOMAIN q) \X (DOMAIN q) : Precedes(q, p[1], p[2])})
<1> DEFINE D == DOMAIN q
           R == {p \in D \X D : Precedes(q, p[1], p[2])}
<1>1. D = 1..Len(q) /\ Len(q) \in Nat
  BY LenProperties
<1>2. \A i \in D : q[i].priority \in Int /\ q[i].generation \in Int
  <2> SUFFICES ASSUME NEW i \in D
               PROVE  q[i].priority \in Int /\ q[i].generation \in Int
    OBVIOUS
  <2>1. q[i] \in Tasks
    BY <1>1, ElementOfSeq
  <2>2. QED
    BY <2>1 DEF Tasks, Priorities, Background, ForegroundNavigation
<1>3. \A i \in D : ~Precedes(q, i, i)
  BY <1>1, <1>2 DEF Precedes
<1>4. \A i, j, k \in D : Precedes(q, i, j) /\ Precedes(q, j, k) => Precedes(q, i, k)
  BY <1>1, <1>2 DEF Precedes
<1>5. \A i, j \in D : i # j => Precedes(q, i, j) \/ Precedes(q, j, i)
  BY <1>1, <1>2 DEF Precedes
<1>6. \A i, j \in D : <<i, j>> \in R <=> Precedes(q, i, j)
  OBVIOUS
<1> HIDE DEF R
<1>7. TotalOrder(D, R)
  BY <1>3, <1>4, <1>5, <1>6 DEF TotalOrder
<1>8. QED
  BY <1>7 DEF R

(* Sorting a queue keeps its length and its tasks. *)
LEMMA ByPriorityProperties ==
  ASSUME NEW q \in Seq(Tasks)
  PROVE  /\ ByPriority(q) \in Seq(Tasks)
         /\ Len(ByPriority(q)) = Len(q)
         /\ Elements(ByPriority(q)) = Elements(q)
<1> DEFINE D == DOMAIN q
           R == {p \in D \X D : Precedes(q, p[1], p[2])}
<1>1. D = 1..Len(q) /\ Len(q) \in Nat
  BY LenProperties
<1>2. TotalOrder(D, R)
  BY PriorityOrder
<1>3. ByPriority(q) = Arrange(q, D, R)
  BY DEF ByPriority
<1>4. Cardinality(D) = Len(q)
  BY <1>1, FS_Interval
<1> HIDE DEF R
<1>5. QED
  BY <1>2, <1>3, <1>4, ArrangeProperties DEF Elements

-----------------------------------------------------------------------------
(* Draining.                                                                 *)

(* Promoting the due retries moves tasks between the two queues, no more. *)
LEMMA PromoteProperties ==
  ASSUME NEW s \in Schedulers
  PROVE  /\ PromoteReadyDelayedTasks(s) \in Schedulers
         /\ PromoteReadyDelayedTasks(s).generation = s.generation
         /\ PromoteReadyDelayedTasks(s).burst = s.burst
         /\ PendingTasks(PromoteReadyDelayedTasks(s)) = PendingTasks(s)
<1> DEFINE due  == Keep(s.delayed, DueAt(s))
           rest == Keep(s.delayed, DOMAIN s.delayed \ DueAt(s))
           p    == PromoteReadyDelayedTasks(s)
<1>1. s.tasks \in Seq(Tasks) /\ s.delayed \in Seq(Delayed)
  BY DEF Schedulers
<1>2. DueAt(s) \in SUBSET DOMAIN s.delayed
  BY DEF DueAt
<1>3. due \in Seq(Delayed) /\ Elements(due) = ValuesAt(s.delayed, DueAt(s))
  BY <1>1, <1>2, KeepProperties
<1>4. rest \in Seq(Delayed) /\ Elements(rest) = ValuesAt(s.delayed, DOMAIN s.delayed \ DueAt(s))
  BY <1>1, <1>2, KeepProperties
<1>5. p = [s EXCEPT !.tasks = s.tasks \o TaskOf(due), !.delayed = rest]
  BY <1>1 DEF PromoteReadyDelayedTasks, Schedulers
<1> HIDE DEF due, rest, p
<1>6. /\ TaskOf(due) \in Seq(Tasks)
      /\ Len(TaskOf(due)) = Len(due)
      /\ \A i \in 1..Len(due) : TaskOf(due)[i] = due[i].task
  <2>1. DOMAIN due = 1..Len(due) /\ Len(due) \in Nat
    BY <1>3, LenProperties
  <2>a. \A i \in 1..Len(due) : due[i] \in Delayed
    BY <1>3, <2>1, ElementOfSeq
  <2>2. \A i \in 1..Len(due) : due[i].task \in Tasks
    BY <2>a DEF Delayed
  <2>3. TaskOf(due) \in [1..Len(due) -> Tasks]
    BY <2>1, <2>2 DEF TaskOf
  <2>4. TaskOf(due) \in Seq(Tasks)
    BY <2>1, <2>3, SeqDef
  <2>5. QED
    BY <2>1, <2>3, <2>4, LenProperties DEF TaskOf
<1>7. /\ s.tasks \o TaskOf(due) \in Seq(Tasks)
      /\ Elements(s.tasks \o TaskOf(due)) = Elements(s.tasks) \cup Elements(TaskOf(due))
  BY <1>1, <1>6, ConcatElements
<1>8. /\ p \in Schedulers
      /\ p.generation = s.generation /\ p.burst = s.burst
      /\ p.tasks = s.tasks \o TaskOf(due) /\ p.delayed = rest
  BY <1>4, <1>5, <1>7 DEF Schedulers
<1>9. Elements(TaskOf(due)) = {s.delayed[i].task : i \in DueAt(s)}
  <2>1. DOMAIN due = 1..Len(due) /\ DOMAIN TaskOf(due) = 1..Len(due)
    BY <1>3, <1>6, LenProperties
  <2>2. Elements(TaskOf(due)) = {d.task : d \in Elements(due)}
    BY <1>6, <2>1 DEF Elements, ValuesAt
  <2>3. QED
    BY <1>3, <2>2 DEF ValuesAt
<1>10. {rest[i].task : i \in DOMAIN rest} = {s.delayed[i].task : i \in DOMAIN s.delayed \ DueAt(s)}
  <2>1. {rest[i].task : i \in DOMAIN rest} = {d.task : d \in Elements(rest)}
    BY DEF Elements, ValuesAt
  <2>2. QED
    BY <1>4, <2>1 DEF ValuesAt
<1>11. PendingTasks(p) = Elements(p.tasks) \cup {rest[i].task : i \in DOMAIN rest}
  BY <1>8 DEF PendingTasks, Elements, ValuesAt
<1>12. PendingTasks(s) = Elements(s.tasks) \cup {s.delayed[i].task : i \in DOMAIN s.delayed}
  BY DEF PendingTasks, Elements, ValuesAt
<1>13. PendingTasks(p) = PendingTasks(s)
  <2>1. {s.delayed[i].task : i \in DOMAIN s.delayed}
        = {s.delayed[i].task : i \in DueAt(s)} \cup {s.delayed[i].task : i \in DOMAIN s.delayed \ DueAt(s)}
    BY <1>2
  <2>2. Elements(p.tasks) = Elements(s.tasks) \cup {s.delayed[i].task : i \in DueAt(s)}
    BY <1>7, <1>8, <1>9
  <2>3. QED
    BY <1>10, <1>11, <1>12, <2>1, <2>2
<1>14. QED
  BY <1>8, <1>13 DEF p

(* The least of a non-empty set of positions is one of them. *)
LEMMA FirstProperties ==
  ASSUME NEW n \in Nat, NEW I \in SUBSET (1..n), I # {}
  PROVE  First(I) \in I /\ \A j \in I : First(I) <= j
<1> DEFINE R == {p \in I \X I : p[1] < p[2]}
<1>1. IsFiniteSet(I)
  <2>1. IsFiniteSet(1..n)
    BY FS_Interval
  <2>2. QED
    BY <2>1, FS_Subset
<1>2. TotalOrder(I, R)
  BY DEF TotalOrder
<1>3. Cardinality(I) \in Nat /\ Cardinality(I) # 0
  BY <1>1, FS_CardinalityType, FS_EmptySet
<1>4. \E i \in I : Rank(I, R, i) = 1
  <2>1. 1 \in 1..Cardinality(I)
    BY <1>3
  <2> HIDE DEF R
  <2>2. QED
    BY <1>1, <1>2, <2>1, RankOnto
<1>. PICK i \in I : Rank(I, R, i) = 1
  BY <1>4
<1>5. \A j \in I : i <= j
  <2> DEFINE B == {j \in I : <<j, i>> \in R}
  <2>1. Cardinality(B) + 1 = 1
    BY DEF Rank
  <2>2. IsFiniteSet(B)
    BY <1>1, FS_Subset
  <2>3. Cardinality(B) \in Nat
    BY <2>2, FS_CardinalityType
  <2>4. Cardinality(B) = 0
    BY <2>1, <2>3
  <2>5. B = {}
    BY <2>2, <2>4, FS_EmptySet
  <2>6. \A j \in I : ~(j < i)
    BY <2>5
  <2>7. QED
    BY <2>6
<1>6. QED
  BY <1>5 DEF First

(* A non-empty set of positions has a last one. *)
LEMMA LastProperties ==
  ASSUME NEW n \in Nat, NEW I \in SUBSET (1..n), I # {}
  PROVE  \E i \in I : \A j \in I : j <= i
<1> DEFINE J == {n + 1 - i : i \in I}
<1>1. J \in SUBSET (1..n) /\ J # {}
  <2>1. \A i \in I : n + 1 - i \in 1..n
    OBVIOUS
  <2>2. QED
    BY <2>1
<1>2. \A i \in I : n + 1 - i \in J
  OBVIOUS
<1>3. \A k \in J : \E i \in I : k = n + 1 - i
  OBVIOUS
<1> HIDE DEF J
<1>4. First(J) \in J /\ \A k \in J : First(J) <= k
  BY <1>1, FirstProperties
<1>5. PICK i \in I : First(J) = n + 1 - i
  BY <1>3, <1>4
<1>6. \A j \in I : n + 1 - i <= n + 1 - j
  BY <1>2, <1>4, <1>5
<1>7. QED
  BY <1>6

(* Swapping two tasks of a queue keeps its tasks. *)
LEMMA SwappedProperties ==
  ASSUME NEW T, NEW q \in Seq(T), NEW i \in DOMAIN q, NEW j \in DOMAIN q
  PROVE  /\ Swapped(q, i, j) \in Seq(T)
         /\ Len(Swapped(q, i, j)) = Len(q)
         /\ Elements(Swapped(q, i, j)) = Elements(q)
         /\ Swapped(q, i, j)[i] = q[j]
<1> DEFINE w == Swapped(q, i, j)
<1>1. DOMAIN q = 1..Len(q) /\ Len(q) \in Nat
  BY LenProperties
<1>2. \A k \in DOMAIN q : q[k] \in T
  BY <1>1, ElementOfSeq
<1>3. /\ DOMAIN w = DOMAIN q
      /\ \A k \in DOMAIN q : w[k] = IF k = i THEN q[j] ELSE IF k = j THEN q[i] ELSE q[k]
  BY DEF Swapped
<1>4. w \in [DOMAIN q -> T]
  BY <1>2 DEF Swapped
<1>5. w \in Seq(T) /\ Len(w) = Len(q)
  <2>1. w \in [1..Len(q) -> T]
    BY <1>1, <1>4
  <2>2. w \in Seq(T)
    BY <1>1, <2>1, SeqDef
  <2>3. QED
    BY <1>1, <1>3, <2>2, LenProperties
<1>6. w[i] = q[j]
  BY <1>3
<1> HIDE DEF w
<1>7. Elements(w) \subseteq Elements(q)
  BY <1>3 DEF Elements, ValuesAt
<1>8. Elements(q) \subseteq Elements(w)
  <2> SUFFICES ASSUME NEW k \in DOMAIN q
               PROVE  \E m \in DOMAIN w : w[m] = q[k]
    BY DEF Elements, ValuesAt
  <2>1. CASE k = i
    BY <1>3, <2>1
  <2>2. CASE k = j
    BY <1>3, <2>2
  <2>3. CASE k # i /\ k # j
    BY <1>3, <2>3
  <2>4. QED
    BY <2>1, <2>2, <2>3
<1>9. QED
  BY <1>5, <1>6, <1>7, <1>8 DEF w

(* Splitting a queue loses nothing. *)
LEMMA SplitProperties ==
  ASSUME NEW T, NEW q \in Seq(T), NEW m \in 0..Len(q)
  PROVE  /\ SubSeq(q, 1, m) \in Seq(T) /\ Len(SubSeq(q, 1, m)) = m
         /\ SubSeq(q, m + 1, Len(q)) \in Seq(T)
         /\ \A k \in 1..m : SubSeq(q, 1, m)[k] = q[k]
         /\ Elements(SubSeq(q, 1, m)) \cup Elements(SubSeq(q, m + 1, Len(q))) = Elements(q)
<1> DEFINE a == SubSeq(q, 1, m)
           b == SubSeq(q, m + 1, Len(q))
<1>1. DOMAIN q = 1..Len(q) /\ Len(q) \in Nat /\ m \in Nat /\ m <= Len(q)
  BY LenProperties
<1>2. \A i \in 1..Len(q) : q[i] \in T
  BY <1>1, ElementOfSeq
<1>3. a \in Seq(T) /\ Len(a) = m /\ \A k \in 1..m : a[k] = q[k]
  <2>1. \A i \in 1..m : q[i] \in T
    BY <1>1, <1>2
  <2>2. /\ a \in Seq(T)
        /\ Len(a) = IF 1 <= m THEN m - 1 + 1 ELSE 0
        /\ \A i \in 1..(m - 1 + 1) : a[i] = q[1 + i - 1]
    BY <1>1, <2>1, SubSeqProperties
  <2>3. QED
    BY <1>1, <2>2
<1>4. b \in Seq(T)
  <2>1. \A i \in (m + 1)..Len(q) : q[i] \in T
    BY <1>1, <1>2
  <2>2. m + 1 \in Int /\ Len(q) \in Int
    BY <1>1
  <2>3. QED
    BY <2>1, <2>2, SubSeqProperties
<1>5. a \o b = q
  <2>1. 1 \in 1..(Len(q) + 1) /\ m \in (1 - 1)..Len(q) /\ Len(q) \in m..Len(q)
    BY <1>1
  <2>2. a \o b = SubSeq(q, 1, Len(q))
    BY <2>1, ConcatAdjacentSubSeq
  <2>3. QED
    BY <2>2, SubSeqFull
<1> HIDE DEF a, b
<1>6. Elements(a) \cup Elements(b) = Elements(q)
  BY <1>3, <1>4, <1>5, ConcatElements
<1>7. QED
  BY <1>3, <1>4, <1>6 DEF a, b

(* The background turn only re-orders the queue; and once the burst is at its *)
(* limit and a background task is ready, the head is one or is no foreground  *)
(* task.                                                                      *)
LEMMA BackgroundTurnProperties ==
  ASSUME NEW q \in Seq(Tasks), NEW burst \in Nat
  PROVE  LET w == PromoteBackgroundTurn(q, burst)
         IN  /\ w \in Seq(Tasks)
             /\ Len(w) = Len(q)
             /\ Elements(w) = Elements(q)
             /\ (/\ burst >= ForegroundBurstLimit
                 /\ q # <<>>
                 /\ \E t \in Elements(q) : IsBackgroundTurn(t.priority))
                => ~IsForegroundBurst(w[1].priority) \/ IsBackgroundTurn(w[1].priority)
<1> DEFINE turns == {i \in DOMAIN q : IsBackgroundTurn(q[i].priority)}
           w     == PromoteBackgroundTurn(q, burst)
           cond  == /\ burst >= ForegroundBurstLimit
                    /\ q # <<>>
                    /\ IsForegroundBurst(q[1].priority)
                    /\ turns # {}
<1>1. DOMAIN q = 1..Len(q) /\ Len(q) \in Nat
  BY LenProperties
<1>2. w = IF cond THEN Swapped(q, 1, First(turns)) ELSE q
  BY DEF PromoteBackgroundTurn
<1>3. turns \in SUBSET (1..Len(q)) /\ \A i \in turns : IsBackgroundTurn(q[i].priority)
  BY <1>1
<1>4. (\E t \in Elements(q) : IsBackgroundTurn(t.priority)) => turns # {}
  BY DEF Elements, ValuesAt
<1> HIDE DEF turns, w
<1>5. CASE cond
  <2>1. First(turns) \in DOMAIN q /\ IsBackgroundTurn(q[First(turns)].priority)
    BY <1>1, <1>3, <1>5, FirstProperties
  <2>2. 1 \in DOMAIN q
    BY <1>1, <2>1
  <2>3. /\ w \in Seq(Tasks) /\ Len(w) = Len(q) /\ Elements(w) = Elements(q)
        /\ w[1] = q[First(turns)]
    BY <1>2, <1>5, <2>1, <2>2, SwappedProperties
  <2>4. QED
    BY <2>1, <2>3 DEF w
<1>6. CASE ~cond
  <2>1. w = q
    BY <1>2, <1>6
  <2>2. QED
    BY <1>4, <1>6, <2>1 DEF w
<1>7. QED
  BY <1>5, <1>6

(* A drain takes a prefix of the dispatch order and leaves the rest: every    *)
(* pending task is in the batch or still pending, none is added, the counter  *)
(* stays.                                                                     *)
LEMMA DrainProperties ==
  ASSUME NEW s \in Schedulers, NEW n \in Nat \ {0}
  PROVE  LET d == DrainReadyBatch(s, n)
         IN  /\ DispatchOrder(s) \in Seq(Tasks)
             /\ d.batch \in Seq(Tasks)
             /\ d.scheduler \in Schedulers
             /\ d.scheduler.generation = s.generation
             /\ d.scheduler.burst = RecordDispatch(s.burst, d.batch)
             /\ Elements(d.batch) \cup PendingTasks(d.scheduler) = PendingTasks(s)
             /\ DispatchOrder(s) # <<>> => /\ d.batch # <<>>
                                          /\ d.batch[1] = DispatchOrder(s)[1]
<1> DEFINE p     == PromoteReadyDelayedTasks(s)
           q     == DispatchOrder(s)
           limit == BatchLimit(q, n)
           d     == DrainReadyBatch(s, n)
           batch == SubSeq(q, 1, limit)
           rest  == SubSeq(q, limit + 1, Len(q))
           after == d.scheduler
<1>1. p \in Schedulers /\ p.generation = s.generation /\ p.burst = s.burst
      /\ PendingTasks(p) = PendingTasks(s)
  BY PromoteProperties
<1>2. p.tasks \in Seq(Tasks) /\ p.delayed \in Seq(Delayed) /\ s.burst \in Nat
  BY <1>1 DEF Schedulers
<1>3. /\ q \in Seq(Tasks)
      /\ Elements(q) = Elements(p.tasks)
  <2>1. ByPriority(p.tasks) \in Seq(Tasks) /\ Elements(ByPriority(p.tasks)) = Elements(p.tasks)
    BY <1>2, ByPriorityProperties
  <2>2. q = PromoteBackgroundTurn(ByPriority(p.tasks), s.burst)
    BY DEF DispatchOrder
  <2> HIDE DEF p, q
  <2>3. QED
    BY <1>2, <2>1, <2>2, BackgroundTurnProperties
<1>4. Len(q) \in Nat /\ DOMAIN q = 1..Len(q)
  BY <1>3, LenProperties
<1>5. d.batch = batch /\ after = [p EXCEPT !.tasks = rest, !.burst = RecordDispatch(p.burst, batch)]
  BY DEF DrainReadyBatch
<1> HIDE DEF p, q, d
<1>6. limit \in 0..Len(q) /\ (Len(q) # 0 => limit >= 1)
  BY <1>4 DEF BatchLimit, Smaller
<1> HIDE DEF limit
<1>7. /\ batch \in Seq(Tasks) /\ Len(batch) = limit
      /\ rest \in Seq(Tasks)
      /\ \A k \in 1..limit : batch[k] = q[k]
      /\ Elements(batch) \cup Elements(rest) = Elements(q)
  BY <1>3, <1>6, SplitProperties
<1> HIDE DEF batch, rest
<1>8. RecordDispatch(p.burst, batch) \in Nat
  BY <1>1, <1>2, BurstAssumption DEF RecordDispatch, Smaller
<1>9. /\ after \in Schedulers
      /\ after.generation = s.generation
      /\ after.burst = RecordDispatch(s.burst, batch)
      /\ after.tasks = rest /\ after.delayed = p.delayed
  BY <1>1, <1>5, <1>7, <1>8 DEF Schedulers
<1>10. Elements(batch) \cup PendingTasks(after) = PendingTasks(s)
  <2> DEFINE late == {p.delayed[i].task : i \in DOMAIN p.delayed}
  <2>1. PendingTasks(after) = Elements(rest) \cup late
    BY <1>9 DEF PendingTasks, Elements, ValuesAt
  <2>2. PendingTasks(p) = Elements(p.tasks) \cup late
    BY DEF PendingTasks, Elements, ValuesAt
  <2> HIDE DEF late
  <2>3. QED
    BY <1>1, <1>3, <1>7, <2>1, <2>2
<1>11. q # <<>> => batch # <<>> /\ batch[1] = q[1]
  <2> SUFFICES ASSUME q # <<>>
               PROVE  batch # <<>> /\ batch[1] = q[1]
    OBVIOUS
  <2>1. Len(q) # 0
    BY <1>3, EmptySeq
  <2>2. 1 \in 1..limit
    BY <1>4, <1>6, <2>1
  <2>3. QED
    BY <1>7, <2>2, EmptySeq
<1>12. QED
  BY <1>3, <1>5, <1>7, <1>9, <1>10, <1>11 DEF q, d

(* With the burst at its limit and a background task ready, the task a drain  *)
(* dispatches first is one, or is no foreground task.                         *)
LEMMA DispatchHead ==
  ASSUME NEW s \in Schedulers, s.burst >= ForegroundBurstLimit,
         DispatchOrder(s) # <<>>,
         \E t \in Elements(DispatchOrder(s)) : IsBackgroundTurn(t.priority)
  PROVE  \/ ~IsForegroundBurst(DispatchOrder(s)[1].priority)
         \/ IsBackgroundTurn(DispatchOrder(s)[1].priority)
<1> DEFINE p == PromoteReadyDelayedTasks(s)
           o == ByPriority(p.tasks)
<1>1. p.tasks \in Seq(Tasks) /\ s.burst \in Nat
  BY PromoteProperties DEF Schedulers
<1>2. o \in Seq(Tasks)
  BY <1>1, ByPriorityProperties
<1>3. DispatchOrder(s) = PromoteBackgroundTurn(o, s.burst)
  BY DEF DispatchOrder
<1> HIDE DEF p, o
<1>4. /\ Elements(DispatchOrder(s)) = Elements(o)
      /\ Len(DispatchOrder(s)) = Len(o)
      /\ DispatchOrder(s) \in Seq(Tasks)
  BY <1>1, <1>2, <1>3, BackgroundTurnProperties
<1>5. o # <<>>
  BY <1>4, EmptySeq
<1>6. QED
  BY <1>1, <1>2, <1>3, <1>4, <1>5, BackgroundTurnProperties

(* Draining a root leaves the tasks of the other roots. *)
LEMMA DrainRootProperties ==
  ASSUME NEW s \in Schedulers, NEW root \in Roots
  PROVE  /\ DrainTasksForRoot(s, root) \in Schedulers
         /\ DrainTasksForRoot(s, root).generation = s.generation
         /\ DrainTasksForRoot(s, root).burst = s.burst
         /\ PendingTasks(DrainTasksForRoot(s, root)) = {t \in PendingTasks(s) : t.root # root}
<1> DEFINE I == {i \in DOMAIN s.tasks : s.tasks[i].root # root}
           J == {i \in DOMAIN s.delayed : s.delayed[i].task.root # root}
           tasks    == Keep(s.tasks, I)
           delayed  == Keep(s.delayed, J)
           attempts == [key \in DOMAIN s.attempts |-> IF key[1] = root THEN 0 ELSE s.attempts[key]]
           d        == DrainTasksForRoot(s, root)
<1>1. /\ s.tasks \in Seq(Tasks) /\ s.delayed \in Seq(Delayed)
      /\ s.attempts \in [Roots \X Reasons -> Nat]
  BY DEF Schedulers
<1>2. d = [s EXCEPT !.tasks = tasks, !.delayed = delayed, !.attempts = attempts]
  BY DEF DrainTasksForRoot, Schedulers
<1>3. attempts \in [Roots \X Reasons -> Nat]
  BY <1>1
<1>4. tasks \in Seq(Tasks) /\ Elements(tasks) = ValuesAt(s.tasks, I)
  BY <1>1, KeepProperties
<1>5. delayed \in Seq(Delayed) /\ Elements(delayed) = ValuesAt(s.delayed, J)
  BY <1>1, KeepProperties
<1> HIDE DEF tasks, delayed, attempts, d
<1>6. /\ d \in Schedulers
      /\ d.generation = s.generation /\ d.burst = s.burst
      /\ d.tasks = tasks /\ d.delayed = delayed
  BY <1>2, <1>3, <1>4, <1>5 DEF Schedulers
<1>7. PendingTasks(d) = Elements(tasks) \cup {e.task : e \in Elements(delayed)}
  BY <1>6 DEF PendingTasks, Elements, ValuesAt
<1>8. Elements(tasks) = {t \in Elements(s.tasks) : t.root # root}
  BY <1>4 DEF Elements, ValuesAt
<1>9. {e.task : e \in Elements(delayed)} = {t \in {e.task : e \in Elements(s.delayed)} : t.root # root}
  <2>1. Elements(delayed) = {e \in Elements(s.delayed) : e.task.root # root}
    BY <1>5 DEF Elements, ValuesAt
  <2>2. QED
    BY <2>1
<1>10. PendingTasks(s) = Elements(s.tasks) \cup {e.task : e \in Elements(s.delayed)}
  BY DEF PendingTasks, Elements, ValuesAt
<1>11. PendingTasks(d) = {t \in PendingTasks(s) : t.root # root}
  BY <1>7, <1>8, <1>9, <1>10
<1>12. QED
  BY <1>6, <1>11 DEF d

-----------------------------------------------------------------------------
(* Scheduling.                                                               *)

(* What a scheduling call promises of the result r it leaves, when it took t  *)
(* from the scheduler s: the burst stays, no pending task is lost unless it   *)
(* is handed back, and the pending tasks it adds carry a number the counter   *)
(* has reached.                                                               *)
GoodResult(s, r) ==
  /\ r.scheduler \in Schedulers
  /\ r.superseded \in SUBSET Tasks
  /\ r.superseded \subseteq PendingTasks(s)
  /\ r.scheduler.burst = s.burst
  /\ r.scheduler.generation >= s.generation
  /\ PendingTasks(s) \subseteq PendingTasks(r.scheduler) \cup r.superseded
  /\ \A t \in PendingTasks(r.scheduler) \ PendingTasks(s) : t.generation \in 1..r.scheduler.generation

(* Every task handed back was replaced by a newer one that does its work. *)
NewerReplacement(s, r) ==
  (\A t \in PendingTasks(s) : t.generation \in 1..s.generation) =>
    \A old \in r.superseded : \E new \in PendingTasks(r.scheduler) :
      /\ new.generation > old.generation
      /\ TasksCanCoalesce(new, old) \/ Replaces(new, old)

(* Numbering a task, or keeping the number of a continuation. *)
LEMMA StampedProperties ==
  ASSUME NEW s \in Schedulers, NEW t \in Tasks
  PROVE  /\ Numbered(s, t) \in Tasks
         /\ Numbered(s, t).generation = s.generation + 1
         /\ Stamped(s, t) \in Tasks
         /\ Stamped(s, t).generation >= 1
         /\ t.kind # "changed-paths" => Stamped(s, t) = Numbered(s, t)
<1>1. s.generation \in Nat /\ t.generation \in Nat
  BY DEF Schedulers, Tasks
<1>2. Numbered(s, t) \in Tasks /\ Numbered(s, t).generation = s.generation + 1
  BY <1>1 DEF Numbered, Tasks
<1>3. PreservesContinuationGeneration(t) => t.generation >= 1 /\ t.kind = "changed-paths"
  BY <1>1 DEF PreservesContinuationGeneration
<1>4. QED
  BY <1>1, <1>2, <1>3 DEF Stamped

(* Coalescing gives a task of the newer number that coalesces with both. *)
LEMMA CoalescedProperties ==
  ASSUME NEW e \in Tasks, NEW t \in Tasks, TasksCanCoalesce(e, t)
  PROVE  /\ Coalesced(e, t) \in Tasks
         /\ Coalesced(e, t).generation = t.generation
         /\ TasksCanCoalesce(Coalesced(e, t), e)
<1> DEFINE c == Coalesced(e, t)
<1>1. /\ e.root = t.root /\ e.kind = t.kind /\ e.reason = t.reason
      /\ TaskAdmission(e) = TaskAdmission(t)
  BY DEF TasksCanCoalesce
<1>2. /\ e.priority \in Priorities /\ t.priority \in Priorities
      /\ Larger(e.priority, t.priority) \in {e.priority, t.priority}
  BY DEF Larger, Tasks
<1>3. CASE LatestWins(t)
  <2>1. c = t
    BY <1>3 DEF Coalesced
  <2>2. QED
    BY <1>1, <2>1 DEF TasksCanCoalesce
<1>4. CASE ~LatestWins(t)
  <2>1. c = [e EXCEPT !.paths = e.paths \cup t.paths,
                      !.generation = t.generation,
                      !.priority = Larger(e.priority, t.priority)]
    BY <1>4 DEF Coalesced, Tasks
  <2>2. /\ c \in Tasks
        /\ c.generation = t.generation
        /\ c.root = e.root /\ c.kind = e.kind /\ c.reason = e.reason
        /\ c.priority = e.priority \/ c.priority = t.priority
    BY <1>2, <2>1 DEF Tasks
  <2> HIDE DEF c
  <2>3. TaskAdmission(c) = TaskAdmission(e)
    BY <1>1, <2>2, Zenon DEF TaskAdmission, ChangedPathsAdmission
  <2>4. QED
    BY <2>2, <2>3 DEF TasksCanCoalesce, c
<1>5. QED
  BY <1>3, <1>4

(* Putting a value at a position of a queue changes that element only. *)
LEMMA PutProperties ==
  ASSUME NEW T, NEW q \in Seq(T), NEW i \in DOMAIN q, NEW v \in T
  PROVE  /\ [q EXCEPT ![i] = v] \in Seq(T)
         /\ v \in Elements([q EXCEPT ![i] = v])
         /\ Elements([q EXCEPT ![i] = v]) \subseteq Elements(q) \cup {v}
         /\ Elements(q) \subseteq Elements([q EXCEPT ![i] = v]) \cup {q[i]}
<1> DEFINE w == [q EXCEPT ![i] = v]
<1>1. DOMAIN q = 1..Len(q) /\ Len(q) \in Nat
  BY LenProperties
<1>2. \A k \in DOMAIN q : q[k] \in T
  BY <1>1, ElementOfSeq
<1>3. w \in [1..Len(q) -> T]
  BY <1>1, <1>2
<1>4. w \in Seq(T)
  BY <1>1, <1>3, SeqDef
<1>5. DOMAIN w = DOMAIN q /\ \A k \in DOMAIN q : w[k] = IF k = i THEN v ELSE q[k]
  OBVIOUS
<1> HIDE DEF w
<1>6. v \in Elements(w) /\ Elements(w) \subseteq Elements(q) \cup {v}
  BY <1>5 DEF Elements, ValuesAt
<1>7. Elements(q) \subseteq Elements(w) \cup {q[i]}
  BY <1>5 DEF Elements, ValuesAt
<1>8. QED
  BY <1>4, <1>6, <1>7 DEF w

(* Appending a value adds it. *)
LEMMA AppendElements ==
  ASSUME NEW T, NEW q \in Seq(T), NEW v \in T
  PROVE  Append(q, v) \in Seq(T) /\ Elements(Append(q, v)) = Elements(q) \cup {v}
<1> DEFINE w == Append(q, v)
<1>1. DOMAIN q = 1..Len(q) /\ Len(q) \in Nat
  BY LenProperties
<1>2. /\ w \in Seq(T) /\ Len(w) = Len(q) + 1
      /\ \A k \in 1..Len(q) : w[k] = q[k]
      /\ w[Len(q) + 1] = v
  BY AppendProperties
<1>3. DOMAIN w = 1..(Len(q) + 1)
  BY <1>2, LenProperties
<1> HIDE DEF w
<1>4. \A k \in DOMAIN w : k \in DOMAIN q \/ k = Len(q) + 1
  BY <1>1, <1>3
<1>5. Len(q) + 1 \in DOMAIN w /\ \A k \in DOMAIN q : k \in DOMAIN w
  BY <1>1, <1>3
<1>6. Elements(w) = Elements(q) \cup {v}
  BY <1>1, <1>2, <1>4, <1>5 DEF Elements, ValuesAt
<1>7. QED
  BY <1>2, <1>6 DEF w

(* The pending tasks are those of the two queues. *)
LEMMA PendingParts ==
  ASSUME NEW s
  PROVE  PendingTasks(s) = Elements(s.tasks) \cup {e.task : e \in Elements(s.delayed)}
BY DEF PendingTasks, Elements, ValuesAt

(* schedule_with_result, joining a pending task. *)
LEMMA ScheduleCoalescedProperties ==
  ASSUME NEW s \in Schedulers, NEW t \in Tasks,
         NEW i \in DOMAIN s.tasks, TasksCanCoalesce(s.tasks[i], t)
  PROVE  /\ GoodResult(s, ScheduleCoalesced(s, t, i))
         /\ NewerReplacement(s, ScheduleCoalesced(s, t, i))
<1> DEFINE e   == s.tasks[i]
           num == Numbered(s, t)
           new == Coalesced(e, num)
           q   == [s.tasks EXCEPT ![i] = new]
           r   == ScheduleCoalesced(s, t, i)
<1>1. s.tasks \in Seq(Tasks) /\ s.delayed \in Seq(Delayed) /\ s.generation \in Nat
  BY DEF Schedulers
<1>2. e \in Tasks
  <2>1. i \in 1..Len(s.tasks)
    BY <1>1, LenProperties
  <2>2. QED
    BY <1>1, <2>1, ElementOfSeq
<1>3. num \in Tasks /\ num.generation = s.generation + 1
  BY StampedProperties
<1>4. TasksCanCoalesce(e, num)
  BY Zenon DEF TasksCanCoalesce, Numbered, TaskAdmission, ChangedPathsAdmission, Tasks
<1>5. new \in Tasks /\ new.generation = s.generation + 1 /\ TasksCanCoalesce(new, e)
  BY <1>2, <1>3, <1>4, CoalescedProperties
<1>6. /\ r.scheduler = [s EXCEPT !.generation = s.generation + 1, !.tasks = q]
      /\ r.superseded = {e}
  BY DEF ScheduleCoalesced, Result, Schedulers
<1> HIDE DEF new, num, r
<1>7. /\ q \in Seq(Tasks)
      /\ new \in Elements(q)
      /\ Elements(q) \subseteq Elements(s.tasks) \cup {new}
      /\ Elements(s.tasks) \subseteq Elements(q) \cup {e}
  BY <1>1, <1>5, PutProperties
<1> HIDE DEF q
<1>8. /\ r.scheduler \in Schedulers
      /\ r.scheduler.generation = s.generation + 1 /\ r.scheduler.burst = s.burst
      /\ r.scheduler.tasks = q /\ r.scheduler.delayed = s.delayed
  <2> HIDE DEF e
  <2>1. s.generation + 1 \in Nat
    BY <1>1
  <2>2. QED
    BY <1>1, <1>6, <1>7, <2>1 DEF Schedulers
<1>9. e \in Elements(s.tasks)
  BY DEF Elements, ValuesAt
<1> HIDE DEF e
<1> DEFINE late == {x.task : x \in Elements(s.delayed)}
<1>10. /\ PendingTasks(s) = Elements(s.tasks) \cup late
       /\ PendingTasks(r.scheduler) = Elements(q) \cup late
  BY <1>8, PendingParts
<1> HIDE DEF late
<1>11. GoodResult(s, r)
  BY <1>1, <1>2, <1>5, <1>6, <1>7, <1>8, <1>9, <1>10 DEF GoodResult
<1>12. NewerReplacement(s, r)
  <2> SUFFICES ASSUME \A u \in PendingTasks(s) : u.generation \in 1..s.generation
               PROVE  new \in PendingTasks(r.scheduler) /\ new.generation > e.generation
    BY <1>5, <1>6 DEF NewerReplacement
  <2>1. e.generation \in 1..s.generation
    BY <1>9, <1>10
  <2>2. QED
    BY <1>1, <1>5, <1>7, <1>10, <2>1
<1>13. QED
  BY <1>11, <1>12 DEF r

(* schedule_with_result, taking a place of its own. *)
LEMMA ScheduleAppendedProperties ==
  ASSUME NEW s \in Schedulers, NEW t \in Tasks
  PROVE  /\ GoodResult(s, ScheduleAppended(s, t))
         /\ NewerReplacement(s, ScheduleAppended(s, t))
<1> DEFINE new  == Stamped(s, t)
           kept == {i \in DOMAIN s.tasks : ~Replaces(new, s.tasks[i])}
           q    == Append(Keep(s.tasks, kept), new)
           gone == ValuesAt(s.tasks, DOMAIN s.tasks \ kept)
           r    == ScheduleAppended(s, t)
<1>1. s.tasks \in Seq(Tasks) /\ s.delayed \in Seq(Delayed) /\ s.generation \in Nat
  BY DEF Schedulers
<1>2. new \in Tasks /\ new.generation \in Nat /\ new.generation >= 1
  BY StampedProperties DEF Tasks
<1>3. t.kind # "changed-paths" => new.generation = s.generation + 1
  BY StampedProperties
<1>4. new.kind = t.kind
  BY DEF Stamped, Numbered, Tasks
<1>5. /\ r.scheduler = [s EXCEPT !.generation = Larger(s.generation, new.generation), !.tasks = q]
      /\ r.superseded = gone
  BY DEF ScheduleAppended, Result, Schedulers, ValuesAt
<1>6. kept \in SUBSET DOMAIN s.tasks /\ \A i \in DOMAIN s.tasks \ kept : Replaces(new, s.tasks[i])
  OBVIOUS
<1> HIDE DEF new, r, kept
<1>7. /\ q \in Seq(Tasks)
      /\ Elements(q) = ValuesAt(s.tasks, kept) \cup {new}
  <2>1. Keep(s.tasks, kept) \in Seq(Tasks) /\ Elements(Keep(s.tasks, kept)) = ValuesAt(s.tasks, kept)
    BY <1>1, <1>6, KeepProperties
  <2>2. QED
    BY <1>2, <2>1, AppendElements
<1>8. \A i \in DOMAIN s.tasks : s.tasks[i] \in Tasks
  BY <1>1, ElementOfSeq, LenProperties
<1>9. /\ gone \in SUBSET Tasks
      /\ gone \subseteq Elements(s.tasks)
      /\ Elements(s.tasks) = ValuesAt(s.tasks, kept) \cup gone
      /\ \A old \in gone : Replaces(new, old)
  BY <1>6, <1>8 DEF Elements, ValuesAt
<1> HIDE DEF q, gone
<1>10. /\ r.scheduler \in Schedulers
       /\ r.scheduler.generation = Larger(s.generation, new.generation)
       /\ r.scheduler.burst = s.burst
       /\ r.scheduler.tasks = q /\ r.scheduler.delayed = s.delayed
  BY <1>1, <1>2, <1>5, <1>7 DEF Schedulers, Larger
<1> DEFINE late == {x.task : x \in Elements(s.delayed)}
<1>11. /\ PendingTasks(s) = Elements(s.tasks) \cup late
       /\ PendingTasks(r.scheduler) = Elements(q) \cup late
  BY <1>10, PendingParts
<1> HIDE DEF late
<1>12. GoodResult(s, r)
  <2>1. /\ r.scheduler.generation >= s.generation
        /\ new.generation \in 1..r.scheduler.generation
    BY <1>1, <1>2, <1>10 DEF Larger
  <2>2. PendingTasks(s) \subseteq PendingTasks(r.scheduler) \cup r.superseded
    BY <1>5, <1>7, <1>9, <1>11
  <2>3. PendingTasks(r.scheduler) \ PendingTasks(s) \subseteq {new}
    BY <1>7, <1>9, <1>11
  <2>4. r.superseded \subseteq PendingTasks(s)
    BY <1>5, <1>9, <1>11
  <2>5. QED
    BY <1>5, <1>9, <1>10, <2>1, <2>2, <2>3, <2>4 DEF GoodResult
<1>13. NewerReplacement(s, r)
  <2> SUFFICES ASSUME \A u \in PendingTasks(s) : u.generation \in 1..s.generation,
                      NEW old \in r.superseded
               PROVE  /\ new \in PendingTasks(r.scheduler)
                      /\ new.generation > old.generation
                      /\ Replaces(new, old)
    BY DEF NewerReplacement
  <2>1. Replaces(new, old) /\ old \in PendingTasks(s)
    BY <1>5, <1>9, <1>11
  <2>2. new.generation = s.generation + 1
    BY <1>3, <1>4, <2>1 DEF Replaces
  <2>3. old.generation \in 1..s.generation
    BY <2>1
  <2>4. QED
    BY <1>1, <1>7, <1>11, <2>1, <2>2, <2>3
<1>14. QED
  BY <1>12, <1>13 DEF r

(* A call that schedules nothing changes nothing that is pending. *)
LEMMA UnscheduledProperties ==
  ASSUME NEW s \in Schedulers, NEW c \in Schedulers,
         c.generation = s.generation, c.burst = s.burst,
         c.tasks = s.tasks, c.delayed = s.delayed
  PROVE  GoodResult(s, Result(c, {}, FALSE)) /\ NewerReplacement(s, Result(c, {}, FALSE))
<1>1. PendingTasks(c) = PendingTasks(s)
  BY DEF PendingTasks
<1>2. s.generation \in Nat
  BY DEF Schedulers
<1>3. QED
  BY <1>1, <1>2 DEF GoodResult, NewerReplacement, Result

(* schedule_with_result. *)
LEMMA ScheduleProperties ==
  ASSUME NEW s \in Schedulers, NEW t \in Tasks
  PROVE  /\ GoodResult(s, ScheduleWithResult(s, t))
         /\ NewerReplacement(s, ScheduleWithResult(s, t))
<1> DEFINE matches == CoalescesAt(s.tasks, t)
           i       == First(matches)
           noop    == IsEmptyNoop(t) \/ (matches # {} /\ IsChangedPathNoop(s.tasks[i], t))
<1>1. CASE noop
  <2>1. ScheduleWithResult(s, t) = Result(s, {}, FALSE)
    BY <1>1 DEF ScheduleWithResult
  <2>2. QED
    BY <2>1, UnscheduledProperties
<1>2. CASE ~noop /\ matches # {}
  <2>1. ScheduleWithResult(s, t) = ScheduleCoalesced(s, t, i)
    BY <1>2 DEF ScheduleWithResult
  <2>2. i \in DOMAIN s.tasks /\ TasksCanCoalesce(s.tasks[i], t)
    <3>1. s.tasks \in Seq(Tasks)
      BY DEF Schedulers
    <3>2. Len(s.tasks) \in Nat /\ DOMAIN s.tasks = 1..Len(s.tasks)
      BY <3>1, LenProperties
    <3>3. /\ matches \in SUBSET (1..Len(s.tasks))
          /\ \A k \in matches : TasksCanCoalesce(s.tasks[k], t)
      BY <3>2 DEF CoalescesAt
    <3> HIDE DEF matches
    <3>4. First(matches) \in matches
      BY <1>2, <3>2, <3>3, FirstProperties
    <3>5. QED
      BY <3>2, <3>3, <3>4
  <2>3. QED
    BY <2>1, <2>2, ScheduleCoalescedProperties
<1>3. CASE ~noop /\ matches = {}
  <2>1. ScheduleWithResult(s, t) = ScheduleAppended(s, t)
    BY <1>3 DEF ScheduleWithResult
  <2>2. QED
    BY <2>1, ScheduleAppendedProperties
<1>4. QED
  BY <1>1, <1>2, <1>3

(* The delay of a retry is one of the five the doubling can give. *)
LEMMA DelayType ==
  ASSUME NEW n \in Nat
  PROVE  BackgroundRetryDelay(n) \in Nat
<1> DEFINE k == Smaller(Larger(n - 1, 0), 4)
<1>1. k \in {0, 1, 2, 3, 4}
  BY DEF Smaller, Larger
<1>2. BackgroundRetryDelay(n) = Smaller(2 ^ k, MaxDelay)
  BY DEF BackgroundRetryDelay
<1> HIDE DEF k
<1>3. 2 ^ 0 \in Nat /\ 2 ^ 1 \in Nat /\ 2 ^ 2 \in Nat /\ 2 ^ 3 \in Nat /\ 2 ^ 4 \in Nat
  BY SMT
<1>4. 2 ^ k \in Nat
  BY <1>1, <1>3
<1>5. QED
  BY <1>2, <1>4 DEF Smaller, MaxDelay

(* A delayed queue with its entry i replaced. *)
LEMMA RetryCoalescedProperties ==
  ASSUME NEW s \in Schedulers, NEW t \in Tasks, NEW delay \in Nat,
         NEW i \in DOMAIN s.delayed, TasksCanCoalesce(s.delayed[i].task, t)
  PROVE  /\ GoodResult(s, RetryCoalesced(s, t, i, delay))
         /\ NewerReplacement(s, RetryCoalesced(s, t, i, delay))
<1> DEFINE e   == s.delayed[i].task
           num == Numbered(s, t)
           new == Coalesced(e, num)
           v   == [task |-> new, wait |-> delay]
           q   == [s.delayed EXCEPT ![i] = v]
           r   == RetryCoalesced(s, t, i, delay)
<1>1. s.tasks \in Seq(Tasks) /\ s.delayed \in Seq(Delayed) /\ s.generation \in Nat
  BY DEF Schedulers
<1>2. s.delayed[i] \in Delayed /\ e \in Tasks
  <2>1. i \in 1..Len(s.delayed)
    BY <1>1, LenProperties
  <2>2. s.delayed[i] \in Delayed
    BY <1>1, <2>1, ElementOfSeq
  <2>3. QED
    BY <2>2 DEF Delayed
<1>3. num \in Tasks /\ num.generation = s.generation + 1
  BY StampedProperties
<1>4. TasksCanCoalesce(e, num)
  BY Zenon DEF TasksCanCoalesce, Numbered, TaskAdmission, ChangedPathsAdmission, Tasks
<1>5. new \in Tasks /\ new.generation = s.generation + 1 /\ TasksCanCoalesce(new, e)
  BY <1>2, <1>3, <1>4, CoalescedProperties
<1>6. /\ r.scheduler = [s EXCEPT !.generation = s.generation + 1, !.delayed = q]
      /\ r.superseded = {e}
  BY DEF RetryCoalesced, Result, Schedulers
<1> HIDE DEF new, num, r
<1>7. v \in Delayed /\ v.task = new
  BY <1>5 DEF Delayed
<1> HIDE DEF v
<1>8. /\ q \in Seq(Delayed)
      /\ v \in Elements(q)
      /\ Elements(q) \subseteq Elements(s.delayed) \cup {v}
      /\ Elements(s.delayed) \subseteq Elements(q) \cup {s.delayed[i]}
  BY <1>1, <1>7, PutProperties
<1> HIDE DEF q
<1>9. /\ r.scheduler \in Schedulers
      /\ r.scheduler.generation = s.generation + 1 /\ r.scheduler.burst = s.burst
      /\ r.scheduler.tasks = s.tasks /\ r.scheduler.delayed = q
  <2> HIDE DEF e
  <2>1. s.generation + 1 \in Nat
    BY <1>1
  <2>2. QED
    BY <1>1, <1>6, <1>8, <2>1 DEF Schedulers
<1> DEFINE late(d) == {x.task : x \in Elements(d)}
<1>10. /\ new \in late(q) /\ e \in late(s.delayed)
       /\ late(q) \subseteq late(s.delayed) \cup {new}
       /\ late(s.delayed) \subseteq late(q) \cup {e}
  <2>1. s.delayed[i] \in Elements(s.delayed)
    BY DEF Elements, ValuesAt
  <2>2. QED
    BY <1>7, <1>8, <2>1
<1>11. /\ PendingTasks(s) = Elements(s.tasks) \cup late(s.delayed)
       /\ PendingTasks(r.scheduler) = Elements(s.tasks) \cup late(q)
  BY <1>9, PendingParts
<1> HIDE DEF late, e
<1>12. GoodResult(s, r)
  <2>1. new.generation \in 1..r.scheduler.generation /\ r.scheduler.generation >= s.generation
    BY <1>1, <1>5, <1>9
  <2>2. PendingTasks(r.scheduler) \ PendingTasks(s) \subseteq {new}
    BY <1>10, <1>11
  <2>3. PendingTasks(s) \subseteq PendingTasks(r.scheduler) \cup r.superseded
    BY <1>6, <1>10, <1>11
  <2>4. r.superseded \in SUBSET Tasks /\ r.superseded \subseteq PendingTasks(s)
    BY <1>2, <1>6, <1>10, <1>11
  <2>5. QED
    BY <1>9, <2>1, <2>2, <2>3, <2>4 DEF GoodResult
<1>13. NewerReplacement(s, r)
  <2> SUFFICES ASSUME \A u \in PendingTasks(s) : u.generation \in 1..s.generation
               PROVE  new \in PendingTasks(r.scheduler) /\ new.generation > e.generation
    BY <1>5, <1>6 DEF NewerReplacement
  <2>1. e.generation \in 1..s.generation
    BY <1>10, <1>11
  <2>2. QED
    BY <1>1, <1>5, <1>10, <1>11, <2>1
<1>14. QED
  BY <1>12, <1>13 DEF r

(* A retry that joins no pending one adds a task. *)
LEMMA RetryAppendedProperties ==
  ASSUME NEW s \in Schedulers, NEW t \in Tasks, NEW delay \in Nat
  PROVE  /\ GoodResult(s, RetryAppended(s, t, delay))
         /\ NewerReplacement(s, RetryAppended(s, t, delay))
<1> DEFINE new == Stamped(s, t)
           v   == [task |-> new, wait |-> delay]
           q   == Append(s.delayed, v)
           r   == RetryAppended(s, t, delay)
<1>1. s.tasks \in Seq(Tasks) /\ s.delayed \in Seq(Delayed) /\ s.generation \in Nat
  BY DEF Schedulers
<1>2. new \in Tasks /\ new.generation \in Nat /\ new.generation >= 1
  BY StampedProperties DEF Tasks
<1>3. /\ r.scheduler = [s EXCEPT !.generation = Larger(s.generation, new.generation), !.delayed = q]
      /\ r.superseded = {}
  BY DEF RetryAppended, Result, Schedulers
<1> HIDE DEF new, r
<1>4. v \in Delayed /\ v.task = new
  BY <1>2 DEF Delayed
<1> HIDE DEF v
<1>5. q \in Seq(Delayed) /\ Elements(q) = Elements(s.delayed) \cup {v}
  BY <1>1, <1>4, AppendElements
<1> HIDE DEF q
<1>6. /\ r.scheduler \in Schedulers
      /\ r.scheduler.generation = Larger(s.generation, new.generation)
      /\ r.scheduler.burst = s.burst
      /\ r.scheduler.tasks = s.tasks /\ r.scheduler.delayed = q
  BY <1>1, <1>2, <1>3, <1>5 DEF Schedulers, Larger
<1>7. PendingTasks(r.scheduler) = PendingTasks(s) \cup {new}
  <2>1. {x.task : x \in Elements(q)} = {x.task : x \in Elements(s.delayed)} \cup {new}
    BY <1>4, <1>5
  <2>2. /\ PendingTasks(s) = Elements(s.tasks) \cup {x.task : x \in Elements(s.delayed)}
        /\ PendingTasks(r.scheduler) = Elements(s.tasks) \cup {x.task : x \in Elements(q)}
    BY <1>6, PendingParts
  <2>3. QED
    BY <2>1, <2>2
<1>8. /\ r.scheduler.generation >= s.generation
      /\ new.generation \in 1..r.scheduler.generation
  BY <1>1, <1>2, <1>6 DEF Larger
<1>9. QED
  BY <1>3, <1>6, <1>7, <1>8 DEF GoodResult, NewerReplacement, r

(* schedule_background_retry: the count of attempts first, then the queue. *)
LEMMA RetryProperties ==
  ASSUME NEW s \in Schedulers, NEW t \in Tasks
  PROVE  /\ GoodResult(s, ScheduleBackgroundRetry(s, t))
         /\ NewerReplacement(s, ScheduleBackgroundRetry(s, t))
<1> DEFINE key     == <<t.root, t.reason>>
           c       == [s EXCEPT !.attempts[key] = Smaller(@ + 1, LastDoubling)]
           delay   == BackgroundRetryDelay(c.attempts[key])
           matches == {i \in DOMAIN s.delayed : TasksCanCoalesce(s.delayed[i].task, t)}
           i       == First(matches)
           r       == ScheduleBackgroundRetry(s, t)
<1>1. /\ s.delayed \in Seq(Delayed) /\ key \in Roots \X Reasons
      /\ s.attempts \in [Roots \X Reasons -> Nat]
  BY DEF Schedulers, Tasks
<1>2. Smaller(s.attempts[key] + 1, LastDoubling) \in Nat
  BY <1>1 DEF Smaller, LastDoubling
<1>3. c = [s EXCEPT !.attempts = [s.attempts EXCEPT ![key] = Smaller(s.attempts[key] + 1, LastDoubling)]]
  BY DEF Schedulers
<1> HIDE DEF key
<1>4. [s.attempts EXCEPT ![key] = Smaller(s.attempts[key] + 1, LastDoubling)] \in [Roots \X Reasons -> Nat]
  BY <1>1, <1>2
<1>5. /\ c \in Schedulers
      /\ c.generation = s.generation /\ c.burst = s.burst
      /\ c.tasks = s.tasks /\ c.delayed = s.delayed
  BY <1>3, <1>4 DEF Schedulers
<1>6. c.attempts[key] \in Nat
  BY <1>1, <1>5 DEF Schedulers
<1>7. r = IF matches # {}
          THEN IF IsChangedPathNoop(s.delayed[i].task, t)
               THEN Result(c, {}, FALSE)
               ELSE RetryCoalesced(c, t, i, delay)
          ELSE RetryAppended(c, t, delay)
  BY DEF ScheduleBackgroundRetry, key
<1> HIDE DEF c, r
<1>8. delay \in Nat
  BY <1>6, DelayType
<1> HIDE DEF delay
<1>9. ASSUME matches # {}
      PROVE  i \in DOMAIN s.delayed /\ TasksCanCoalesce(s.delayed[i].task, t)
  <2>1. Len(s.delayed) \in Nat /\ DOMAIN s.delayed = 1..Len(s.delayed)
    BY <1>1, LenProperties
  <2>2. /\ matches \in SUBSET (1..Len(s.delayed))
        /\ \A k \in matches : TasksCanCoalesce(s.delayed[k].task, t)
    BY <2>1
  <2> HIDE DEF matches
  <2>3. First(matches) \in matches
    BY <1>9, <2>1, <2>2, FirstProperties
  <2>4. QED
    BY <2>1, <2>2, <2>3
<1>10. (GoodResult(c, r) /\ NewerReplacement(c, r)) \/ r = Result(c, {}, FALSE)
  <2>1. CASE matches # {} /\ ~IsChangedPathNoop(s.delayed[i].task, t)
    <3>1. i \in DOMAIN c.delayed /\ TasksCanCoalesce(c.delayed[i].task, t)
      BY <1>5, <1>9, <2>1
    <3>2. r = RetryCoalesced(c, t, i, delay)
      BY <1>7, <2>1
    <3> HIDE DEF i, matches
    <3>3. QED
      BY <1>5, <1>8, <3>1, <3>2, RetryCoalescedProperties
  <2>2. CASE matches = {}
    BY <1>5, <1>7, <1>8, <2>2, RetryAppendedProperties
  <2>3. CASE matches # {} /\ IsChangedPathNoop(s.delayed[i].task, t)
    BY <1>7, <2>3
  <2>4. QED
    BY <2>1, <2>2, <2>3
<1>11. PendingTasks(c) = PendingTasks(s)
  BY <1>5, PendingParts
<1>12. CASE GoodResult(c, r) /\ NewerReplacement(c, r)
  BY <1>5, <1>11, <1>12 DEF GoodResult, NewerReplacement, r
<1>13. CASE r = Result(c, {}, FALSE)
  BY <1>5, <1>13, UnscheduledProperties DEF r
<1>14. QED
  BY <1>10, <1>12, <1>13

-----------------------------------------------------------------------------
(* One ready task per slot.                                                  *)

(* t and u are not two tasks of one slot. *)
Apart(t, u) ==
  /\ t.kind = "changed-paths" => ~TasksCanCoalesce(t, u)
  /\ t.kind # "changed-paths" => ~(t.root = u.root /\ t.kind = u.kind)

OnePerSlot(q) ==
  \A i, j \in DOMAIN q : i # j /\ q[i].reason \notin DeepReasons => Apart(q[i], q[j])

DeepContinuation(t) == t.kind = "changed-paths" /\ t.reason \in DeepReasons

(* What makes the slots of a scheduler exclusive, and stays true when the     *)
(* delayed retries join the ready queue without coalescing: they are deep     *)
(* continuations, which share a slot with no other reason.                    *)
SlotsHeld(s) ==
  /\ OnePerSlot(s.tasks)
  /\ \A i \in DOMAIN s.delayed : DeepContinuation(s.delayed[i].task)

(* The elements of a are elements of s at different positions. *)
Selects(a, s) ==
  \E f \in [DOMAIN a -> DOMAIN s] :
    /\ \A k \in DOMAIN a : a[k] = s[f[k]]
    /\ \A k, m \in DOMAIN a : k # m => f[k] # f[m]

(* Taking out and re-ordering tasks puts no two in one slot. *)
LEMMA SelectionKeepsSlots ==
  ASSUME NEW s, NEW a, Selects(a, s), OnePerSlot(s)
  PROVE  OnePerSlot(a)
<1> PICK f \in [DOMAIN a -> DOMAIN s] :
           /\ \A k \in DOMAIN a : a[k] = s[f[k]]
           /\ \A k, m \in DOMAIN a : k # m => f[k] # f[m]
  BY DEF Selects
<1> SUFFICES ASSUME NEW k \in DOMAIN a, NEW m \in DOMAIN a, k # m,
                    a[k].reason \notin DeepReasons
             PROVE  Apart(a[k], a[m])
  BY DEF OnePerSlot
<1>1. f[k] \in DOMAIN s /\ f[m] \in DOMAIN s /\ f[k] # f[m]
  OBVIOUS
<1>2. a[k] = s[f[k]] /\ a[m] = s[f[m]]
  OBVIOUS
<1>3. QED
  BY <1>1, <1>2 DEF OnePerSlot

(* Arranging some elements of a sequence selects from it ... *)
LEMMA ArrangeSelects ==
  ASSUME NEW T, NEW s \in Seq(T), NEW I \in SUBSET DOMAIN s, NEW R, TotalOrder(I, R)
  PROVE  Selects(Arrange(s, I, R), s)
<1> DEFINE a == Arrange(s, I, R)
           n == Cardinality(I)
           f == [k \in 1..n |-> At(I, R, k)]
<1>1. IsFiniteSet(I)
  <2>1. DOMAIN s = 1..Len(s) /\ Len(s) \in Nat
    BY LenProperties
  <2>2. IsFiniteSet(DOMAIN s)
    BY <2>1, FS_Interval
  <2>3. QED
    BY <2>2, FS_Subset
<1>2. a = [k \in 1..n |-> s[At(I, R, k)]]
  BY DEF Arrange
<1>3. \A k \in 1..n : At(I, R, k) \in I /\ Rank(I, R, At(I, R, k)) = k
  BY <1>1, AtRank
<1>4. f \in [DOMAIN a -> DOMAIN s]
  BY <1>2, <1>3
<1>5. \A k \in DOMAIN a : a[k] = s[f[k]]
  BY <1>2
<1>6. ASSUME NEW k \in DOMAIN a, NEW m \in DOMAIN a, f[k] = f[m]
      PROVE  k = m
  <2>1. k \in 1..n /\ m \in 1..n
    BY <1>2
  <2>2. At(I, R, k) = At(I, R, m)
    BY <1>6, <2>1
  <2>3. QED
    BY <1>3, <2>1, <2>2
<1> HIDE DEF a, f
<1>7. QED
  BY <1>4, <1>5, <1>6 DEF Selects, a

(* ... keeping some of them does ... *)
LEMMA KeepSelects ==
  ASSUME NEW T, NEW s \in Seq(T), NEW I \in SUBSET DOMAIN s
  PROVE  Selects(Keep(s, I), s)
<1> DEFINE R == {p \in I \X I : p[1] < p[2]}
<1>1. DOMAIN s = 1..Len(s) /\ Len(s) \in Nat
  BY LenProperties
<1>2. TotalOrder(I, R)
  BY <1>1 DEF TotalOrder
<1>3. Keep(s, I) = Arrange(s, I, R)
  BY DEF Keep
<1> HIDE DEF R
<1>4. QED
  BY <1>2, <1>3, ArrangeSelects

(* ... sorting by priority does ... *)
LEMMA ByPrioritySelects ==
  ASSUME NEW q \in Seq(Tasks)
  PROVE  Selects(ByPriority(q), q)
<1> DEFINE R == {p \in (DOMAIN q) \X (DOMAIN q) : Precedes(q, p[1], p[2])}
<1>1. TotalOrder(DOMAIN q, R)
  BY PriorityOrder
<1>2. ByPriority(q) = Arrange(q, DOMAIN q, R)
  BY DEF ByPriority
<1> HIDE DEF R
<1>3. QED
  BY <1>1, <1>2, ArrangeSelects

(* ... exchanging two of them does ... *)
LEMMA SwappedSelects ==
  ASSUME NEW q, NEW i \in DOMAIN q, NEW j \in DOMAIN q
  PROVE  Selects(Swapped(q, i, j), q)
<1> DEFINE w == Swapped(q, i, j)
           f == [k \in DOMAIN q |-> IF k = i THEN j ELSE IF k = j THEN i ELSE k]
<1>1. /\ DOMAIN w = DOMAIN q
      /\ \A k \in DOMAIN q : w[k] = IF k = i THEN q[j] ELSE IF k = j THEN q[i] ELSE q[k]
  BY DEF Swapped
<1>2. f \in [DOMAIN w -> DOMAIN q]
  BY <1>1
<1>3. \A k \in DOMAIN w : w[k] = q[f[k]]
  BY <1>1
<1>4. \A k, m \in DOMAIN w : k # m => f[k] # f[m]
  BY <1>1
<1> HIDE DEF w, f
<1>5. QED
  BY <1>2, <1>3, <1>4 DEF Selects, w

(* ... and so do both halves of a cut. *)
LEMMA SplitSelects ==
  ASSUME NEW T, NEW q \in Seq(T), NEW m \in 0..Len(q)
  PROVE  /\ Selects(SubSeq(q, m + 1, Len(q)), q)
         /\ Selects(SubSeq(q, 1, m), q)
<1>1. DOMAIN q = 1..Len(q) /\ Len(q) \in Nat /\ m \in Nat /\ m <= Len(q)
  BY LenProperties
<1>2. Selects(SubSeq(q, m + 1, Len(q)), q)
  <2> DEFINE b == SubSeq(q, m + 1, Len(q))
             f == [k \in 1..(Len(q) - m) |-> k + m]
  <2>1. b = [k \in 1..(Len(q) - m) |-> q[k + m]]
    <3>1. b = [k \in 1..(Len(q) - (m + 1) + 1) |-> q[k + (m + 1) - 1]]
      BY <1>1
    <3>2. Len(q) - (m + 1) + 1 = Len(q) - m
      BY <1>1
    <3>3. \A k \in 1..(Len(q) - m) : k + (m + 1) - 1 = k + m
      BY <1>1
    <3>4. QED
      BY <3>1, <3>2, <3>3
  <2>2. f \in [DOMAIN b -> DOMAIN q]
    BY <1>1, <2>1
  <2>3. \A k \in DOMAIN b : b[k] = q[f[k]]
    BY <2>1
  <2>4. \A k, n \in DOMAIN b : k # n => f[k] # f[n]
    BY <1>1, <2>1
  <2> HIDE DEF b, f
  <2>5. QED
    BY <2>2, <2>3, <2>4 DEF Selects, b
<1>3. Selects(SubSeq(q, 1, m), q)
  <2> DEFINE a == SubSeq(q, 1, m)
             f == [k \in 1..m |-> k]
  <2>1. DOMAIN a = 1..m /\ \A k \in 1..m : a[k] = q[k]
    <3>1. Len(a) = m /\ a \in Seq(T) /\ \A k \in 1..m : a[k] = q[k]
      BY SplitProperties
    <3> HIDE DEF a
    <3>2. QED
      BY <3>1, LenProperties
  <2>2. f \in [DOMAIN a -> DOMAIN q]
    BY <1>1, <2>1
  <2>3. \A k \in DOMAIN a : a[k] = q[f[k]]
    BY <2>1
  <2>4. \A k, n \in DOMAIN a : k # n => f[k] # f[n]
    BY <2>1
  <2> HIDE DEF a, f
  <2>5. QED
    BY <2>2, <2>3, <2>4 DEF Selects, a
<1>4. QED
  BY <1>2, <1>3

(* The order of a dispatch keeps the slots. *)
LEMMA DispatchKeepsSlots ==
  ASSUME NEW q \in Seq(Tasks), NEW burst \in Nat, OnePerSlot(q)
  PROVE  OnePerSlot(PromoteBackgroundTurn(ByPriority(q), burst))
<1> DEFINE o     == ByPriority(q)
           turns == {i \in DOMAIN o : IsBackgroundTurn(o[i].priority)}
           w     == PromoteBackgroundTurn(o, burst)
<1>1. o \in Seq(Tasks) /\ OnePerSlot(o)
  BY ByPriorityProperties, ByPrioritySelects, SelectionKeepsSlots
<1>2. DOMAIN o = 1..Len(o) /\ Len(o) \in Nat
  BY <1>1, LenProperties
<1>3. w = o \/ (turns # {} /\ w = Swapped(o, 1, First(turns)))
  BY DEF PromoteBackgroundTurn
<1>4. turns \in SUBSET (1..Len(o))
  BY <1>2
<1> HIDE DEF o, turns, w
<1>5. CASE turns # {} /\ w = Swapped(o, 1, First(turns))
  <2>1. First(turns) \in DOMAIN o
    BY <1>2, <1>4, <1>5, FirstProperties
  <2>2. 1 \in DOMAIN o
    BY <1>2, <2>1
  <2>3. QED
    BY <1>1, <1>5, <2>1, <2>2, SwappedSelects, SelectionKeepsSlots DEF o, w
<1>6. CASE w = o
  BY <1>1, <1>6 DEF o, w
<1>7. QED
  BY <1>3, <1>5, <1>6

(* Deep continuations join a queue without sharing a slot with the others. *)
LEMMA ConcatKeepsSlots ==
  ASSUME NEW a \in Seq(Tasks), NEW b \in Seq(Tasks), OnePerSlot(a),
         \A t \in Elements(b) : DeepContinuation(t)
  PROVE  OnePerSlot(a \o b)
<1> DEFINE c == a \o b
<1>1. /\ DOMAIN a = 1..Len(a) /\ Len(a) \in Nat
      /\ DOMAIN b = 1..Len(b) /\ Len(b) \in Nat
  BY LenProperties
<1>2. c \in Seq(Tasks) /\ Len(c) = Len(a) + Len(b)
  BY ConcatProperties
<1>3. DOMAIN c = 1..(Len(a) + Len(b))
  BY <1>2, LenProperties
<1>4. \A i \in 1..(Len(a) + Len(b)) : c[i] = IF i <= Len(a) THEN a[i] ELSE b[i - Len(a)]
  BY ConcatProperties
<1> HIDE DEF c
<1>5. \A i \in DOMAIN c : \/ i \in DOMAIN a /\ c[i] = a[i]
                          \/ i - Len(a) \in DOMAIN b /\ c[i] = b[i - Len(a)]
  BY <1>1, <1>3, <1>4
<1>6. \A i \in DOMAIN c : (i \in DOMAIN a /\ c[i] = a[i]) \/ DeepContinuation(c[i])
  BY <1>5 DEF Elements, ValuesAt
<1>7. ASSUME NEW i \in DOMAIN c, NEW j \in DOMAIN c, i # j, c[i].reason \notin DeepReasons
      PROVE  Apart(c[i], c[j])
  <2>1. i \in DOMAIN a /\ c[i] = a[i]
    BY <1>6, <1>7 DEF DeepContinuation
  <2>2. CASE j \in DOMAIN a /\ c[j] = a[j]
    BY <1>7, <2>1, <2>2 DEF OnePerSlot
  <2>3. CASE DeepContinuation(c[j])
    BY <1>7, <2>3 DEF Apart, DeepContinuation, TasksCanCoalesce
  <2>4. QED
    BY <1>6, <2>2, <2>3
<1>8. QED
  BY <1>7 DEF OnePerSlot, c

(* The two queues after the due retries were promoted. *)
LEMMA PromotedParts ==
  ASSUME NEW s \in Schedulers
  PROVE  LET p    == PromoteReadyDelayedTasks(s)
             late == TaskOf(Keep(s.delayed, DueAt(s)))
         IN  /\ p.tasks = s.tasks \o late
             /\ late \in Seq(Tasks)
             /\ \A t \in Elements(late) : \E i \in DOMAIN s.delayed : t = s.delayed[i].task
             /\ p.delayed = Keep(s.delayed, DOMAIN s.delayed \ DueAt(s))
             /\ \A e \in Elements(p.delayed) : e \in Elements(s.delayed)
<1> DEFINE due  == Keep(s.delayed, DueAt(s))
           rest == Keep(s.delayed, DOMAIN s.delayed \ DueAt(s))
           p    == PromoteReadyDelayedTasks(s)
<1>1. s.tasks \in Seq(Tasks) /\ s.delayed \in Seq(Delayed)
  BY DEF Schedulers
<1>2. DueAt(s) \in SUBSET DOMAIN s.delayed
  BY DEF DueAt
<1>3. due \in Seq(Delayed) /\ Elements(due) = ValuesAt(s.delayed, DueAt(s))
  BY <1>1, <1>2, KeepProperties
<1>4. Elements(rest) = ValuesAt(s.delayed, DOMAIN s.delayed \ DueAt(s))
  BY <1>1, <1>2, KeepProperties
<1>5. p.tasks = s.tasks \o TaskOf(due) /\ p.delayed = rest
  BY <1>1 DEF PromoteReadyDelayedTasks, Schedulers
<1> HIDE DEF due, rest, p
<1>6. DOMAIN due = 1..Len(due) /\ Len(due) \in Nat
  BY <1>3, LenProperties
<1>7. \A i \in DOMAIN due : due[i] \in Delayed
  BY <1>3, <1>6, ElementOfSeq
<1>8. TaskOf(due) \in Seq(Tasks)
  <2>1. \A i \in 1..Len(due) : due[i].task \in Tasks
    BY <1>6, <1>7 DEF Delayed
  <2>2. TaskOf(due) \in [1..Len(due) -> Tasks]
    BY <1>6, <2>1 DEF TaskOf
  <2>3. QED
    BY <1>6, <2>2, SeqDef
<1>9. \A t \in Elements(TaskOf(due)) : \E i \in DOMAIN s.delayed : t = s.delayed[i].task
  <2>1. \A t \in Elements(TaskOf(due)) : \E e \in Elements(due) : t = e.task
    BY DEF Elements, ValuesAt, TaskOf
  <2>2. QED
    BY <1>2, <1>3, <2>1 DEF ValuesAt
<1>10. \A e \in Elements(rest) : e \in Elements(s.delayed)
  BY <1>4 DEF Elements, ValuesAt
<1>11. QED
  BY <1>5, <1>8, <1>9, <1>10 DEF due, rest, p

(* A drain keeps the slots, and a ready task is in the batch or stays ready. *)
LEMMA DrainKeepsSlots ==
  ASSUME NEW s \in Schedulers, NEW n \in Nat \ {0}, SlotsHeld(s)
  PROVE  LET d == DrainReadyBatch(s, n)
         IN  /\ SlotsHeld(d.scheduler)
             /\ OnePerSlot(d.batch)
             /\ Elements(s.tasks) \subseteq Elements(d.batch) \cup Elements(d.scheduler.tasks)
             /\ \A t \in Elements(d.scheduler.tasks) :
                  t \in Elements(s.tasks) \/ DeepContinuation(t)
<1> DEFINE p     == PromoteReadyDelayedTasks(s)
           late  == TaskOf(Keep(s.delayed, DueAt(s)))
           o     == ByPriority(p.tasks)
           q     == DispatchOrder(s)
           limit == BatchLimit(q, n)
           batch == SubSeq(q, 1, limit)
           rest  == SubSeq(q, limit + 1, Len(q))
           d     == DrainReadyBatch(s, n)
<1>1. /\ p \in Schedulers /\ s.tasks \in Seq(Tasks) /\ late \in Seq(Tasks)
      /\ p.tasks = s.tasks \o late
      /\ \A t \in Elements(late) : \E i \in DOMAIN s.delayed : t = s.delayed[i].task
      /\ \A e \in Elements(p.delayed) : e \in Elements(s.delayed)
  BY PromoteProperties, PromotedParts DEF Schedulers
<1>2. p.tasks \in Seq(Tasks) /\ s.burst \in Nat
  BY <1>1 DEF Schedulers
<1>3. d.batch = batch /\ d.scheduler = [p EXCEPT !.tasks = rest, !.burst = RecordDispatch(p.burst, batch)]
  BY DEF DrainReadyBatch
<1>4. q = PromoteBackgroundTurn(o, s.burst)
  BY DEF DispatchOrder
<1>5. d.scheduler.tasks = rest /\ d.scheduler.delayed = p.delayed
  <2> HIDE DEF p, batch, rest, d
  <2>1. QED
    BY <1>1, <1>3 DEF Schedulers
<1> HIDE DEF p, late, d
<1>6. \A t \in Elements(late) : DeepContinuation(t)
  BY <1>1 DEF SlotsHeld
<1>7. /\ OnePerSlot(p.tasks)
      /\ Elements(p.tasks) = Elements(s.tasks) \cup Elements(late)
  BY <1>1, <1>6, ConcatKeepsSlots, ConcatElements DEF SlotsHeld
<1>8. OnePerSlot(q)
  BY <1>2, <1>4, <1>7, DispatchKeepsSlots
<1>9. q \in Seq(Tasks) /\ Elements(q) = Elements(p.tasks)
  <2>1. o \in Seq(Tasks) /\ Elements(o) = Elements(p.tasks)
    BY <1>2, ByPriorityProperties
  <2> HIDE DEF o, q
  <2>2. QED
    BY <1>2, <1>4, <2>1, BackgroundTurnProperties
<1> HIDE DEF o, q
<1>10. limit \in 0..Len(q)
  <2>1. Len(q) \in Nat
    BY <1>9, LenProperties
  <2>2. QED
    BY <2>1 DEF BatchLimit, Smaller
<1> HIDE DEF limit
<1>11. /\ Selects(rest, q) /\ Selects(batch, q)
       /\ Elements(batch) \cup Elements(rest) = Elements(q)
  BY <1>9, <1>10, SplitSelects, SplitProperties
<1> HIDE DEF batch, rest
<1>12. OnePerSlot(rest) /\ OnePerSlot(batch)
  BY <1>8, <1>11, SelectionKeepsSlots
<1>13. \A i \in DOMAIN p.delayed : DeepContinuation(p.delayed[i].task)
  <2>1. \A e \in Elements(s.delayed) : DeepContinuation(e.task)
    BY DEF SlotsHeld, Elements, ValuesAt
  <2>2. \A i \in DOMAIN p.delayed : p.delayed[i] \in Elements(p.delayed)
    BY DEF Elements, ValuesAt
  <2>3. QED
    BY <1>1, <2>1, <2>2
<1>14. QED
  BY <1>3, <1>5, <1>6, <1>7, <1>9, <1>11, <1>12, <1>13 DEF SlotsHeld, d

(* with_workspace_maintenance keeps the slots. *)
LEMMA DrainRootKeepsSlots ==
  ASSUME NEW s \in Schedulers, NEW root \in Roots, SlotsHeld(s)
  PROVE  /\ SlotsHeld(DrainTasksForRoot(s, root))
         /\ Elements(DrainTasksForRoot(s, root).tasks) = {t \in Elements(s.tasks) : t.root # root}
<1> DEFINE I == {i \in DOMAIN s.tasks : s.tasks[i].root # root}
           J == {i \in DOMAIN s.delayed : s.delayed[i].task.root # root}
           d == DrainTasksForRoot(s, root)
<1>1. s.tasks \in Seq(Tasks) /\ s.delayed \in Seq(Delayed)
  BY DEF Schedulers
<1>2. d.tasks = Keep(s.tasks, I) /\ d.delayed = Keep(s.delayed, J)
  BY DEF DrainTasksForRoot, Schedulers
<1>3. I \in SUBSET DOMAIN s.tasks /\ J \in SUBSET DOMAIN s.delayed
  OBVIOUS
<1>4. /\ Selects(d.tasks, s.tasks) /\ Elements(d.tasks) = ValuesAt(s.tasks, I)
      /\ Elements(d.delayed) = ValuesAt(s.delayed, J)
  <2> HIDE DEF I, J, d
  <2>1. QED
    BY <1>1, <1>2, <1>3, KeepProperties, KeepSelects
<1>5. OnePerSlot(d.tasks)
  BY <1>4, SelectionKeepsSlots DEF SlotsHeld
<1>6. \A i \in DOMAIN d.delayed : DeepContinuation(d.delayed[i].task)
  BY <1>4 DEF SlotsHeld, Elements, ValuesAt
<1>7. Elements(d.tasks) = {t \in Elements(s.tasks) : t.root # root}
  BY <1>4 DEF Elements, ValuesAt
<1> HIDE DEF d
<1>8. QED
  BY <1>5, <1>6, <1>7 DEF SlotsHeld, d

(* A task, numbered or stamped, stays in its slot. *)
LEMMA NumberedSlot ==
  ASSUME NEW s \in Schedulers, NEW t \in Tasks
  PROVE  /\ TasksCanCoalesce(Numbered(s, t), t)
         /\ TasksCanCoalesce(Stamped(s, t), t)
         /\ Numbered(s, t).paths = t.paths /\ Stamped(s, t).paths = t.paths
         /\ LatestWins(Numbered(s, t)) = LatestWins(t)
<1>1. s.generation \in Nat /\ t.generation \in Nat
  BY DEF Schedulers, Tasks
<1>2. TasksCanCoalesce(Numbered(s, t), t)
  BY Zenon DEF TasksCanCoalesce, Numbered, TaskAdmission, ChangedPathsAdmission, Tasks
<1>3. TasksCanCoalesce(t, t)
  BY DEF TasksCanCoalesce
<1>4. Numbered(s, t).paths = t.paths
  BY DEF Numbered, Tasks
<1>5. LatestWins(Numbered(s, t)) = LatestWins(t)
  BY <1>2 DEF LatestWins, TasksCanCoalesce
<1>6. QED
  BY <1>2, <1>3, <1>4, <1>5 DEF Stamped

(* What a scheduling call leaves in the ready queue.  n is what t became. *)
ReadyAfter(s, r, t, n) ==
  /\ n \in Elements(r.scheduler.tasks)
  /\ TasksCanCoalesce(n, t)
  /\ t.paths \subseteq n.paths
  /\ \A c \in Elements(r.scheduler.tasks) : c \in Elements(s.tasks) \/ c = n
  /\ \A c \in Elements(s.tasks) :
       \/ c \in Elements(r.scheduler.tasks)
       \/ Replaces(n, c)
       \/ /\ TasksCanCoalesce(c, t) /\ t.kind = "changed-paths"
          /\ ~LatestWins(t) => c.paths \subseteq n.paths

(* Coalescing a task into a waiting one keeps one task per slot ... *)
LEMMA CoalesceKeepsSlots ==
  ASSUME NEW s \in Schedulers, NEW t \in Tasks, SlotsHeld(s), t.kind = "changed-paths",
         NEW i \in DOMAIN s.tasks, TasksCanCoalesce(s.tasks[i], t)
  PROVE  LET r == ScheduleCoalesced(s, t, i)
         IN  /\ SlotsHeld(r.scheduler)
             /\ \E n : ReadyAfter(s, r, t, n)
<1> DEFINE e   == s.tasks[i]
           num == Numbered(s, t)
           new == Coalesced(e, num)
           q   == [s.tasks EXCEPT ![i] = new]
           r   == ScheduleCoalesced(s, t, i)
<1>1. s.tasks \in Seq(Tasks) /\ s.delayed \in Seq(Delayed)
  BY DEF Schedulers
<1>2. e \in Tasks
  <2>1. i \in 1..Len(s.tasks)
    BY <1>1, LenProperties
  <2>2. QED
    BY <1>1, <2>1, ElementOfSeq
<1>3. /\ num \in Tasks /\ TasksCanCoalesce(num, t)
      /\ num.paths = t.paths /\ LatestWins(num) = LatestWins(t)
  BY StampedProperties, NumberedSlot
<1>4. TasksCanCoalesce(e, num)
  BY <1>3 DEF TasksCanCoalesce
<1>5. new \in Tasks /\ TasksCanCoalesce(new, e)
  BY <1>2, <1>3, <1>4, CoalescedProperties
<1>6. /\ t.paths \subseteq new.paths
      /\ ~LatestWins(t) => e.paths \subseteq new.paths
  <2>1. CASE LatestWins(num)
    BY <1>3, <2>1 DEF Coalesced
  <2>2. CASE ~LatestWins(num)
    <3>1. new.paths = e.paths \cup num.paths
      BY <1>2, <2>2 DEF Coalesced, Tasks
    <3>2. QED
      BY <1>3, <3>1
  <2>3. QED
    BY <2>1, <2>2
<1>7. r.scheduler.tasks = q /\ r.scheduler.delayed = s.delayed
  BY DEF ScheduleCoalesced, Result, Schedulers
<1> HIDE DEF new, num, r
<1>8. DOMAIN q = DOMAIN s.tasks /\ \A k \in DOMAIN q : q[k] = IF k = i THEN new ELSE s.tasks[k]
  OBVIOUS
<1>9. /\ new \in Elements(q)
      /\ Elements(q) \subseteq Elements(s.tasks) \cup {new}
      /\ Elements(s.tasks) \subseteq Elements(q) \cup {e}
  BY <1>1, <1>5, PutProperties
<1> HIDE DEF q
<1>10. \A k \in DOMAIN q : TasksCanCoalesce(q[k], s.tasks[k])
  BY <1>5, <1>8 DEF TasksCanCoalesce
<1>11. OnePerSlot(q)
  <2> SUFFICES ASSUME NEW k \in DOMAIN q, NEW m \in DOMAIN q, k # m, q[k].reason \notin DeepReasons
               PROVE  Apart(q[k], q[m])
    BY DEF OnePerSlot
  <2>1. TasksCanCoalesce(q[k], s.tasks[k]) /\ TasksCanCoalesce(q[m], s.tasks[m])
    BY <1>10
  <2>2. s.tasks[k].reason \notin DeepReasons
    BY <2>1 DEF TasksCanCoalesce
  <2>3. Apart(s.tasks[k], s.tasks[m])
    BY <1>8, <2>2 DEF SlotsHeld, OnePerSlot
  <2>4. QED
    BY <2>1, <2>3 DEF Apart, TasksCanCoalesce
<1>12. SlotsHeld(r.scheduler)
  BY <1>7, <1>11 DEF SlotsHeld
<1>13. TasksCanCoalesce(new, t)
  BY <1>5 DEF TasksCanCoalesce
<1>14. \A c \in Elements(s.tasks) : c \in Elements(q) \/ c = e
  BY <1>9
<1>15. ReadyAfter(s, r, t, new)
  BY <1>6, <1>7, <1>9, <1>13, <1>14 DEF ReadyAfter
<1>16. QED
  BY <1>12, <1>15 DEF r

(* ... and so does appending one that nothing waiting coalesces with. *)
LEMMA AppendKeepsSlots ==
  ASSUME NEW s \in Schedulers, NEW t \in Tasks, SlotsHeld(s),
         t.kind = "changed-paths" =>
           \A i \in DOMAIN s.tasks : ~TasksCanCoalesce(s.tasks[i], t)
  PROVE  LET r == ScheduleAppended(s, t)
         IN  /\ SlotsHeld(r.scheduler)
             /\ \E n : ReadyAfter(s, r, t, n)
<1> DEFINE new  == Stamped(s, t)
           kept == {i \in DOMAIN s.tasks : ~Replaces(new, s.tasks[i])}
           k    == Keep(s.tasks, kept)
           q    == Append(k, new)
           r    == ScheduleAppended(s, t)
<1>1. s.tasks \in Seq(Tasks) /\ s.delayed \in Seq(Delayed)
  BY DEF Schedulers
<1>2. new \in Tasks /\ TasksCanCoalesce(new, t) /\ new.paths = t.paths
  BY StampedProperties, NumberedSlot
<1>3. r.scheduler.tasks = q /\ r.scheduler.delayed = s.delayed
  BY DEF ScheduleAppended, Result, Schedulers
<1>4. kept \in SUBSET DOMAIN s.tasks
  OBVIOUS
<1>5. \A i \in DOMAIN s.tasks : i \in kept <=> ~Replaces(new, s.tasks[i])
  OBVIOUS
<1> HIDE DEF new, kept, r
<1>6. k \in Seq(Tasks) /\ Elements(k) = ValuesAt(s.tasks, kept) /\ Selects(k, s.tasks)
  BY <1>1, <1>4, KeepProperties, KeepSelects
<1> HIDE DEF k
<1>7. OnePerSlot(k)
  BY <1>6, SelectionKeepsSlots DEF SlotsHeld
<1>8. q \in Seq(Tasks) /\ Elements(q) = Elements(k) \cup {new}
  BY <1>2, <1>6, AppendElements
<1>9. \A c \in Elements(k) : Apart(c, new) /\ Apart(new, c)
  <2> SUFFICES ASSUME NEW c \in Elements(k)
               PROVE  Apart(c, new) /\ Apart(new, c)
    OBVIOUS
  <2>1. PICK i \in DOMAIN s.tasks : c = s.tasks[i] /\ ~Replaces(new, c)
    BY <1>4, <1>5, <1>6 DEF ValuesAt
  <2>2. CASE t.kind = "changed-paths"
    <3>1. ~TasksCanCoalesce(c, t) /\ new.kind = "changed-paths"
      BY <1>2, <2>1, <2>2 DEF TasksCanCoalesce
    <3>2. QED
      BY <1>2, <3>1 DEF Apart, TasksCanCoalesce
  <2>3. CASE t.kind # "changed-paths"
    <3>1. new.kind # "changed-paths" /\ new.kind \in Kinds
      BY <1>2, <2>3 DEF TasksCanCoalesce, Tasks
    <3>2. <<new.kind, new.kind>> \in TaskKindReplacesPending
      BY <3>1 DEF TaskKindReplacesPending, Kinds
    <3>3. ~(c.root = new.root /\ c.kind = new.kind)
      BY <2>1, <3>1, <3>2 DEF Replaces
    <3>4. QED
      BY <3>3 DEF Apart, TasksCanCoalesce
  <2>4. QED
    BY <2>2, <2>3
<1>10. OnePerSlot(q)
  <2> SUFFICES ASSUME NEW a \in DOMAIN q, NEW b \in DOMAIN q, a # b, q[a].reason \notin DeepReasons
               PROVE  Apart(q[a], q[b])
    BY DEF OnePerSlot
  <2>1. DOMAIN k = 1..Len(k) /\ Len(k) \in Nat
    BY <1>6, LenProperties
  <2>2. /\ Len(q) = Len(k) + 1
        /\ \A j \in 1..Len(k) : q[j] = k[j]
        /\ q[Len(k) + 1] = new
    BY <1>2, <1>6, AppendProperties
  <2>3. DOMAIN q = 1..(Len(k) + 1)
    BY <1>8, <2>2, LenProperties
  <2> HIDE DEF q
  <2>4. \A j \in DOMAIN q : \/ j \in DOMAIN k /\ q[j] = k[j] /\ k[j] \in Elements(k)
                            \/ j = Len(k) + 1 /\ q[j] = new
    BY <2>1, <2>2, <2>3 DEF Elements, ValuesAt
  <2>5. CASE a \in DOMAIN k /\ b \in DOMAIN k /\ q[a] = k[a] /\ q[b] = k[b]
    BY <1>7, <2>5 DEF OnePerSlot
  <2>6. CASE a = Len(k) + 1 /\ q[a] = new /\ q[b] \in Elements(k)
    BY <1>9, <2>6
  <2>7. CASE b = Len(k) + 1 /\ q[b] = new /\ q[a] \in Elements(k)
    BY <1>9, <2>7
  <2>8. QED
    BY <2>4, <2>5, <2>6, <2>7
<1>11. SlotsHeld(r.scheduler)
  BY <1>3, <1>10 DEF SlotsHeld
<1>12. Elements(q) \subseteq Elements(s.tasks) \cup {new}
  BY <1>4, <1>6, <1>8 DEF Elements, ValuesAt
<1>13. \A c \in Elements(s.tasks) : c \in Elements(q) \/ Replaces(new, c)
  BY <1>5, <1>6, <1>8 DEF Elements, ValuesAt
<1> HIDE DEF q
<1>14. ReadyAfter(s, r, t, new)
  BY <1>2, <1>3, <1>8, <1>12, <1>13 DEF ReadyAfter
<1>15. QED
  BY <1>11, <1>14 DEF r

(* A task that coalesces is one of changed paths (schedule_with_result tests  *)
(* the kind before it looks for a pending task to join).                      *)
LEMMA ScheduleCases ==
  ASSUME NEW s \in Schedulers, NEW t \in Tasks
  PROVE  \/ /\ ScheduleWithResult(s, t) = Result(s, {}, FALSE)
            /\ \/ IsEmptyNoop(t)
               \/ \E i \in DOMAIN s.tasks : /\ TasksCanCoalesce(s.tasks[i], t)
                                            /\ IsChangedPathNoop(s.tasks[i], t)
         \/ \E i \in DOMAIN s.tasks : /\ TasksCanCoalesce(s.tasks[i], t) /\ t.kind = "changed-paths"
                                      /\ ScheduleWithResult(s, t) = ScheduleCoalesced(s, t, i)
         \/ /\ ScheduleWithResult(s, t) = ScheduleAppended(s, t)
            /\ t.kind = "changed-paths" =>
                 \A i \in DOMAIN s.tasks : ~TasksCanCoalesce(s.tasks[i], t)
<1> DEFINE matches == CoalescesAt(s.tasks, t)
           i       == First(matches)
           noop    == IsEmptyNoop(t) \/ (matches # {} /\ IsChangedPathNoop(s.tasks[i], t))
<1>1. s.tasks \in Seq(Tasks)
  BY DEF Schedulers
<1>2. Len(s.tasks) \in Nat /\ DOMAIN s.tasks = 1..Len(s.tasks)
  BY <1>1, LenProperties
<1>3. /\ matches \in SUBSET (1..Len(s.tasks))
      /\ \A k \in matches : TasksCanCoalesce(s.tasks[k], t)
      /\ matches # {} => t.kind = "changed-paths"
      /\ t.kind = "changed-paths" => \A k \in DOMAIN s.tasks : TasksCanCoalesce(s.tasks[k], t) => k \in matches
  BY <1>2 DEF CoalescesAt
<1>4. ScheduleWithResult(s, t) =
        IF noop THEN Result(s, {}, FALSE)
        ELSE IF matches # {} THEN ScheduleCoalesced(s, t, i) ELSE ScheduleAppended(s, t)
  BY DEF ScheduleWithResult
<1> HIDE DEF matches
<1>5. matches # {} => i \in DOMAIN s.tasks /\ TasksCanCoalesce(s.tasks[i], t)
  BY <1>2, <1>3, FirstProperties
<1> HIDE DEF i
<1>6. CASE noop
  BY <1>4, <1>5, <1>6
<1>7. CASE ~noop /\ matches # {}
  BY <1>3, <1>4, <1>5, <1>7
<1>8. CASE ~noop /\ matches = {}
  BY <1>3, <1>4, <1>8
<1>9. QED
  BY <1>6, <1>7, <1>8

(* schedule_with_result keeps the slots; the call was dropped as a no-op, or  *)
(* the ready queue holds what the task became.                                *)
LEMMA ScheduleKeepsSlots ==
  ASSUME NEW s \in Schedulers, NEW t \in Tasks, SlotsHeld(s)
  PROVE  LET r == ScheduleWithResult(s, t)
         IN  /\ SlotsHeld(r.scheduler)
             /\ \/ /\ r.scheduler.tasks = s.tasks
                   /\ \/ IsEmptyNoop(t)
                      \/ \E c \in Elements(s.tasks) : TasksCanCoalesce(c, t) /\ t.paths \subseteq c.paths
                \/ \E n : ReadyAfter(s, r, t, n)
<1> DEFINE r == ScheduleWithResult(s, t)
<1>1. CASE /\ r = Result(s, {}, FALSE)
           /\ \/ IsEmptyNoop(t)
              \/ \E i \in DOMAIN s.tasks : /\ TasksCanCoalesce(s.tasks[i], t)
                                           /\ IsChangedPathNoop(s.tasks[i], t)
  <2>1. r.scheduler = s
    BY <1>1 DEF Result
  <2>2. IsEmptyNoop(t) \/ \E c \in Elements(s.tasks) : TasksCanCoalesce(c, t) /\ t.paths \subseteq c.paths
    BY <1>1 DEF Elements, ValuesAt, IsChangedPathNoop
  <2> HIDE DEF r
  <2>3. QED
    BY <2>1, <2>2 DEF r
<1>2. CASE \E i \in DOMAIN s.tasks : /\ TasksCanCoalesce(s.tasks[i], t) /\ t.kind = "changed-paths"
                                     /\ r = ScheduleCoalesced(s, t, i)
  BY <1>2, CoalesceKeepsSlots
<1>3. CASE /\ r = ScheduleAppended(s, t)
           /\ t.kind = "changed-paths" =>
                \A i \in DOMAIN s.tasks : ~TasksCanCoalesce(s.tasks[i], t)
  BY <1>3, AppendKeepsSlots
<1>4. QED
  BY <1>1, <1>2, <1>3, ScheduleCases

(* A retry is dropped, joins the delayed task of its slot or is delayed; the  *)
(* attempt is counted in every case.                                          *)
LEMMA RetryCases ==
  ASSUME NEW s \in Schedulers, NEW t \in Tasks
  PROVE  \E c \in Schedulers, delay \in Nat :
           /\ c.tasks = s.tasks /\ c.delayed = s.delayed /\ c.generation = s.generation
           /\ \/ /\ ScheduleBackgroundRetry(s, t) = Result(c, {}, FALSE)
                 /\ DOMAIN s.delayed # {}
              \/ \E i \in DOMAIN s.delayed :
                   /\ TasksCanCoalesce(s.delayed[i].task, t)
                   /\ ScheduleBackgroundRetry(s, t) = RetryCoalesced(c, t, i, delay)
              \/ /\ ScheduleBackgroundRetry(s, t) = RetryAppended(c, t, delay)
                 /\ \A i \in DOMAIN s.delayed : ~TasksCanCoalesce(s.delayed[i].task, t)
<1> DEFINE key     == <<t.root, t.reason>>
           c       == [s EXCEPT !.attempts[key] = Smaller(@ + 1, LastDoubling)]
           delay   == BackgroundRetryDelay(c.attempts[key])
           matches == {i \in DOMAIN s.delayed : TasksCanCoalesce(s.delayed[i].task, t)}
           i       == First(matches)
           r       == ScheduleBackgroundRetry(s, t)
<1>1. s.delayed \in Seq(Delayed) /\ DOMAIN s.delayed = 1..Len(s.delayed) /\ Len(s.delayed) \in Nat
  <2>1. s.delayed \in Seq(Delayed)
    BY DEF Schedulers
  <2>2. QED
    BY <2>1, LenProperties
<1>2. /\ c.tasks = s.tasks /\ c.delayed = s.delayed /\ c.generation = s.generation
      /\ DOMAIN c = DOMAIN s
  BY DEF Schedulers
<1>3. r = IF matches # {}
          THEN IF IsChangedPathNoop(s.delayed[i].task, t)
               THEN Result(c, {}, FALSE)
               ELSE RetryCoalesced(c, t, i, delay)
          ELSE RetryAppended(c, t, delay)
  BY <1>2 DEF ScheduleBackgroundRetry
<1> DEFINE attempt == Smaller(s.attempts[key] + 1, LastDoubling)
           a       == [s.attempts EXCEPT ![key] = attempt]
<1>4. /\ key \in Roots \X Reasons /\ s.attempts \in [Roots \X Reasons -> Nat]
      /\ attempt \in Nat
  <2>1. key \in Roots \X Reasons /\ s.attempts \in [Roots \X Reasons -> Nat]
    BY DEF Schedulers, Tasks
  <2>2. QED
    BY <2>1 DEF Smaller, LastDoubling
<1>5. c = [s EXCEPT !.attempts = a]
  BY DEF Schedulers
<1> HIDE DEF c, r, delay, attempt, key
<1>6. c \in Schedulers /\ delay \in Nat
  <2>1. a \in [Roots \X Reasons -> Nat] /\ a[key] = attempt
    BY <1>4
  <2> HIDE DEF a
  <2>2. c \in Schedulers /\ c.attempts[key] = attempt
    BY <1>5, <2>1 DEF Schedulers
  <2>3. delay \in Nat
    BY <1>4, <2>2, DelayType DEF delay
  <2>4. QED
    BY <2>2, <2>3
<1>7. ASSUME matches # {}
      PROVE  i \in DOMAIN s.delayed /\ TasksCanCoalesce(s.delayed[i].task, t)
  <2>1. /\ matches \in SUBSET (1..Len(s.delayed))
        /\ \A k \in matches : k \in DOMAIN s.delayed /\ TasksCanCoalesce(s.delayed[k].task, t)
    BY <1>1
  <2> HIDE DEF matches
  <2>2. First(matches) \in matches
    BY <1>1, <1>7, <2>1, FirstProperties
  <2>3. QED
    BY <2>1, <2>2
<1>a. matches = {} => \A k \in DOMAIN s.delayed : ~TasksCanCoalesce(s.delayed[k].task, t)
  OBVIOUS
<1> HIDE DEF matches, i
<1>8. \/ r = Result(c, {}, FALSE) /\ DOMAIN s.delayed # {}
      \/ \E k \in DOMAIN s.delayed : /\ TasksCanCoalesce(s.delayed[k].task, t)
                                      /\ r = RetryCoalesced(c, t, k, delay)
      \/ /\ r = RetryAppended(c, t, delay)
         /\ \A k \in DOMAIN s.delayed : ~TasksCanCoalesce(s.delayed[k].task, t)
  BY <1>3, <1>7, <1>a
<1>9. QED
  BY <1>2, <1>6, <1>8 DEF r

(* schedule_background_retry of a deep continuation keeps the slots: the      *)
(* ready queue stays, and the delayed one holds deep continuations only.      *)
LEMMA RetryKeepsSlots ==
  ASSUME NEW s \in Schedulers, NEW t \in Tasks, SlotsHeld(s), DeepContinuation(t)
  PROVE  /\ SlotsHeld(ScheduleBackgroundRetry(s, t).scheduler)
         /\ ScheduleBackgroundRetry(s, t).scheduler.tasks = s.tasks
<1> DEFINE r == ScheduleBackgroundRetry(s, t)
<1>1. s.delayed \in Seq(Delayed) /\ DOMAIN s.delayed = 1..Len(s.delayed) /\ Len(s.delayed) \in Nat
  <2>1. s.delayed \in Seq(Delayed)
    BY DEF Schedulers
  <2>2. QED
    BY <2>1, LenProperties
<1>2. PICK c \in Schedulers, delay \in Nat :
        /\ c.tasks = s.tasks /\ c.delayed = s.delayed
        /\ \/ r = Result(c, {}, FALSE)
           \/ \E i \in DOMAIN s.delayed : /\ TasksCanCoalesce(s.delayed[i].task, t)
                                           /\ r = RetryCoalesced(c, t, i, delay)
           \/ r = RetryAppended(c, t, delay)
  BY RetryCases
<1>3. \A k \in DOMAIN s.delayed : s.delayed[k] \in Delayed /\ DeepContinuation(s.delayed[k].task)
  BY <1>1, ElementOfSeq DEF SlotsHeld
<1> HIDE DEF r
<1>4. ASSUME NEW i \in DOMAIN s.delayed, TasksCanCoalesce(s.delayed[i].task, t),
             r = RetryCoalesced(c, t, i, delay)
      PROVE  SlotsHeld(r.scheduler) /\ r.scheduler.tasks = s.tasks
  <2> DEFINE new == Coalesced(s.delayed[i].task, Numbered(c, t))
             q   == [s.delayed EXCEPT ![i] = [task |-> new, wait |-> delay]]
  <2>1. r.scheduler.tasks = s.tasks /\ r.scheduler.delayed = q
    BY <1>2, <1>4 DEF RetryCoalesced, Result, Schedulers
  <2>2. TasksCanCoalesce(new, s.delayed[i].task)
    <3>1. s.delayed[i].task \in Tasks
      BY <1>3, <1>4 DEF Delayed
    <3>2. Numbered(c, t) \in Tasks /\ TasksCanCoalesce(Numbered(c, t), t)
      BY <1>2, StampedProperties, NumberedSlot
    <3>3. TasksCanCoalesce(s.delayed[i].task, Numbered(c, t))
      BY <1>4, <3>2 DEF TasksCanCoalesce
    <3>4. QED
      BY <3>1, <3>2, <3>3, CoalescedProperties
  <2>3. DeepContinuation(new)
    BY <1>3, <1>4, <2>2 DEF DeepContinuation, TasksCanCoalesce
  <2> HIDE DEF new
  <2>4. \A k \in DOMAIN q : DeepContinuation(q[k].task)
    BY <1>3, <2>3
  <2>5. QED
    BY <2>1, <2>4 DEF SlotsHeld
<1>5. CASE r = RetryAppended(c, t, delay)
  <2> DEFINE v == [task |-> Stamped(c, t), wait |-> delay]
             q == Append(s.delayed, v)
  <2>1. r.scheduler.tasks = s.tasks /\ r.scheduler.delayed = q
    BY <1>2, <1>5 DEF RetryAppended, Result, Schedulers
  <2>2. DeepContinuation(v.task)
    <3>1. TasksCanCoalesce(Stamped(c, t), t)
      BY <1>2, NumberedSlot
    <3>2. QED
      BY <3>1 DEF DeepContinuation, TasksCanCoalesce
  <2> HIDE DEF v
  <2>3. \A k \in DOMAIN q : (k \in DOMAIN s.delayed /\ q[k] = s.delayed[k]) \/ q[k] = v
    BY <1>1, AppendProperties, LenProperties
  <2>4. \A k \in DOMAIN q : DeepContinuation(q[k].task)
    BY <1>3, <2>2, <2>3
  <2>5. QED
    BY <2>1, <2>4 DEF SlotsHeld, r
<1>6. CASE r = Result(c, {}, FALSE)
  BY <1>2, <1>6 DEF Result, SlotsHeld, r
<1>7. QED
  BY <1>2, <1>4, <1>5, <1>6 DEF r

-----------------------------------------------------------------------------
(* The tasks callers build, and the calls a result schedules.                *)

(* A task built from typed parts is a task. *)
LEMMA TaskType ==
  ASSUME NEW root \in Roots, NEW kind \in Kinds, NEW priority \in Priorities,
         NEW paths \in SUBSET Paths, NEW g \in Nat, NEW reason \in Reasons
  PROVE  Task(root, kind, priority, paths, g, reason) \in Tasks
BY DEF Task, Tasks

(* The priorities of the planner are priorities ... *)
LEMMA PriorityType ==
  /\ Background \in Priorities /\ SdkIndexing \in Priorities /\ FullRefresh \in Priorities
  /\ ChangedFiles \in Priorities /\ VisibleFiles \in Priorities
  /\ ForegroundCompletion \in Priorities /\ ForegroundNavigation \in Priorities
BY DEF Priorities, Background, SdkIndexing, FullRefresh, ChangedFiles, VisibleFiles,
       ForegroundCompletion, ForegroundNavigation

(* ... and its reasons are reasons. *)
LEMMA ReasonType ==
  /\ "open-workspace" \in Reasons /\ "refresh-workspace" \in Reasons
  /\ "background-refresh-after-open" \in Reasons /\ "watcher" \in Reasons
  /\ "sdk-apply" \in Reasons /\ "workspace-discovery" \in Reasons
  /\ "full-refresh-files" \in Reasons /\ "full-refresh-deep" \in Reasons
  /\ PathReasons \subseteq Reasons
BY DEF Reasons, DiscoveryReasons, ContinuationReasons, DeepReasons, PathReasons, HintPriority

(* Every task the requests build is typed. *)
LEMMA BuiltTasks ==
  ASSUME NEW root \in Roots, NEW paths \in SUBSET Paths, NEW g \in Nat
  PROVE  /\ OpenTask(root) \in Tasks
         /\ RefreshTask(root, "refresh-workspace") \in Tasks
         /\ RefreshTask(root, "background-refresh-after-open") \in Tasks
         /\ SdkTask(root, paths) \in Tasks
         /\ WatcherTask(root, paths) \in Tasks
         /\ FileLayerTask(root, paths) \in Tasks
         /\ DeepTask(root, paths, g) \in Tasks
         /\ DiscoveryTask(root, paths, g) \in Tasks
         /\ \A reason \in DOMAIN HintPriority : HintTask(root, paths, reason) \in Tasks
<1>1. {"open-workspace", "refresh-workspace", "changed-paths", "sdk"} \subseteq Kinds
  BY DEF Kinds
<1>2. \A reason \in DOMAIN HintPriority : HintPriority[reason] \in Priorities /\ reason \in Reasons
  <2>1. DOMAIN HintPriority \subseteq Reasons
    BY ReasonType DEF PathReasons
  <2>2. \A reason \in DOMAIN HintPriority : HintPriority[reason] \in Priorities
    BY PriorityType DEF HintPriority
  <2>3. QED
    BY <2>1, <2>2
<1>3. {} \in SUBSET Paths /\ 0 \in Nat
  OBVIOUS
<1>4. QED
  BY <1>1, <1>2, <1>3, TaskType, PriorityType, ReasonType
     DEF OpenTask, RefreshTask, SdkTask, WatcherTask, FileLayerTask, DeepTask,
         DiscoveryTask, HintTask

Calls == [how : {"schedule", "progress", "retry", "resume"}, task : Tasks]

(* A request for paths is a task with paths and with a reason of its own. *)
LEMMA PathRequestType ==
  ASSUME NEW root \in Roots, NEW t \in PathRequests(root)
  PROVE  t \in Tasks /\ t.paths \in SUBSET Paths /\ t.reason \in PathReasons
<1>1. CASE \E paths \in SomeOf(Paths) : t = WatcherTask(root, paths)
  <2>1. PICK paths \in SomeOf(Paths) : t = WatcherTask(root, paths)
    BY <1>1
  <2>2. paths \in SUBSET Paths /\ 0 \in Nat
    BY DEF SomeOf
  <2>3. t \in Tasks
    BY <2>1, <2>2, BuiltTasks
  <2>4. t.reason = "watcher"
    BY <2>1 DEF WatcherTask, Task
  <2>5. QED
    BY <2>3, <2>4 DEF Tasks, PathReasons
<1>2. CASE \E reason \in DOMAIN HintPriority : t \in HintRequests(root, reason)
  <2>1. PICK reason \in DOMAIN HintPriority : t \in HintRequests(root, reason)
    BY <1>2
  <2>2. PICK path \in Paths : t = HintTask(root, {path}, reason)
    BY <2>1 DEF HintRequests
  <2>3. {path} \in SUBSET Paths /\ 0 \in Nat
    OBVIOUS
  <2>4. t \in Tasks
    BY <2>2, <2>3, BuiltTasks
  <2>5. t.reason = reason
    BY <2>2 DEF HintTask, Task
  <2>6. QED
    BY <2>4, <2>5 DEF Tasks, PathReasons
<1>3. QED
  BY <1>1, <1>2 DEF PathRequests

(* A call on a scheduler that differs from sched in its attempts only. *)
LEMMA AttemptsDoNotMatter ==
  ASSUME NEW s, NEW c, NEW r, GoodResult(c, r), NewerReplacement(c, r),
         c.generation = s.generation, c.burst = s.burst,
         PendingTasks(c) = PendingTasks(s)
  PROVE  GoodResult(s, r) /\ NewerReplacement(s, r)
<1>1. GoodResult(s, r)
  BY DEF GoodResult
<1>2. NewerReplacement(s, r)
  BY DEF NewerReplacement
<1>3. QED
  BY <1>1, <1>2

(* Whatever is asked of the scheduler, its answer is good and names a newer task for each one it replaces. *)
LEMMA CallProperties ==
  ASSUME NEW s \in Schedulers, NEW call \in Calls
  PROVE  GoodResult(s, CallResult(s, call)) /\ NewerReplacement(s, CallResult(s, call))
<1> DEFINE t == call.task
<1>1. t \in Tasks
  BY DEF Calls
<1>2. CASE call.how = "schedule"
  BY <1>1, <1>2, ScheduleProperties DEF CallResult
<1>3. CASE call.how = "progress"
  <2> DEFINE c == ClearBackgroundRetry(s, t.root, t.reason)
  <2>1. CallResult(s, call) = ScheduleWithResult(c, t)
    BY <1>3 DEF CallResult
  <2>2. c = [s EXCEPT !.attempts = [s.attempts EXCEPT ![<<t.root, t.reason>>] = 0]]
    BY DEF ClearBackgroundRetry
  <2>3. [s.attempts EXCEPT ![<<t.root, t.reason>>] = 0] \in [Roots \X Reasons -> Nat]
    BY DEF Schedulers
  <2> HIDE DEF c, t
  <2>4. /\ c \in Schedulers /\ c.generation = s.generation /\ c.burst = s.burst
        /\ c.tasks = s.tasks /\ c.delayed = s.delayed
    BY <2>2, <2>3 DEF Schedulers
  <2>5. PendingTasks(c) = PendingTasks(s)
    BY <2>4 DEF PendingTasks
  <2>6. GoodResult(c, ScheduleWithResult(c, t)) /\ NewerReplacement(c, ScheduleWithResult(c, t))
    BY <1>1, <2>4, ScheduleProperties
  <2>7. QED
    BY <2>1, <2>4, <2>5, <2>6, AttemptsDoNotMatter
<1>4. CASE call.how = "retry"
  BY <1>1, <1>4, RetryProperties DEF CallResult
<1>5. CASE call.how = "resume"
  <2>1. CallResult(s, call) \in {Result(s, {}, FALSE), ScheduleWithResult(s, t)}
    BY <1>5 DEF CallResult
  <2>2. QED
    BY <1>1, <2>1, ScheduleProperties, UnscheduledProperties
<1>6. QED
  BY <1>2, <1>3, <1>4, <1>5 DEF Calls

(* No continuation, deep layer or discovery has the reason of a request for paths. *)
LEMMA PathReasonsAreApart ==
  PathReasons \cap (DeepReasons \cup DiscoveryReasons \cup ContinuationReasons) = {}
BY DEF PathReasons, HintPriority, DeepReasons, DiscoveryReasons, ContinuationReasons

(* The kind and the priority of a task go with its reason: callers build no   *)
(* other tasks, and coalescing changes neither.                               *)
ReasonKind(reason) ==
  IF reason = "open-workspace" THEN "open-workspace"
  ELSE IF reason \in {"refresh-workspace", "background-refresh-after-open"} THEN "refresh-workspace"
  ELSE IF reason = "sdk-apply" THEN "sdk"
  ELSE "changed-paths"

ReasonPriority(reason) ==
  IF reason = "open-workspace" THEN ForegroundNavigation
  ELSE IF reason \in {"refresh-workspace", "background-refresh-after-open", "full-refresh-files"}
       THEN FullRefresh
  ELSE IF reason = "sdk-apply" THEN SdkIndexing
  ELSE IF reason = "watcher" THEN ChangedFiles
  ELSE IF reason \in DeepReasons THEN Background
  ELSE IF reason \in DiscoveryReasons THEN VisibleFiles
  ELSE HintPriority[reason]

Built(t) == t.kind = ReasonKind(t.reason) /\ t.priority = ReasonPriority(t.reason)

(* The calls the result of t can schedule: none of them is a path request,    *)
(* only deep continuations are retried, and a task is built anew or is t.     *)
CallsFrom(t) == {c \in Calls : /\ c.task.reason \notin PathReasons
                               /\ c.how = "retry" => DeepContinuation(c.task)
                               /\ Built(c.task) \/ c.task = t}

(* The calls that any result can schedule. *)
PlanCalls == {c \in Calls : /\ c.task.reason \notin PathReasons
                            /\ c.how = "retry" => DeepContinuation(c.task)}

(* What the builders of IndexRequests build is built so. *)
LEMMA BuiltShape ==
  ASSUME NEW root, NEW paths, NEW g
  PROVE  /\ Built(OpenTask(root))
         /\ Built(RefreshTask(root, "refresh-workspace"))
         /\ Built(RefreshTask(root, "background-refresh-after-open"))
         /\ Built(SdkTask(root, paths))
         /\ Built(WatcherTask(root, paths))
         /\ Built(FileLayerTask(root, paths))
         /\ Built(DeepTask(root, paths, g))
         /\ Built(DiscoveryTask(root, paths, g))
         /\ \A reason \in DOMAIN HintPriority : Built(HintTask(root, paths, reason))
<1> USE DEF Built, ReasonKind, ReasonPriority, Task
<1>1. Built(OpenTask(root))
  BY DEF OpenTask
<1>2. /\ Built(RefreshTask(root, "refresh-workspace"))
      /\ Built(RefreshTask(root, "background-refresh-after-open"))
  BY DEF RefreshTask
<1>3. Built(SdkTask(root, paths))
  BY DEF SdkTask
<1>4. Built(WatcherTask(root, paths))
  BY DEF WatcherTask
<1>5. Built(FileLayerTask(root, paths))
  BY DEF FileLayerTask
<1>6. Built(DeepTask(root, paths, g))
  BY DEF DeepTask, DeepReasons
<1>7. Built(DiscoveryTask(root, paths, g))
  BY DEF DiscoveryTask, DiscoveryReasons, DeepReasons
<1>8. ASSUME NEW reason \in DOMAIN HintPriority
      PROVE  Built(HintTask(root, paths, reason))
  <2>1. reason \in {"visible-files", "foreground-completion", "foreground-navigation"}
    BY DEF HintPriority
  <2>2. reason \notin DeepReasons \cup DiscoveryReasons
    BY <2>1 DEF DeepReasons, DiscoveryReasons
  <2>3. QED
    BY <2>1, <2>2 DEF HintTask
<1>9. QED
  BY <1>1, <1>2, <1>3, <1>4, <1>5, <1>6, <1>7, <1>8

(* A plan is a sequence of such calls. *)
LEMMA PlansAreBuilt ==
  ASSUME NEW t \in Tasks,
         NEW plan \in AskedOnly(PossibleFollowUps(t) \cup AfterInterruption(t))
  PROVE  plan \in Seq(CallsFrom(t))
<1>0. {"open-workspace", "refresh-workspace", "background-refresh-after-open", "sdk-apply",
       "workspace-discovery", "full-refresh-files", "full-refresh-deep"} \cap PathReasons = {}
  BY DEF PathReasons, HintPriority
<1>1. /\ \A how \in {"schedule", "progress", "resume"}, u \in Tasks :
           u.reason \notin PathReasons /\ (Built(u) \/ u = t) => Call(how, u) \in CallsFrom(t)
      /\ \A u \in Tasks :
           DeepContinuation(u) /\ u.reason \notin PathReasons /\ Built(u) =>
             Call("retry", u) \in CallsFrom(t)
  BY DEF Call, Calls, CallsFrom
<1>2. /\ t.root \in Roots /\ t.generation \in Nat /\ {} \in SUBSET Paths /\ 0 \in Nat
      /\ \A paths \in SomeOf(Paths) : paths \in SUBSET Paths
  BY DEF Tasks, SomeOf
<1> DEFINE Ok == Seq(CallsFrom(t))
<1>3. /\ <<>> \in Ok
      /\ \A c \in CallsFrom(t) : <<c>> \in Ok
      /\ \A c, d \in CallsFrom(t) : <<c, d>> \in Ok
  OBVIOUS
<1> HIDE DEF Ok
<1>4. AfterOpen(t) \subseteq Ok
  <2>1. DiscoveryTask(t.root, {}, 0).reason = "workspace-discovery"
    BY DEF DiscoveryTask, Task
  <2>2. Call("schedule", DiscoveryTask(t.root, {}, 0)) \in CallsFrom(t)
    BY <1>0, <1>1, <1>2, <2>1, BuiltTasks, BuiltShape
  <2>3. QED
    BY <1>3, <2>2 DEF AfterOpen
<1>5. AfterSdk(t) \subseteq Ok
  <2>1. \A files : SdkTask(t.root, files).reason = "sdk-apply"
    BY DEF SdkTask, Task
  <2>2. \A files \in SomeOf(Paths) : Call("schedule", SdkTask(t.root, files)) \in CallsFrom(t)
    BY <1>0, <1>1, <1>2, <2>1, BuiltTasks, BuiltShape
  <2>3. QED
    BY <1>3, <2>2 DEF AfterSdk
<1>6. AfterLayer(t) \subseteq Ok
  <2>1. \A paths : /\ FileLayerTask(t.root, paths).reason = "full-refresh-files"
                   /\ DeepTask(t.root, paths, 0).reason = "full-refresh-deep"
    BY DEF FileLayerTask, DeepTask, Task
  <2>2. \A paths \in SomeOf(Paths) : Call("schedule", FileLayerTask(t.root, paths)) \in CallsFrom(t)
    BY <1>0, <1>1, <1>2, <2>1, BuiltTasks, BuiltShape
  <2>3. \A paths \in SomeOf(Paths) : Call("schedule", DeepTask(t.root, paths, 0)) \in CallsFrom(t)
    BY <1>0, <1>1, <1>2, <2>1, BuiltTasks, BuiltShape
  <2>4. QED
    BY <1>3, <2>2, <2>3 DEF AfterLayer
<1>7. AfterDiscovery(t) \subseteq Ok
  <2>1. /\ \A paths : DiscoveryTask(t.root, paths, t.generation).reason = "workspace-discovery"
        /\ RefreshTask(t.root, "background-refresh-after-open").reason = "background-refresh-after-open"
    BY DEF DiscoveryTask, RefreshTask, Task
  <2>2. \A paths \in SomeOf(Paths) :
          Call("schedule", DiscoveryTask(t.root, paths, t.generation)) \in CallsFrom(t)
    BY <1>0, <1>1, <1>2, <2>1, BuiltTasks, BuiltShape
  <2>3. Call("schedule", RefreshTask(t.root, "background-refresh-after-open")) \in CallsFrom(t)
    BY <1>0, <1>1, <1>2, <2>1, BuiltTasks, BuiltShape
  <2>4. QED
    BY <1>3, <2>2, <2>3 DEF AfterDiscovery
<1>8. AfterDeep(t) \subseteq Ok
  <2> DEFINE d == DeepTask(t.root, {}, t.generation)
  <2>1. d.reason = "full-refresh-deep" /\ DeepContinuation(d) /\ Built(d)
    BY BuiltShape DEF DeepTask, Task, DeepContinuation, DeepReasons
  <2>2. d \in Tasks
    BY <1>2, BuiltTasks
  <2> HIDE DEF d
  <2>3. Call("progress", d) \in CallsFrom(t) /\ Call("retry", d) \in CallsFrom(t)
    BY <1>0, <1>1, <2>1, <2>2
  <2>4. QED
    BY <1>3, <2>3 DEF AfterDeep, d
<1>9. PossibleFollowUps(t) \in
        {AfterOpen(t), AfterSdk(t), AfterLayer(t), AfterDiscovery(t), AfterDeep(t), {<<>>}}
  BY DEF PossibleFollowUps
<1>10. PossibleFollowUps(t) \subseteq Ok
  BY <1>3, <1>4, <1>5, <1>6, <1>7, <1>8, <1>9
<1>11. AfterInterruption(t) \subseteq Ok
  <2>1. t.reason \in ContinuationReasons => Call("resume", t) \in CallsFrom(t)
    BY <1>1, PathReasonsAreApart
  <2>2. QED
    BY <1>3, <2>1 DEF AfterInterruption
<1>12. QED
  BY <1>10, <1>11 DEF AskedOnly, Ok

(* What a finished task may plan is a sequence of calls. *)
LEMMA PlanType ==
  ASSUME NEW t \in Tasks,
         NEW plan \in AskedOnly(PossibleFollowUps(t) \cup AfterInterruption(t))
  PROVE  plan \in Seq(PlanCalls) /\ plan \in Seq(Calls)
<1>1. plan \in Seq(CallsFrom(t))
  BY PlansAreBuilt
<1>2. CallsFrom(t) \subseteq PlanCalls /\ PlanCalls \subseteq Calls
  BY DEF CallsFrom, PlanCalls
<1>3. Len(plan) \in Nat /\ plan \in [1..Len(plan) -> CallsFrom(t)]
  BY <1>1, LenProperties, ElementOfSeq
<1> HIDE DEF PlanCalls
<1>4. plan \in [1..Len(plan) -> PlanCalls] /\ plan \in [1..Len(plan) -> Calls]
  BY <1>2, <1>3
<1>5. QED
  BY <1>3, <1>4, SeqDef

-----------------------------------------------------------------------------
(* What the methods leave pending.                                           *)

(* Every pending task is a task; those of the delayed queue are deep          *)
(* continuations.                                                             *)
LEMMA PendingType ==
  ASSUME NEW s \in Schedulers
  PROVE  /\ PendingTasks(s) \subseteq Tasks
         /\ SlotsHeld(s) => \A t \in PendingTasks(s) :
                              t \in Elements(s.tasks) \/ DeepContinuation(t)
<1>1. s.tasks \in Seq(Tasks) /\ s.delayed \in Seq(Delayed)
  BY DEF Schedulers
<1>2. \A i \in DOMAIN s.tasks : s.tasks[i] \in Tasks
  BY <1>1, LenProperties, ElementOfSeq
<1>3. \A i \in DOMAIN s.delayed : s.delayed[i] \in Delayed
  BY <1>1, LenProperties, ElementOfSeq
<1>4. PendingTasks(s) \subseteq Tasks
  BY <1>2, <1>3 DEF PendingTasks, Delayed
<1>5. ASSUME SlotsHeld(s), NEW t \in PendingTasks(s)
      PROVE  t \in Elements(s.tasks) \/ DeepContinuation(t)
  BY <1>5 DEF PendingTasks, SlotsHeld, Elements, ValuesAt
<1>6. QED
  BY <1>4, <1>5

(* What a call for t adds to the pending tasks of s: tasks of its kind and    *)
(* reason, with its paths or with these joined to those of a pending one.  A  *)
(* call that schedules nothing found something to join, or had nothing to do. *)
AddsOnly(s, r, t) ==
  /\ \A p \in PendingTasks(r.scheduler) \ PendingTasks(s) :
       /\ p.kind = t.kind /\ p.reason = t.reason
       /\ \/ p.paths = t.paths
          \/ \E e \in PendingTasks(s) : /\ e.kind = t.kind /\ e.reason = t.reason
                                        /\ p.paths = e.paths \cup t.paths
  /\ r.scheduled =>
       \E p \in PendingTasks(r.scheduler) : p.reason = t.reason /\ t.paths \subseteq p.paths
  /\ ~r.scheduled /\ ~IsEmptyNoop(t) => PendingTasks(r.scheduler) # {}

(* Numbering changes only the generation; joining adds the paths. *)
LEMMA StampedFields ==
  ASSUME NEW s \in Schedulers, NEW t \in Tasks
  PROVE  /\ Stamped(s, t).kind = t.kind /\ Stamped(s, t).reason = t.reason
         /\ Stamped(s, t).paths = t.paths
         /\ Numbered(s, t).kind = t.kind /\ Numbered(s, t).reason = t.reason
         /\ Numbered(s, t).paths = t.paths
BY DEF Stamped, Numbered, Tasks

LEMMA CoalescedFields ==
  ASSUME NEW e \in Tasks, NEW t \in Tasks, TasksCanCoalesce(e, t)
  PROVE  /\ Coalesced(e, t).kind = t.kind /\ Coalesced(e, t).reason = t.reason
         /\ e.kind = t.kind /\ e.reason = t.reason
         /\ Coalesced(e, t).paths = t.paths \/ Coalesced(e, t).paths = e.paths \cup t.paths
<1>1. e.kind = t.kind /\ e.reason = t.reason
  BY DEF TasksCanCoalesce
<1>2. CASE LatestWins(t)
  BY <1>1, <1>2 DEF Coalesced
<1>3. CASE ~LatestWins(t)
  BY <1>1, <1>3 DEF Coalesced, Tasks
<1>4. QED
  BY <1>1, <1>2, <1>3

(* schedule_with_result. *)
LEMMA ScheduleAdds ==
  ASSUME NEW s \in Schedulers, NEW t \in Tasks
  PROVE  AddsOnly(s, ScheduleWithResult(s, t), t)
<1> DEFINE r    == ScheduleWithResult(s, t)
           late == {x.task : x \in Elements(s.delayed)}
<1>1. s.tasks \in Seq(Tasks) /\ s.delayed \in Seq(Delayed)
  BY DEF Schedulers
<1>2. DOMAIN s.tasks = 1..Len(s.tasks) /\ \A i \in DOMAIN s.tasks : s.tasks[i] \in Tasks
  BY <1>1, LenProperties, ElementOfSeq
<1>3. PendingTasks(s) = Elements(s.tasks) \cup late
  BY PendingParts
<1>4. CASE /\ r = Result(s, {}, FALSE)
           /\ \/ IsEmptyNoop(t)
              \/ \E i \in DOMAIN s.tasks : /\ TasksCanCoalesce(s.tasks[i], t)
                                           /\ IsChangedPathNoop(s.tasks[i], t)
  <2>1. r.scheduler = s /\ r.scheduled = FALSE
    BY <1>4 DEF Result
  <2>2. \A i \in DOMAIN s.tasks : s.tasks[i] \in PendingTasks(s)
    BY <1>3 DEF Elements, ValuesAt
  <2>3. QED
    BY <1>4, <2>1, <2>2 DEF AddsOnly
<1>5. ASSUME NEW i \in DOMAIN s.tasks, TasksCanCoalesce(s.tasks[i], t), t.kind = "changed-paths",
             r = ScheduleCoalesced(s, t, i)
      PROVE  AddsOnly(s, r, t)
  <2> DEFINE new == Coalesced(s.tasks[i], Numbered(s, t))
             q   == [s.tasks EXCEPT ![i] = new]
  <2>1. Numbered(s, t) \in Tasks /\ TasksCanCoalesce(s.tasks[i], Numbered(s, t))
    <3>1. Numbered(s, t) \in Tasks /\ TasksCanCoalesce(Numbered(s, t), t)
      BY NumberedSlot, StampedProperties
    <3>2. QED
      BY <1>2, <1>5, <3>1 DEF TasksCanCoalesce
  <2>2. /\ new \in Tasks
        /\ new.kind = t.kind /\ new.reason = t.reason
        /\ s.tasks[i].kind = t.kind /\ s.tasks[i].reason = t.reason
        /\ new.paths = t.paths \/ new.paths = s.tasks[i].paths \cup t.paths
    BY <1>2, <1>5, <2>1, CoalescedFields, CoalescedProperties, StampedFields
  <2>3. r = Result([s EXCEPT !.generation = s.generation + 1, !.tasks = q], {s.tasks[i]}, TRUE)
    BY <1>5 DEF ScheduleCoalesced, Schedulers
  <2> HIDE DEF new, r
  <2>4. new \in Elements(q) /\ Elements(q) \subseteq Elements(s.tasks) \cup {new}
    BY <1>1, <2>2, PutProperties
  <2> HIDE DEF q
  <2>5. r.scheduled = TRUE /\ r.scheduler.tasks = q /\ r.scheduler.delayed = s.delayed
    BY <2>3 DEF Result, Schedulers
  <2>6. PendingTasks(r.scheduler) = Elements(q) \cup late
    BY <2>5, PendingParts
  <2>7. s.tasks[i] \in PendingTasks(s)
    BY <1>3, <1>5 DEF Elements, ValuesAt
  <2> HIDE DEF late
  <2>8. PendingTasks(r.scheduler) \ PendingTasks(s) \subseteq {new} /\ new \in PendingTasks(r.scheduler)
    BY <1>3, <2>4, <2>6
  <2>9. QED
    BY <2>2, <2>5, <2>7, <2>8 DEF AddsOnly
<1>6. ASSUME r = ScheduleAppended(s, t)
      PROVE  AddsOnly(s, r, t)
  <2> DEFINE new  == Stamped(s, t)
             kept == {i \in DOMAIN s.tasks : ~Replaces(new, s.tasks[i])}
             q    == Append(Keep(s.tasks, kept), new)
             next == [s EXCEPT !.generation = Larger(s.generation, new.generation), !.tasks = q]
  <2>1. r.scheduler = next /\ r.scheduled = TRUE
    BY <1>6 DEF ScheduleAppended, Result, Schedulers
  <2>2. /\ new \in Tasks
        /\ new.kind = t.kind /\ new.reason = t.reason /\ new.paths = t.paths
    BY StampedFields, StampedProperties
  <2>3. kept \in SUBSET DOMAIN s.tasks
    OBVIOUS
  <2> HIDE DEF new, kept, r
  <2>4. /\ Keep(s.tasks, kept) \in Seq(Tasks)
        /\ Elements(Keep(s.tasks, kept)) \subseteq Elements(s.tasks)
    <3>1. Elements(Keep(s.tasks, kept)) = ValuesAt(s.tasks, kept) /\ Keep(s.tasks, kept) \in Seq(Tasks)
      BY <1>1, <2>3, KeepProperties
    <3>2. QED
      BY <2>3, <3>1 DEF Elements, ValuesAt
  <2>5. Elements(q) = Elements(Keep(s.tasks, kept)) \cup {new}
    BY <2>2, <2>4, AppendElements
  <2> HIDE DEF q
  <2>6. r.scheduled = TRUE /\ r.scheduler.tasks = q /\ r.scheduler.delayed = s.delayed
    BY <2>1 DEF Schedulers
  <2>7. PendingTasks(r.scheduler) = Elements(q) \cup late
    BY <2>6, PendingParts
  <2> HIDE DEF late
  <2>8. PendingTasks(r.scheduler) \ PendingTasks(s) \subseteq {new} /\ new \in PendingTasks(r.scheduler)
    BY <1>3, <2>4, <2>5, <2>7
  <2>9. QED
    BY <2>2, <2>6, <2>8 DEF AddsOnly
<1>7. QED
  BY <1>4, <1>5, <1>6, ScheduleCases

(* schedule_background_retry. *)
LEMMA RetryAdds ==
  ASSUME NEW s \in Schedulers, NEW t \in Tasks
  PROVE  AddsOnly(s, ScheduleBackgroundRetry(s, t), t)
<1> DEFINE r == ScheduleBackgroundRetry(s, t)
<1>1. s.delayed \in Seq(Delayed)
  BY DEF Schedulers
<1>2. DOMAIN s.delayed = 1..Len(s.delayed) /\ \A i \in DOMAIN s.delayed : s.delayed[i] \in Delayed
  BY <1>1, LenProperties, ElementOfSeq
<1>3. \A i \in DOMAIN s.delayed : s.delayed[i].task \in Tasks /\ s.delayed[i].task \in PendingTasks(s)
  BY <1>2 DEF Delayed, PendingTasks
<1>4. PICK c \in Schedulers, delay \in Nat :
        /\ c.tasks = s.tasks /\ c.delayed = s.delayed /\ c.generation = s.generation
        /\ \/ r = Result(c, {}, FALSE) /\ DOMAIN s.delayed # {}
           \/ \E i \in DOMAIN s.delayed : /\ TasksCanCoalesce(s.delayed[i].task, t)
                                           /\ r = RetryCoalesced(c, t, i, delay)
           \/ r = RetryAppended(c, t, delay)
  BY RetryCases
<1> HIDE DEF r
<1>5. CASE r = Result(c, {}, FALSE) /\ DOMAIN s.delayed # {}
  <2>1. r.scheduler = c /\ r.scheduled = FALSE
    BY <1>5 DEF Result
  <2>2. PendingTasks(c) = PendingTasks(s)
    BY <1>4 DEF PendingTasks
  <2>3. PendingTasks(s) # {}
    BY <1>3, <1>5
  <2>4. AddsOnly(s, r, t)
    BY <2>1, <2>2, <2>3 DEF AddsOnly
  <2>5. QED
    BY <2>4 DEF r
<1>6. ASSUME NEW new \in Tasks, NEW q \in Seq(Delayed),
             r.scheduled = TRUE, r.scheduler.tasks = s.tasks, r.scheduler.delayed = q,
             [task |-> new, wait |-> delay] \in Elements(q),
             Elements(q) \subseteq Elements(s.delayed) \cup {[task |-> new, wait |-> delay]},
             new.kind = t.kind, new.reason = t.reason,
             \/ new.paths = t.paths
             \/ \E e \in PendingTasks(s) : /\ e.kind = t.kind /\ e.reason = t.reason
                                           /\ new.paths = e.paths \cup t.paths
      PROVE  AddsOnly(s, r, t)
  <2>1. /\ PendingTasks(s) = Elements(s.tasks) \cup {x.task : x \in Elements(s.delayed)}
        /\ PendingTasks(r.scheduler) = Elements(s.tasks) \cup {x.task : x \in Elements(q)}
    BY <1>6, PendingParts
  <2>2. PendingTasks(r.scheduler) \ PendingTasks(s) \subseteq {new} /\ new \in PendingTasks(r.scheduler)
    BY <1>6, <2>1
  <2>3. QED
    BY <1>6, <2>2 DEF AddsOnly
<1>7. ASSUME NEW i \in DOMAIN s.delayed, TasksCanCoalesce(s.delayed[i].task, t),
             r = RetryCoalesced(c, t, i, delay)
      PROVE  AddsOnly(s, r, t)
  <2> DEFINE e    == s.delayed[i].task
             new  == Coalesced(e, Numbered(c, t))
             item == [task |-> new, wait |-> delay]
             q    == [s.delayed EXCEPT ![i] = item]
             next == [c EXCEPT !.generation = c.generation + 1, !.delayed = q]
  <2>1. Numbered(c, t) \in Tasks /\ TasksCanCoalesce(e, Numbered(c, t))
    <3>1. Numbered(c, t) \in Tasks /\ TasksCanCoalesce(Numbered(c, t), t)
      BY NumberedSlot, StampedProperties
    <3>2. QED
      BY <1>3, <1>7, <3>1 DEF TasksCanCoalesce
  <2>2. /\ new \in Tasks
        /\ new.kind = t.kind /\ new.reason = t.reason
        /\ e.kind = t.kind /\ e.reason = t.reason
        /\ new.paths = t.paths \/ new.paths = e.paths \cup t.paths
    BY <1>3, <1>7, <2>1, CoalescedFields, CoalescedProperties, StampedFields
  <2>3. r.scheduler = next /\ r.scheduled = TRUE
    BY <1>4, <1>7 DEF RetryCoalesced, Result, Schedulers
  <2> HIDE DEF new
  <2>4. item \in Delayed
    BY <2>2 DEF Delayed
  <2> HIDE DEF item
  <2>5. q \in Seq(Delayed) /\ item \in Elements(q) /\ Elements(q) \subseteq Elements(s.delayed) \cup {item}
    BY <1>1, <2>4, PutProperties
  <2> HIDE DEF q, e
  <2>6. r.scheduled = TRUE /\ r.scheduler.tasks = s.tasks /\ r.scheduler.delayed = q
    BY <1>4, <2>3 DEF Schedulers
  <2>7. e \in PendingTasks(s)
    BY <1>3, <1>7 DEF e
  <2>8. QED
    BY <1>6, <2>2, <2>5, <2>6, <2>7 DEF item
<1>8. ASSUME r = RetryAppended(c, t, delay)
      PROVE  AddsOnly(s, r, t)
  <2> DEFINE new  == Stamped(c, t)
             item == [task |-> new, wait |-> delay]
             q    == Append(s.delayed, item)
             next == [c EXCEPT !.generation = Larger(c.generation, new.generation), !.delayed = q]
  <2>1. r.scheduler = next /\ r.scheduled = TRUE
    BY <1>4, <1>8 DEF RetryAppended, Result, Schedulers
  <2>2. /\ new \in Tasks
        /\ new.kind = t.kind /\ new.reason = t.reason /\ new.paths = t.paths
    BY StampedFields, StampedProperties
  <2> HIDE DEF new
  <2>3. item \in Delayed
    BY <2>2 DEF Delayed
  <2> HIDE DEF item
  <2>4. q \in Seq(Delayed) /\ Elements(q) = Elements(s.delayed) \cup {item}
    BY <1>1, <2>3, AppendElements
  <2> HIDE DEF q
  <2>5. r.scheduled = TRUE /\ r.scheduler.tasks = s.tasks /\ r.scheduler.delayed = q
    BY <1>4, <2>1 DEF Schedulers
  <2>6. QED
    BY <1>6, <2>2, <2>4, <2>5 DEF item
<1>9. QED
  BY <1>4, <1>5, <1>7, <1>8 DEF r

(* Whatever a result or a caller asks of the scheduler. *)
LEMMA CallAdds ==
  ASSUME NEW s \in Schedulers, NEW call \in Calls
  PROVE  AddsOnly(s, CallResult(s, call), call.task)
<1> DEFINE t == call.task
<1>1. t \in Tasks
  BY DEF Calls
<1>2. CASE call.how = "schedule"
  BY <1>1, <1>2, ScheduleAdds DEF CallResult
<1>3. CASE call.how = "progress"
  <2> DEFINE c == ClearBackgroundRetry(s, t.root, t.reason)
  <2>1. CallResult(s, call) = ScheduleWithResult(c, t)
    BY <1>3 DEF CallResult
  <2>2. c = [s EXCEPT !.attempts = [s.attempts EXCEPT ![<<t.root, t.reason>>] = 0]]
    BY DEF ClearBackgroundRetry
  <2>3. [s.attempts EXCEPT ![<<t.root, t.reason>>] = 0] \in [Roots \X Reasons -> Nat]
    BY DEF Schedulers
  <2> HIDE DEF c, t
  <2>4. c \in Schedulers /\ c.tasks = s.tasks /\ c.delayed = s.delayed
    BY <2>2, <2>3 DEF Schedulers
  <2>5. PendingTasks(c) = PendingTasks(s)
    BY <2>4 DEF PendingTasks
  <2>6. AddsOnly(c, ScheduleWithResult(c, t), t)
    BY <1>1, <2>4, ScheduleAdds
  <2>7. QED
    BY <2>1, <2>5, <2>6 DEF AddsOnly, t
<1>4. CASE call.how = "retry"
  BY <1>1, <1>4, RetryAdds DEF CallResult
<1>5. CASE call.how = "resume"
  <2>1. CASE \E p \in PendingTasksForRoot(s, t.root) : p.kind = t.kind /\ p.reason = t.reason
    <3>1. CallResult(s, call) = Result(s, {}, FALSE)
      BY <1>5, <2>1 DEF CallResult
    <3>2. QED
      BY <2>1, <3>1 DEF AddsOnly, Result, PendingTasksForRoot
  <2>2. CASE ~\E p \in PendingTasksForRoot(s, t.root) : p.kind = t.kind /\ p.reason = t.reason
    BY <1>1, <1>5, <2>2, ScheduleAdds DEF CallResult
  <2>3. QED
    BY <2>1, <2>2
<1>6. QED
  BY <1>2, <1>3, <1>4, <1>5 DEF Calls

(* Raising the counter keeps what is pending. *)
LEMMA AdvanceKeeps ==
  ASSUME NEW s \in Schedulers, NEW g \in Nat
  PROVE  /\ AdvanceGenerationTo(s, g) \in Schedulers
         /\ PendingTasks(AdvanceGenerationTo(s, g)) = PendingTasks(s)
<1> DEFINE n == Larger(s.generation, g)
           a == AdvanceGenerationTo(s, g)
<1>1. n \in Nat
  BY DEF Larger, Schedulers
<1>2. a = [s EXCEPT !.generation = n]
  BY DEF AdvanceGenerationTo
<1> HIDE DEF n, a
<1>3. a \in Schedulers /\ a.tasks = s.tasks /\ a.delayed = s.delayed
  BY <1>1, <1>2 DEF Schedulers
<1>4. QED
  BY <1>3 DEF PendingTasks, a

(* Time passes for the delayed tasks; they stay the tasks they are. *)
LEMMA ElapseKeeps ==
  ASSUME NEW s \in Schedulers
  PROVE  Elapse(s) \in Schedulers /\ PendingTasks(Elapse(s)) = PendingTasks(s)
<1> DEFINE q == [i \in DOMAIN s.delayed |-> Sooner(s.delayed[i])]
           a == Elapse(s)
<1>1. s.delayed \in Seq(Delayed)
  BY DEF Schedulers
<1>2. a = [s EXCEPT !.delayed = q]
  BY DEF Elapse
<1>3. Len(s.delayed) \in Nat /\ DOMAIN s.delayed = 1..Len(s.delayed)
  BY <1>1, LenProperties
<1>4. \A i \in DOMAIN s.delayed : q[i] \in Delayed /\ q[i].task = s.delayed[i].task
  <2> SUFFICES ASSUME NEW i \in DOMAIN s.delayed
               PROVE  q[i] \in Delayed /\ q[i].task = s.delayed[i].task
    OBVIOUS
  <2>1. s.delayed[i] \in Delayed
    BY <1>1, <1>3, ElementOfSeq
  <2>2. QED
    BY <2>1 DEF Sooner, Delayed, Larger
<1>5. q \in Seq(Delayed) /\ DOMAIN q = DOMAIN s.delayed
  <2>1. q \in [1..Len(s.delayed) -> Delayed]
    BY <1>3, <1>4
  <2>2. QED
    BY <1>3, <2>1, SeqDef
<1> HIDE DEF q, a
<1>6. a \in Schedulers /\ a.tasks = s.tasks /\ a.delayed = q
  BY <1>2, <1>5 DEF Schedulers
<1>7. PendingTasks(a) = PendingTasks(s)
  BY <1>4, <1>5, <1>6 DEF PendingTasks
<1>8. QED
  BY <1>6, <1>7 DEF a

(* Nothing is pending in the empty scheduler. *)
LEMMA EmptyProperties == EmptyScheduler \in Schedulers /\ PendingTasks(EmptyScheduler) = {}
BY DEF EmptyScheduler, Schedulers, PendingTasks

-----------------------------------------------------------------------------
(* How many deep continuations of a root a queue holds.                       *)

DeepAt(q, root) == {i \in DOMAIN q : q[i].root = root /\ q[i].reason \in DeepReasons}
AtMostOne(S) == \A i, j \in S : i = j
AtMostTwo(S) == \A i, j, k \in S : i = j \/ j = k \/ i = k

(* A deep task has the kind and the priority it is built with. *)
DeepBuilt(t)  == t.reason \in DeepReasons => t.kind = "changed-paths" /\ t.priority = Background
DeepsBuilt(q) == \A i \in DOMAIN q : DeepBuilt(q[i])

(* w holds no more of them than q ... *)
NoneStays(w, q, root) == DeepAt(q, root) = {} => DeepAt(w, root) = {}
FewStay(w, q, root) ==
  /\ AtMostOne(DeepAt(q, root)) => AtMostOne(DeepAt(w, root))
  /\ AtMostTwo(DeepAt(q, root)) => AtMostTwo(DeepAt(w, root))

(* ... or at most one where q has none, of the root of t. *)
Joins(w, q, t) ==
  /\ DeepsBuilt(w)
  /\ \A root : FewStay(w, q, root) /\ (root # t.root => NoneStays(w, q, root))

(* Deep tasks of a root share a slot. *)
LEMMA DeepsShareSlot ==
  ASSUME NEW a, NEW b, DeepBuilt(a), DeepBuilt(b), a.root = b.root,
         a.reason \in DeepReasons, b.reason \in DeepReasons
  PROVE  TasksCanCoalesce(a, b)
<1>1. /\ a.kind = "changed-paths" /\ b.kind = "changed-paths"
      /\ a.priority = Background /\ b.priority = Background
  BY DEF DeepBuilt
<1>2. a.reason = b.reason
  BY DEF DeepReasons
<1>3. /\ TaskAdmission(a) = <<"deep-content", "workspace">>
      /\ TaskAdmission(b) = <<"deep-content", "workspace">>
  BY <1>1 DEF TaskAdmission, ChangedPathsAdmission, Background, ForegroundCompletion,
     ForegroundNavigation, VisibleFiles
<1>4. QED
  BY <1>1, <1>2, <1>3 DEF TasksCanCoalesce

(* What is built is built so, numbered, stamped or coalesced. *)
LEMMA DeepBuiltProperties ==
  ASSUME NEW s \in Schedulers, NEW t \in Tasks, DeepBuilt(t)
  PROVE  /\ Stamped(s, t).root = t.root /\ DeepBuilt(Stamped(s, t))
         /\ \A e \in Tasks :
              DeepBuilt(e) /\ TasksCanCoalesce(e, t) =>
                LET new == Coalesced(e, Numbered(s, t))
                IN  new \in Tasks /\ new.root = e.root /\ new.reason = e.reason /\ DeepBuilt(new)
<1>1. /\ Stamped(s, t).root = t.root /\ Stamped(s, t).kind = t.kind
      /\ Stamped(s, t).priority = t.priority /\ Stamped(s, t).reason = t.reason
      /\ Numbered(s, t).root = t.root /\ Numbered(s, t).kind = t.kind
      /\ Numbered(s, t).priority = t.priority /\ Numbered(s, t).reason = t.reason
  BY DEF Stamped, Numbered, Tasks
<1>2. DeepBuilt(Stamped(s, t)) /\ DeepBuilt(Numbered(s, t))
  BY <1>1 DEF DeepBuilt
<1>3. ASSUME NEW e \in Tasks, DeepBuilt(e), TasksCanCoalesce(e, t)
      PROVE  LET new == Coalesced(e, Numbered(s, t))
             IN  new \in Tasks /\ new.root = e.root /\ new.reason = e.reason /\ DeepBuilt(new)
  <2> DEFINE n == Numbered(s, t)
             c == Coalesced(e, n)
  <2>1. e.reason = n.reason /\ e.kind = n.kind /\ e.root = n.root
    BY <1>1, <1>3 DEF TasksCanCoalesce
  <2>2. c \in Tasks
    <3>1. n \in Tasks /\ TasksCanCoalesce(n, t)
      BY NumberedSlot, StampedProperties
    <3>2. TasksCanCoalesce(e, n)
      BY <1>3, <3>1 DEF TasksCanCoalesce
    <3>3. QED
      BY <3>1, <3>2, CoalescedProperties
  <2>3. CASE LatestWins(n)
    <3>1. c = n
      BY <2>3 DEF Coalesced
    <3> HIDE DEF c, n
    <3>2. QED
      BY <1>2, <2>1, <2>2, <3>1 DEF c, n
  <2>4. CASE ~LatestWins(n)
    <3>1. c = [e EXCEPT !.paths = e.paths \cup n.paths, !.generation = n.generation,
                        !.priority = Larger(e.priority, n.priority)]
      BY <2>4 DEF Coalesced
    <3>2. /\ c.root = e.root /\ c.kind = e.kind /\ c.reason = e.reason
          /\ c.priority = Larger(e.priority, n.priority)
      BY <3>1 DEF Tasks
    <3>3. e.priority = n.priority => c.priority = e.priority
      BY <3>2 DEF Larger
    <3> HIDE DEF c
    <3>4. QED
      BY <1>2, <1>3, <2>1, <2>2, <3>2, <3>3 DEF DeepBuilt, c
  <2>5. QED
    BY <2>3, <2>4
<1>4. QED
  BY <1>1, <1>2, <1>3

(* Taking out and re-ordering adds none ... *)
LEMMA SelectionKeepsFew ==
  ASSUME NEW q, NEW w, Selects(w, q)
  PROVE  /\ DeepsBuilt(q) => DeepsBuilt(w)
         /\ \A root : NoneStays(w, q, root) /\ FewStay(w, q, root)
<1> PICK f \in [DOMAIN w -> DOMAIN q] :
           /\ \A k \in DOMAIN w : w[k] = q[f[k]]
           /\ \A k, m \in DOMAIN w : k # m => f[k] # f[m]
  BY DEF Selects
<1>1. DeepsBuilt(q) => DeepsBuilt(w)
  BY DEF DeepsBuilt
<1>2. ASSUME NEW root
      PROVE  NoneStays(w, q, root) /\ FewStay(w, q, root)
  <2>1. \A k \in DeepAt(w, root) : k \in DOMAIN w /\ f[k] \in DeepAt(q, root)
    BY DEF DeepAt
  <2>2. NoneStays(w, q, root)
    BY <2>1 DEF NoneStays
  <2>3. AtMostOne(DeepAt(q, root)) => AtMostOne(DeepAt(w, root))
    BY <2>1 DEF AtMostOne
  <2>4. AtMostTwo(DeepAt(q, root)) => AtMostTwo(DeepAt(w, root))
    <3> SUFFICES ASSUME AtMostTwo(DeepAt(q, root)),
                        NEW i \in DeepAt(w, root), NEW j \in DeepAt(w, root), NEW k \in DeepAt(w, root)
                 PROVE  i = j \/ j = k \/ i = k
      BY DEF AtMostTwo
    <3>1. f[i] = f[j] \/ f[j] = f[k] \/ f[i] = f[k]
      BY <2>1 DEF AtMostTwo
    <3>2. QED
      BY <2>1, <3>1
  <2>5. QED
    BY <2>2, <2>3, <2>4 DEF FewStay
<1>3. QED
  BY <1>1, <1>2

(* ... nor does changing a task in its slot ... *)
LEMMA PutKeepsFew ==
  ASSUME NEW q, DeepsBuilt(q), NEW i \in DOMAIN q, NEW v, DeepBuilt(v),
         v.root = q[i].root, v.reason = q[i].reason
  PROVE  /\ DeepsBuilt([q EXCEPT ![i] = v])
         /\ \A root : /\ NoneStays([q EXCEPT ![i] = v], q, root)
                      /\ FewStay([q EXCEPT ![i] = v], q, root)
<1> DEFINE w == [q EXCEPT ![i] = v]
<1>1. DOMAIN w = DOMAIN q /\ \A k \in DOMAIN q : w[k] = IF k = i THEN v ELSE q[k]
  OBVIOUS
<1> HIDE DEF w
<1>2. \A k \in DOMAIN q : w[k].root = q[k].root /\ w[k].reason = q[k].reason
  BY <1>1
<1>3. \A root : DeepAt(w, root) = DeepAt(q, root)
  BY <1>1, <1>2 DEF DeepAt
<1>4. DeepsBuilt(w)
  BY <1>1 DEF DeepsBuilt
<1>5. QED
  BY <1>3, <1>4 DEF NoneStays, FewStay, w

(* ... and a new task is the only one of its root, if it is deep. *)
LEMMA AppendKeepsFew ==
  ASSUME NEW T, NEW q, DeepsBuilt(q), NEW k \in Seq(T), Selects(k, q), NEW v \in T, DeepBuilt(v),
         v.reason \in DeepReasons => DeepAt(q, v.root) = {}
  PROVE  Joins(Append(k, v), q, v)
<1> DEFINE w == Append(k, v)
<1>1. /\ DOMAIN k = 1..Len(k) /\ DOMAIN w = 1..(Len(k) + 1) /\ Len(k) \in Nat
      /\ \A i \in 1..Len(k) : w[i] = k[i]
      /\ w[Len(k) + 1] = v
  BY AppendProperties, LenProperties
<1> DEFINE n == Len(k) + 1
<1>2. \A i \in DOMAIN w : i \in DOMAIN k \/ i = n
  BY <1>1
<1> HIDE DEF w, n
<1>3. w[n] = v /\ \A i \in DOMAIN k : w[i] = k[i]
  BY <1>1 DEF n
<1>4. DeepsBuilt(k) /\ \A root : NoneStays(k, q, root) /\ FewStay(k, q, root)
  BY SelectionKeepsFew
<1>5. DeepsBuilt(w)
  BY <1>2, <1>3, <1>4 DEF DeepsBuilt
<1>6. ASSUME NEW root
      PROVE  FewStay(w, q, root) /\ (root # v.root => NoneStays(w, q, root))
  <2>1. CASE v.reason \in DeepReasons /\ root = v.root
    <3>1. DeepAt(k, root) = {}
      BY <1>4, <2>1 DEF NoneStays
    <3>2. \A i \in DeepAt(w, root) : i = n
      BY <1>2, <1>3, <3>1 DEF DeepAt
    <3>3. QED
      BY <2>1, <3>2 DEF FewStay, AtMostOne, AtMostTwo
  <2>2. CASE ~(v.reason \in DeepReasons /\ root = v.root)
    <3>1. DeepAt(w, root) \subseteq DeepAt(k, root)
      BY <1>2, <1>3, <2>2 DEF DeepAt
    <3>2. QED
      BY <1>4, <3>1 DEF FewStay, NoneStays, AtMostOne, AtMostTwo
  <2>3. QED
    BY <2>1, <2>2
<1>7. QED
  BY <1>5, <1>6 DEF Joins, w

(* Of a root at most two deep continuations are ready and one waits, and only *)
(* where one is ready at most.                                                *)
FewDeep(s, root) ==
  /\ AtMostTwo(DeepAt(s.tasks, root))
  /\ AtMostOne(DeepAt(TaskOf(s.delayed), root))
  /\ DeepAt(TaskOf(s.delayed), root) = {} \/ AtMostOne(DeepAt(s.tasks, root))

QueuesBuilt(s) == DeepsBuilt(s.tasks) /\ DeepsBuilt(TaskOf(s.delayed))

(* schedule_with_result makes a task ready where none of its slot is. *)
LEMMA ScheduleFew ==
  ASSUME NEW s \in Schedulers, NEW t \in Tasks, QueuesBuilt(s), DeepBuilt(t)
  PROVE  LET r == ScheduleWithResult(s, t)
         IN  /\ r.scheduler.delayed = s.delayed /\ DeepsBuilt(r.scheduler.tasks)
             /\ \A root : FewStay(r.scheduler.tasks, s.tasks, root)
<1> DEFINE q == s.tasks
           r == ScheduleWithResult(s, t)
<1>1. /\ q \in Seq(Tasks) /\ DOMAIN q = 1..Len(q) /\ Len(q) \in Nat
      /\ \A i \in DOMAIN q : q[i] \in Tasks /\ DeepBuilt(q[i])
  <2>1. q \in Seq(Tasks)
    BY DEF Schedulers
  <2>2. DOMAIN q = 1..Len(q) /\ Len(q) \in Nat
    BY <2>1, LenProperties
  <2>3. QED
    BY <2>1, <2>2, ElementOfSeq DEF QueuesBuilt, DeepsBuilt
<1>2. CASE r = Result(s, {}, FALSE)
  <2>1. r.scheduler = s
    BY <1>2 DEF Result
  <2>2. QED
    BY <2>1 DEF QueuesBuilt, FewStay
<1>3. ASSUME NEW i \in DOMAIN q, TasksCanCoalesce(q[i], t), r = ScheduleCoalesced(s, t, i)
      PROVE  /\ r.scheduler.delayed = s.delayed /\ DeepsBuilt(r.scheduler.tasks)
             /\ \A root : FewStay(r.scheduler.tasks, q, root)
  <2> DEFINE new == Coalesced(q[i], Numbered(s, t))
             w   == [q EXCEPT ![i] = new]
  <2>1. r.scheduler = [s EXCEPT !.generation = @ + 1, !.tasks[i] = new]
    BY <1>3 DEF ScheduleCoalesced, Result
  <2>2. r.scheduler.delayed = s.delayed /\ r.scheduler.tasks = w
    BY <2>1 DEF Schedulers
  <2>3. new.root = q[i].root /\ new.reason = q[i].reason /\ DeepBuilt(new)
    BY <1>1, <1>3, DeepBuiltProperties
  <2> HIDE DEF new
  <2>4. QED
    BY <2>2, <2>3, PutKeepsFew DEF QueuesBuilt
<1>4. CASE /\ r = ScheduleAppended(s, t)
           /\ t.kind = "changed-paths" => \A i \in DOMAIN q : ~TasksCanCoalesce(q[i], t)
  <2> DEFINE new  == Stamped(s, t)
             kept == {i \in DOMAIN q : ~Replaces(new, q[i])}
             k    == Keep(q, kept)
  <2>1. /\ r.scheduler.delayed = s.delayed /\ r.scheduler.tasks = Append(k, new)
    <3> DEFINE w == Append(k, new)
    <3> HIDE DEF w
    <3>1. r.scheduler = [s EXCEPT !.generation = Larger(s.generation, new.generation), !.tasks = w]
      BY <1>4 DEF ScheduleAppended, Result, w
    <3>2. QED
      BY <3>1 DEF Schedulers, w
  <2>2. /\ new \in Tasks /\ new.root = t.root /\ new.reason = t.reason /\ DeepBuilt(new)
    BY DeepBuiltProperties, StampedProperties, StampedFields
  <2>3. k \in Seq(Tasks) /\ Selects(k, q)
    <3>1. kept \in SUBSET DOMAIN q
      OBVIOUS
    <3> HIDE DEF kept
    <3>2. QED
      BY <1>1, <3>1, KeepProperties, KeepSelects
  <2>4. new.reason \in DeepReasons => DeepAt(q, new.root) = {}
    <3> SUFFICES ASSUME new.reason \in DeepReasons, NEW i \in DeepAt(q, new.root)
                 PROVE  FALSE
      OBVIOUS
    <3>1. i \in DOMAIN q /\ q[i].root = t.root /\ q[i].reason \in DeepReasons
      BY <2>2 DEF DeepAt
    <3>2. TasksCanCoalesce(q[i], t) /\ t.kind = "changed-paths"
      BY <1>1, <2>2, <3>1, DeepsShareSlot DEF DeepBuilt
    <3>3. QED
      BY <1>4, <3>1, <3>2
  <2> HIDE DEF new, k
  <2>5. Joins(Append(k, new), q, new)
    BY <2>2, <2>3, <2>4, AppendKeepsFew DEF QueuesBuilt
  <2>6. QED
    BY <2>1, <2>5 DEF Joins
<1>5. QED
  BY <1>2, <1>3, <1>4, ScheduleCases

(* schedule_background_retry looks only at those that wait: there is one of   *)
(* a root at most.                                                            *)
LEMMA RetryFew ==
  ASSUME NEW s \in Schedulers, NEW t \in Tasks, QueuesBuilt(s), DeepBuilt(t)
  PROVE  LET r == ScheduleBackgroundRetry(s, t)
         IN  /\ r.scheduler.tasks = s.tasks
             /\ Joins(TaskOf(r.scheduler.delayed), TaskOf(s.delayed), t)
<1> DEFINE r == ScheduleBackgroundRetry(s, t)
           q == TaskOf(s.delayed)
<1>1. /\ s.delayed \in Seq(Delayed) /\ DOMAIN s.delayed = 1..Len(s.delayed)
      /\ Len(s.delayed) \in Nat
  <2>1. s.delayed \in Seq(Delayed)
    BY DEF Schedulers
  <2>2. QED
    BY <2>1, LenProperties
<1>2. /\ DOMAIN q = DOMAIN s.delayed
      /\ \A i \in DOMAIN q : q[i] = s.delayed[i].task /\ q[i] \in Tasks /\ DeepBuilt(q[i])
  <2>1. DOMAIN q = DOMAIN s.delayed /\ \A i \in DOMAIN q : q[i] = s.delayed[i].task
    BY DEF TaskOf
  <2>2. \A i \in DOMAIN s.delayed : s.delayed[i] \in Delayed
    BY <1>1, ElementOfSeq
  <2>3. QED
    BY <2>1, <2>2 DEF Delayed, QueuesBuilt, DeepsBuilt
<1>3. PICK c \in Schedulers, delay \in Nat :
        /\ c.tasks = s.tasks /\ c.delayed = s.delayed
        /\ \/ r = Result(c, {}, FALSE)
           \/ \E i \in DOMAIN s.delayed : /\ TasksCanCoalesce(s.delayed[i].task, t)
                                           /\ r = RetryCoalesced(c, t, i, delay)
           \/ /\ r = RetryAppended(c, t, delay)
              /\ \A i \in DOMAIN s.delayed : ~TasksCanCoalesce(s.delayed[i].task, t)
  BY RetryCases
<1>4. CASE r = Result(c, {}, FALSE)
  <2>1. r.scheduler.tasks = s.tasks /\ r.scheduler.delayed = s.delayed
    BY <1>3, <1>4 DEF Result
  <2>2. QED
    BY <2>1 DEF QueuesBuilt, FewStay, NoneStays, Joins, AtMostOne
<1>5. ASSUME NEW i \in DOMAIN s.delayed, TasksCanCoalesce(s.delayed[i].task, t),
             r = RetryCoalesced(c, t, i, delay)
      PROVE  r.scheduler.tasks = s.tasks /\ Joins(TaskOf(r.scheduler.delayed), q, t)
  <2> DEFINE new  == Coalesced(s.delayed[i].task, Numbered(c, t))
             item == [task |-> new, wait |-> delay]
             d    == [s.delayed EXCEPT ![i] = item]
  <2>1. r.scheduler.tasks = s.tasks /\ r.scheduler.delayed = d
    <3>0. c.delayed = s.delayed /\ c.tasks = s.tasks
      BY <1>3
    <3>1. r = Result([c EXCEPT !.generation = c.generation + 1, !.delayed = d],
                     {c.delayed[i].task}, TRUE)
      BY <1>5, <3>0 DEF RetryCoalesced, Schedulers
    <3> HIDE DEF d, r
    <3>2. r.scheduler = [c EXCEPT !.generation = c.generation + 1, !.delayed = d]
      BY <3>1 DEF Result
    <3>3. QED
      BY <1>3, <3>2 DEF Schedulers
  <2>2. new.root = q[i].root /\ new.reason = q[i].reason /\ DeepBuilt(new)
    BY <1>2, <1>5, DeepBuiltProperties
  <2> HIDE DEF new
  <2>3. TaskOf(d) = [q EXCEPT ![i] = new]
    <3>1. DOMAIN d = DOMAIN s.delayed /\ \A k \in DOMAIN d : d[k].task = [q EXCEPT ![i] = new][k]
      BY <1>2, <1>5
    <3>2. QED
      BY <1>2, <3>1 DEF TaskOf
  <2>4. QED
    BY <1>2, <1>5, <2>1, <2>2, <2>3, PutKeepsFew DEF QueuesBuilt, Joins
<1>6. CASE /\ r = RetryAppended(c, t, delay)
           /\ \A i \in DOMAIN s.delayed : ~TasksCanCoalesce(s.delayed[i].task, t)
  <2> DEFINE new  == Stamped(c, t)
             item == [task |-> new, wait |-> delay]
             d    == Append(s.delayed, item)
  <2>1. r.scheduler.tasks = s.tasks /\ r.scheduler.delayed = d
    <3> HIDE DEF d
    <3>1. r.scheduler = [c EXCEPT !.generation = Larger(c.generation, new.generation), !.delayed = d]
      BY <1>3, <1>6 DEF RetryAppended, Result, d
    <3>2. QED
      BY <1>3, <3>1 DEF Schedulers
  <2>2. /\ new \in Tasks /\ new.root = t.root /\ new.reason = t.reason /\ DeepBuilt(new)
    BY DeepBuiltProperties, StampedProperties, StampedFields
  <2> HIDE DEF new
  <2>3. new.reason \in DeepReasons => DeepAt(q, new.root) = {}
    <3> SUFFICES ASSUME new.reason \in DeepReasons, NEW i \in DeepAt(q, new.root)
                 PROVE  FALSE
      OBVIOUS
    <3>1. i \in DOMAIN q /\ q[i].root = t.root /\ q[i].reason \in DeepReasons
      BY <2>2 DEF DeepAt
    <3>2. TasksCanCoalesce(q[i], t)
      BY <1>2, <2>2, <3>1, DeepsShareSlot
    <3>3. QED
      BY <1>2, <1>6, <3>1, <3>2
  <2>4. TaskOf(d) = Append(q, new) /\ q \in Seq(Tasks)
    <3>1. /\ d \in Seq(Delayed) /\ Len(d) = Len(s.delayed) + 1 /\ DOMAIN d = 1..Len(d)
          /\ \A k \in 1..Len(s.delayed) : d[k] = s.delayed[k]
          /\ d[Len(s.delayed) + 1] = item
      BY <1>1, <2>2, AppendProperties, LenProperties DEF Delayed
    <3>2. q \in Seq(Tasks)
      <4>1. q \in [1..Len(s.delayed) -> Tasks]
        BY <1>1, <1>2 DEF TaskOf
      <4>2. QED
        BY <1>1, <4>1, SeqDef
    <3>3. Len(q) = Len(s.delayed)
      BY <1>1, <1>2, <3>2, LenProperties
    <3>4. /\ Append(q, new) \in Seq(Tasks) /\ DOMAIN Append(q, new) = 1..(Len(q) + 1)
          /\ \A k \in 1..Len(q) : Append(q, new)[k] = q[k]
          /\ Append(q, new)[Len(q) + 1] = new
      BY <2>2, <3>2, AppendProperties, LenProperties
    <3> DEFINE a == Append(q, new)
               z == TaskOf(d)
    <3>5. DOMAIN z = DOMAIN d /\ \A k \in DOMAIN d : z[k] = d[k].task
      BY DEF TaskOf
    <3>6. z = [k \in DOMAIN d |-> d[k].task]
      BY DEF TaskOf
    <3> HIDE DEF a, d, z, q
    <3>7. DOMAIN z = DOMAIN a
      BY <3>1, <3>3, <3>4, <3>5 DEF a
    <3>8. \A k \in DOMAIN a : z[k] = a[k]
      <4> SUFFICES ASSUME NEW k \in 1..(Len(q) + 1)
                   PROVE  z[k] = a[k]
        BY <3>4 DEF a
      <4>1. k \in DOMAIN d /\ z[k] = d[k].task
        BY <3>1, <3>3, <3>5
      <4>2. CASE k \in 1..Len(q)
        BY <1>1, <1>2, <3>1, <3>3, <3>4, <4>1, <4>2 DEF a
      <4>3. CASE k = Len(q) + 1
        BY <1>1, <3>1, <3>3, <3>4, <4>1, <4>3 DEF a
      <4>4. QED
        BY <1>1, <3>3, <4>2, <4>3
    <3>9. a = [k \in DOMAIN a |-> a[k]]
      BY <3>4, ElementOfSeq, LenProperties DEF a
    <3>10. z = a
      BY <3>6, <3>7, <3>8, <3>9
    <3>11. QED
      BY <3>2, <3>10 DEF a, z
  <2>5. Selects(q, q)
    <3>1. [k \in DOMAIN q |-> k] \in [DOMAIN q -> DOMAIN q]
      OBVIOUS
    <3>2. QED
      BY <3>1 DEF Selects
  <2> HIDE DEF q, d
  <2>6. Joins(Append(q, new), q, new)
    BY <2>2, <2>3, <2>4, <2>5, AppendKeepsFew DEF QueuesBuilt, q
  <2>7. QED
    BY <2>1, <2>2, <2>4, <2>6 DEF Joins, q
<1>7. QED
  BY <1>3, <1>4, <1>5, <1>6

(* The tasks of selected delayed entries are selected. *)
LEMMA TaskOfSelects ==
  ASSUME NEW d, NEW a, Selects(a, d)
  PROVE  Selects(TaskOf(a), TaskOf(d))
<1> PICK f \in [DOMAIN a -> DOMAIN d] :
           /\ \A k \in DOMAIN a : a[k] = d[f[k]]
           /\ \A k, m \in DOMAIN a : k # m => f[k] # f[m]
  BY DEF Selects
<1>1. /\ DOMAIN TaskOf(a) = DOMAIN a /\ DOMAIN TaskOf(d) = DOMAIN d
      /\ \A k \in DOMAIN a : TaskOf(a)[k] = TaskOf(d)[f[k]]
  BY DEF TaskOf
<1>2. QED
  BY <1>1 DEF Selects

(* What follows a queue adds to what is in it. *)
LEMMA ConcatFew ==
  ASSUME NEW T, NEW a \in Seq(T), NEW b \in Seq(T), DeepsBuilt(a), DeepsBuilt(b)
  PROVE  /\ DeepsBuilt(a \o b)
         /\ \A root : /\ DeepAt(b, root) = {} => FewStay(a \o b, a, root)
                      /\ AtMostOne(DeepAt(a, root)) /\ AtMostOne(DeepAt(b, root)) =>
                           AtMostTwo(DeepAt(a \o b, root))
<1> DEFINE w == a \o b
           n == Len(a)
<1>1. /\ DOMAIN a = 1..n /\ n \in Nat /\ DOMAIN b = 1..Len(b) /\ Len(b) \in Nat
      /\ DOMAIN w = 1..(n + Len(b))
      /\ \A i \in DOMAIN w : w[i] = IF i <= n THEN a[i] ELSE b[i - n]
  BY LenProperties, ConcatProperties
<1> HIDE DEF w, n
<1>2. \A i \in DOMAIN w : \/ i \in DOMAIN a /\ w[i] = a[i]
                          \/ i - n \in DOMAIN b /\ w[i] = b[i - n] /\ i \in Int
  BY <1>1
<1>3. DeepsBuilt(w)
  BY <1>2 DEF DeepsBuilt
<1>4. ASSUME NEW root
      PROVE  /\ DeepAt(b, root) = {} => FewStay(w, a, root)
             /\ AtMostOne(DeepAt(a, root)) /\ AtMostOne(DeepAt(b, root)) =>
                  AtMostTwo(DeepAt(w, root))
  <2>1. \A i \in DeepAt(w, root) : \/ i \in DeepAt(a, root)
                                   \/ i - n \in DeepAt(b, root) /\ i \in Int
    BY <1>2 DEF DeepAt
  <2>2. DeepAt(b, root) = {} => FewStay(w, a, root)
    BY <2>1 DEF FewStay, AtMostOne, AtMostTwo
  <2>3. ASSUME AtMostOne(DeepAt(a, root)), AtMostOne(DeepAt(b, root)),
               NEW i \in DeepAt(w, root), NEW j \in DeepAt(w, root), NEW k \in DeepAt(w, root)
        PROVE  i = j \/ j = k \/ i = k
    <3> DEFINE A(x) == x \in DeepAt(a, root)
               B(x) == x - n \in DeepAt(b, root) /\ x \in Int
    <3>1. A(i) /\ A(j) => i = j
      BY <2>3 DEF AtMostOne
    <3>2. A(j) /\ A(k) => j = k
      BY <2>3 DEF AtMostOne
    <3>3. A(i) /\ A(k) => i = k
      BY <2>3 DEF AtMostOne
    <3>4. B(i) /\ B(j) => i - n = j - n
      BY <2>3 DEF AtMostOne
    <3>5. B(j) /\ B(k) => j - n = k - n
      BY <2>3 DEF AtMostOne
    <3>6. B(i) /\ B(k) => i - n = k - n
      BY <2>3 DEF AtMostOne
    <3>7. (A(i) \/ B(i)) /\ (A(j) \/ B(j)) /\ (A(k) \/ B(k))
      BY <2>1
    <3>8. n \in Int
      BY <1>1
    <3>9. /\ B(i) /\ B(j) => i = j
          /\ B(j) /\ B(k) => j = k
          /\ B(i) /\ B(k) => i = k
      BY <3>4, <3>5, <3>6, <3>8
    <3> HIDE DEF A, B
    <3>10. QED
      BY <3>1, <3>2, <3>3, <3>7, <3>9
  <2>4. QED
    BY <2>2, <2>3 DEF AtMostTwo
<1>5. QED
  BY <1>3, <1>4 DEF w

(* The retries that are due join the ready queue; of a root none of them was  *)
(* there, or one deep continuation at most.                                   *)
LEMMA PromotedFew ==
  ASSUME NEW s \in Schedulers, QueuesBuilt(s), NEW root, FewDeep(s, root)
  PROVE  QueuesBuilt(PromoteReadyDelayedTasks(s)) /\ FewDeep(PromoteReadyDelayedTasks(s), root)
<1> DEFINE p    == PromoteReadyDelayedTasks(s)
           due  == Keep(s.delayed, DueAt(s))
           rest == Keep(s.delayed, DOMAIN s.delayed \ DueAt(s))
           all  == TaskOf(s.delayed)
<1>1. s.tasks \in Seq(Tasks) /\ s.delayed \in Seq(Delayed)
  BY DEF Schedulers
<1>2. p.tasks = s.tasks \o TaskOf(due) /\ TaskOf(due) \in Seq(Tasks) /\ p.delayed = rest
  BY PromotedParts
<1>3. DueAt(s) \in SUBSET DOMAIN s.delayed /\ DOMAIN s.delayed \ DueAt(s) \in SUBSET DOMAIN s.delayed
  BY DEF DueAt
<1>4. /\ Elements(due) = ValuesAt(s.delayed, DueAt(s))
      /\ Elements(rest) = ValuesAt(s.delayed, DOMAIN s.delayed \ DueAt(s))
      /\ Selects(due, s.delayed) /\ Selects(rest, s.delayed)
  BY <1>1, <1>3, KeepProperties, KeepSelects
<1> HIDE DEF p, due, rest
<1>5. Selects(TaskOf(due), all) /\ Selects(TaskOf(rest), all)
  BY <1>4, TaskOfSelects
<1>6. /\ DeepsBuilt(TaskOf(due)) /\ DeepsBuilt(TaskOf(rest))
      /\ NoneStays(TaskOf(due), all, root) /\ FewStay(TaskOf(due), all, root)
      /\ NoneStays(TaskOf(rest), all, root) /\ FewStay(TaskOf(rest), all, root)
  BY <1>5, SelectionKeepsFew DEF QueuesBuilt
<1>7. /\ DeepsBuilt(p.tasks)
      /\ DeepAt(TaskOf(due), root) = {} => FewStay(p.tasks, s.tasks, root)
      /\ AtMostOne(DeepAt(s.tasks, root)) /\ AtMostOne(DeepAt(TaskOf(due), root)) =>
           AtMostTwo(DeepAt(p.tasks, root))
  BY <1>1, <1>2, <1>6, ConcatFew DEF QueuesBuilt
<1>8. DeepAt(TaskOf(due), root) = {} \/ DeepAt(TaskOf(rest), root) = {}
  <2> SUFFICES ASSUME NEW i \in DeepAt(TaskOf(due), root), NEW j \in DeepAt(TaskOf(rest), root)
               PROVE  FALSE
    OBVIOUS
  <2>1. /\ i \in DOMAIN due /\ due[i].task.root = root /\ due[i].task.reason \in DeepReasons
        /\ j \in DOMAIN rest /\ rest[j].task.root = root /\ rest[j].task.reason \in DeepReasons
    BY DEF DeepAt, TaskOf
  <2>2. due[i] \in Elements(due) /\ rest[j] \in Elements(rest)
    BY <2>1 DEF Elements, ValuesAt
  <2>3. PICK k \in DueAt(s) : due[i] = s.delayed[k]
    BY <1>4, <2>2 DEF ValuesAt
  <2>4. PICK m \in DOMAIN s.delayed \ DueAt(s) : rest[j] = s.delayed[m]
    BY <1>4, <2>2 DEF ValuesAt
  <2>5. k \in DeepAt(all, root) /\ m \in DeepAt(all, root)
    BY <1>3, <2>1, <2>3, <2>4 DEF DeepAt, TaskOf
  <2>6. QED
    BY <2>5 DEF FewDeep, AtMostOne
<1> HIDE DEF all
<1>9. AtMostOne(DeepAt(TaskOf(due), root)) /\ AtMostOne(DeepAt(TaskOf(rest), root))
  BY <1>6 DEF FewDeep, FewStay, all
<1>10. AtMostTwo(DeepAt(p.tasks, root))
  <2>1. CASE DeepAt(all, root) = {}
    BY <1>6, <1>7, <2>1 DEF NoneStays, FewStay, FewDeep
  <2>2. CASE DeepAt(all, root) # {}
    BY <1>7, <1>9, <2>2 DEF FewDeep, all
  <2>3. QED
    BY <2>1, <2>2
<1>11. DeepAt(TaskOf(rest), root) = {} \/ AtMostOne(DeepAt(p.tasks, root))
  <2>1. CASE DeepAt(TaskOf(rest), root) # {}
    <3>1. DeepAt(TaskOf(due), root) = {} /\ DeepAt(all, root) # {}
      BY <1>6, <1>8, <2>1 DEF NoneStays
    <3>2. QED
      BY <1>7, <3>1 DEF FewDeep, FewStay, all
  <2>2. QED
    BY <2>1
<1>12. QED
  BY <1>2, <1>6, <1>7, <1>9, <1>10, <1>11 DEF FewDeep, QueuesBuilt, p

(* The order of dispatch adds none. *)
LEMMA DispatchFew ==
  ASSUME NEW q \in Seq(Tasks), NEW burst \in Nat, DeepsBuilt(q)
  PROVE  LET w == PromoteBackgroundTurn(ByPriority(q), burst)
         IN  DeepsBuilt(w) /\ \A root : NoneStays(w, q, root) /\ FewStay(w, q, root)
<1> DEFINE o     == ByPriority(q)
           turns == {i \in DOMAIN o : IsBackgroundTurn(o[i].priority)}
           w     == PromoteBackgroundTurn(o, burst)
<1>1. /\ o \in Seq(Tasks) /\ DeepsBuilt(o)
      /\ \A root : NoneStays(o, q, root) /\ FewStay(o, q, root)
  BY ByPriorityProperties, ByPrioritySelects, SelectionKeepsFew
<1>2. DOMAIN o = 1..Len(o) /\ Len(o) \in Nat
  BY <1>1, LenProperties
<1>3. w = o \/ (turns # {} /\ w = Swapped(o, 1, First(turns)))
  BY DEF PromoteBackgroundTurn
<1>4. turns \in SUBSET (1..Len(o))
  BY <1>2
<1> HIDE DEF o, turns, w
<1>5. CASE turns # {} /\ w = Swapped(o, 1, First(turns))
  <2>1. First(turns) \in DOMAIN o
    BY <1>2, <1>4, <1>5, FirstProperties
  <2>2. 1 \in DOMAIN o
    BY <1>2, <2>1
  <2>3. Selects(w, o)
    BY <1>5, <2>1, <2>2, SwappedSelects
  <2>4. DeepsBuilt(w) /\ \A root : NoneStays(w, o, root) /\ FewStay(w, o, root)
    BY <1>1, <2>3, SelectionKeepsFew
  <2>5. QED
    BY <1>1, <2>4 DEF NoneStays, FewStay, o, w
<1>6. CASE w = o
  BY <1>1, <1>6 DEF o, w
<1>7. QED
  BY <1>3, <1>5, <1>6

(* A batch with a deep continuation leaves at most one of its root ready. *)
LEMMA SplitFew ==
  ASSUME NEW q \in Seq(Tasks), NEW m \in 0..Len(q), NEW root, AtMostTwo(DeepAt(q, root))
  PROVE  DeepAt(SubSeq(q, 1, m), root) # {} => AtMostOne(DeepAt(SubSeq(q, m + 1, Len(q)), root))
<1> DEFINE a == SubSeq(q, 1, m)
           b == SubSeq(q, m + 1, Len(q))
<1>1. DOMAIN q = 1..Len(q) /\ Len(q) \in Nat /\ m \in Nat /\ m <= Len(q)
  BY LenProperties
<1>2. DOMAIN a = 1..m /\ \A i \in 1..m : a[i] = q[i]
  BY <1>1, SplitProperties, LenProperties
<1>3. b = [k \in 1..(Len(q) - m) |-> q[k + m]]
  BY <1>1 DEF SubSeq
<1>4. DOMAIN b = 1..(Len(q) - m) /\ \A k \in 1..(Len(q) - m) : b[k] = q[k + m]
  BY <1>3
<1> HIDE DEF a, b
<1>5. ASSUME NEW i \in DeepAt(a, root), NEW j \in DeepAt(b, root), NEW k \in DeepAt(b, root)
      PROVE  j = k
  <2>1. /\ i \in 1..m /\ j \in 1..(Len(q) - m) /\ k \in 1..(Len(q) - m)
    BY <1>2, <1>4 DEF DeepAt
  <2>2. i \in DOMAIN q /\ j + m \in DOMAIN q /\ k + m \in DOMAIN q
    BY <1>1, <2>1
  <2>3. i \in DeepAt(q, root) /\ j + m \in DeepAt(q, root) /\ k + m \in DeepAt(q, root)
    BY <1>2, <1>4, <2>1, <2>2 DEF DeepAt
  <2>4. i = j + m \/ j + m = k + m \/ i = k + m
    BY <2>3 DEF AtMostTwo
  <2>5. QED
    BY <1>1, <2>1, <2>4
<1>6. QED
  BY <1>5 DEF AtMostOne, a, b

(* A drain keeps them few, and takes one of two of a root it takes one of. *)
LEMMA DrainFew ==
  ASSUME NEW s \in Schedulers, NEW n \in Nat \ {0}, QueuesBuilt(s), NEW root, FewDeep(s, root)
  PROVE  LET d == DrainReadyBatch(s, n)
         IN  /\ QueuesBuilt(d.scheduler) /\ DeepsBuilt(d.batch) /\ FewDeep(d.scheduler, root)
             /\ DeepAt(d.batch, root) # {} => AtMostOne(DeepAt(d.scheduler.tasks, root))
<1> DEFINE p     == PromoteReadyDelayedTasks(s)
           o     == ByPriority(p.tasks)
           q     == DispatchOrder(s)
           limit == BatchLimit(q, n)
           batch == SubSeq(q, 1, limit)
           rest  == SubSeq(q, limit + 1, Len(q))
           d     == DrainReadyBatch(s, n)
<1>1. p \in Schedulers /\ QueuesBuilt(p) /\ FewDeep(p, root)
  BY PromoteProperties, PromotedFew
<1>2. p.tasks \in Seq(Tasks) /\ s.burst \in Nat
  BY <1>1 DEF Schedulers
<1>3. d.batch = batch /\ d.scheduler = [p EXCEPT !.tasks = rest, !.burst = RecordDispatch(p.burst, batch)]
  BY DEF DrainReadyBatch
<1>4. q = PromoteBackgroundTurn(o, s.burst)
  BY DEF DispatchOrder
<1>5. d.scheduler.tasks = rest /\ d.scheduler.delayed = p.delayed
  <2> HIDE DEF p, batch, rest, d
  <2>1. QED
    BY <1>1, <1>3 DEF Schedulers
<1> HIDE DEF p, d
<1>6. DeepsBuilt(q) /\ NoneStays(q, p.tasks, root) /\ FewStay(q, p.tasks, root)
  BY <1>1, <1>2, <1>4, DispatchFew DEF QueuesBuilt
<1>7. q \in Seq(Tasks)
  <2>1. o \in Seq(Tasks) /\ Elements(o) = Elements(p.tasks)
    BY <1>2, ByPriorityProperties
  <2> HIDE DEF o, q
  <2>2. QED
    BY <1>2, <1>4, <2>1, BackgroundTurnProperties
<1> HIDE DEF o, q
<1>8. limit \in 0..Len(q)
  <2>1. Len(q) \in Nat
    BY <1>7, LenProperties
  <2>2. QED
    BY <2>1 DEF BatchLimit, Smaller
<1> HIDE DEF limit
<1>9. AtMostTwo(DeepAt(q, root))
  BY <1>1, <1>6 DEF FewDeep, FewStay
<1>10. Selects(rest, q) /\ Selects(batch, q)
  BY <1>7, <1>8, SplitSelects
<1>11. DeepAt(batch, root) # {} => AtMostOne(DeepAt(rest, root))
  BY <1>7, <1>8, <1>9, SplitFew
<1> HIDE DEF batch, rest
<1>12. /\ DeepsBuilt(rest) /\ DeepsBuilt(batch) /\ FewStay(rest, q, root)
  BY <1>6, <1>10, SelectionKeepsFew
<1>13. FewStay(rest, p.tasks, root)
  BY <1>6, <1>12 DEF FewStay
<1>14. QED
  BY <1>1, <1>3, <1>5, <1>11, <1>12, <1>13 DEF FewDeep, FewStay, QueuesBuilt, d

(* The fence adds none. *)
LEMMA DrainRootFew ==
  ASSUME NEW s \in Schedulers, QueuesBuilt(s), NEW root, NEW other
  PROVE  LET d == DrainTasksForRoot(s, root)
         IN  /\ QueuesBuilt(d)
             /\ FewStay(d.tasks, s.tasks, other)
             /\ NoneStays(TaskOf(d.delayed), TaskOf(s.delayed), other)
             /\ FewStay(TaskOf(d.delayed), TaskOf(s.delayed), other)
<1> DEFINE I == {i \in DOMAIN s.tasks : s.tasks[i].root # root}
           J == {i \in DOMAIN s.delayed : s.delayed[i].task.root # root}
           d == DrainTasksForRoot(s, root)
<1>1. s.tasks \in Seq(Tasks) /\ s.delayed \in Seq(Delayed)
  BY DEF Schedulers
<1>2. d.tasks = Keep(s.tasks, I) /\ d.delayed = Keep(s.delayed, J)
  BY DEF DrainTasksForRoot, Schedulers
<1>3. I \in SUBSET DOMAIN s.tasks /\ J \in SUBSET DOMAIN s.delayed
  OBVIOUS
<1> HIDE DEF I, J, d
<1>4. Selects(d.tasks, s.tasks) /\ Selects(TaskOf(d.delayed), TaskOf(s.delayed))
  BY <1>1, <1>2, <1>3, KeepSelects, TaskOfSelects
<1>5. QED
  BY <1>4, SelectionKeepsFew DEF QueuesBuilt, d

=============================================================================
