-------------------------- MODULE Semantic_proofs --------------------------
(***************************************************************************)
(* Proofs about the semantic host, for any number of threads, sessions and *)
(* calls and any capacity of a queue, and about the way of one document to *)
(* its workers, for any number of edits, queries, sessions and faults.     *)
(***************************************************************************)
EXTENDS Semantic, FiniteSetTheorems, WellFoundedInduction, TLAPS

(***************************************************************************)
(* The inductive invariant.  Who has the lock is who starts a session, and *)
(* while it does the manager has none.                                     *)
(***************************************************************************)
LockHeld ==
    /\ \A t \in Threads : pc[t] = "starting" <=> lock = t
    /\ lock # Nobody => current = None

\* The session of the manager has an actor that serves it.
ManagerServes == current # None => actor[current] = "serving"

\* A thread that is at its session has a reference to it.
Uses(t) == pc[t] \in {"starting", "send", "push", "wait", "check"}
UsersHold == \A t \in Threads : Uses(t) => work[t].session \in held[t]

\* Nobody else has one to a session that is being started.
StarterAlone ==
    \A t, u \in Threads : pc[t] = "starting" /\ u # t => work[t].session \notin held[u]

IdleHoldNothing == \A t \in Threads : pc[t] = "idle" => held[t] = {}

\* Sessions are made in the order of their numbers.
Unmade == \A s \in Sessions : s > made => actor[s] = "none"

\* An actor does not end before its process.
EndedAreGone == \A s \in Sessions : actor[s] = "ended" => process[s] \notin {"up", "deaf"}

Owned == /\ LockHeld /\ ManagerServes /\ UsersHold /\ StarterAlone
         /\ IdleHoldNothing /\ Unmade /\ EndedAreGone /\ NoOrphans

\* Two requests in the queue of a session differ by their numbers.
CallsApart ==
    \A s \in Sessions :
        /\ IsFiniteSet(queue[s])
        /\ \A r1, r2 \in queue[s] : r1.call = r2.call => r1 = r2

Counted == CallsApart /\ QueueIsCounted

\* What was written to a worker and not answered is the request its actor is at:
\* nothing is left of an earlier one.
Wired ==
    \A s \in Sessions :
        /\ \A r \in queue[s] : r.call > 0
        /\ wire[s] \subseteq {running[s].call}
        /\ running[s] = NoRequest => wire[s] = {}

IInv == TypeOK /\ Owned /\ Counted /\ Wired

WorkSet ==
    [method : Methods \cup {"none", "health"}, session : Sessions \cup {None}, call : Nat,
     answer : {"none", "ok", "error", "superseded"}, retried : BOOLEAN]

-----------------------------------------------------------------------------
(* Numbers. *)

\* A set of naturals that has an element has a least one.
LEMMA LeastNatural ==
    ASSUME NEW S \in SUBSET Nat, S # {}
    PROVE  \E x \in S : \A y \in S : x <= y
<1> DEFINE R == {ss \in Nat \X Nat : ss[1] < ss[2]}
<1>1. IsWellFoundedOn(R, Nat)
  BY NatLessThanWellFounded DEF OpToRel
<1> HIDE DEF R
<1>2. PICK x \in S : \A y \in S : ~ (<<y, x>> \in R)
  BY <1>1, WFMin
<1>3. ASSUME NEW y \in S PROVE x <= y
  <2>1. ~ (<<y, x>> \in R)
    BY <1>2
  <2>2. ~ (y < x)
    BY <2>1 DEF R
  <2> QED BY <2>2
<1> QED BY <1>3

\* What holds of 0 and of the successor of whatever it holds of holds of every natural.
LEMMA AllNaturals ==
    ASSUME NEW S \in SUBSET Nat, 0 \in S, \A n \in S : n + 1 \in S
    PROVE  S = Nat
<1> SUFFICES ASSUME Nat \ S # {} PROVE FALSE
  OBVIOUS
<1>1. PICK x \in Nat \ S : \A y \in Nat \ S : x <= y
  BY LeastNatural
<1>2. x # 0 /\ x - 1 \in Nat
  BY <1>1
<1>3. x - 1 \in S
  BY <1>1, <1>2
<1> QED BY <1>1, <1>2, <1>3

\* A finite set of naturals has an upper bound.
LEMMA FiniteIsBounded ==
    ASSUME NEW S \in SUBSET Nat, IsFiniteSet(S)
    PROVE  \E b \in Nat : \A x \in S : x <= b
<1> DEFINE n == Cardinality(S)
<1>1. n \in Nat /\ ExistsBijection(1..n, S)
  BY FS_CardinalityType
<1> HIDE DEF n
<1>2. PICK f : f \in Bijection(1..n, S)
  BY <1>1 DEF ExistsBijection
<1>3. f \in [1..n -> S] /\ \A x \in S : \E i \in 1..n : f[i] = x
  BY <1>2 DEF Bijection, Surjection, Injection
<1> DEFINE K == {k \in Nat : \E b \in Nat : \A i \in 1..n : i <= k => f[i] <= b}
<1>4. 0 \in K
  <2>1. \A i \in 1..n : i <= 0 => f[i] <= 0
    BY <1>1
  <2> QED BY <2>1
<1>5. ASSUME NEW k \in K PROVE k + 1 \in K
  <2>1. PICK b \in Nat : \A i \in 1..n : i <= k => f[i] <= b
    OBVIOUS
  <2>2. CASE k + 1 \in 1..n
    <3>1. f[k + 1] \in Nat
      BY <1>3, <2>2
    <3> DEFINE c == b + f[k + 1]
    <3>2. c \in Nat /\ b <= c /\ f[k + 1] <= c
      BY <3>1
    <3> HIDE DEF c
    <3>3. ASSUME NEW i \in 1..n, i <= k + 1 PROVE f[i] <= c
      <4>1. f[i] \in Nat
        BY <1>3
      <4>2. CASE i <= k
        BY <2>1, <3>2, <4>1, <4>2
      <4>3. CASE ~ (i <= k)
        <5>1. i = k + 1
          BY <4>3, <3>3, <1>1
        <5> QED BY <5>1, <3>2
      <4> QED BY <4>2, <4>3
    <3> QED BY <3>2, <3>3
  <2>3. CASE k + 1 \notin 1..n
    <3>1. \A i \in 1..n : i <= k + 1 => f[i] <= b
      BY <2>1, <2>3, <1>1
    <3> QED BY <3>1
  <2> QED BY <2>2, <2>3
<1>6. n \in K
  <2> HIDE DEF K
  <2>1. K \in SUBSET Nat
    BY DEF K
  <2>2. K = Nat
    BY <2>1, <1>4, <1>5, AllNaturals
  <2> QED BY <2>2, <1>1
<1>7. PICK b \in Nat : \A i \in 1..n : i <= n => f[i] <= b
  BY <1>6
<1>8. \A x \in S : x <= b
  BY <1>7, <1>3, <1>1
<1> QED BY <1>8

\* The greatest number of a finite set that has one.
LEMMA MaxOfNaturals ==
    ASSUME NEW S \in SUBSET Nat, IsFiniteSet(S), S # {}
    PROVE  Max(S) \in S /\ \A x \in S : Max(S) >= x
<1> DEFINE B == {b \in Nat : \A x \in S : x <= b}
<1>1. B \in SUBSET Nat /\ B # {}
  BY FiniteIsBounded
<1>2. PICK m \in B : \A b \in B : m <= b
  BY <1>1, LeastNatural
<1>3. m \in S
  <2> SUFFICES ASSUME m \notin S PROVE FALSE
    OBVIOUS
  <2>1. \A x \in S : x < m
    BY <1>2
  <2>2. m - 1 \in Nat
    <3>1. PICK x \in S : TRUE
      OBVIOUS
    <3> QED BY <2>1, <1>2, <3>1
  <2>3. m - 1 \in B
    BY <2>1, <2>2, <1>2
  <2> QED BY <2>3, <1>2
<1>4. \A x \in S : m >= x
  BY <1>2
<1> QED BY <1>3, <1>4 DEF Max

-----------------------------------------------------------------------------
(* What the steps have in common. *)

\* A delivery changes the answers of calls that wait for one, and nothing else of them.
LEMMA DeliveryKeeps ==
    ASSUME TypeOK, NEW s, NEW R, NEW a \in {"none", "ok", "error", "superseded"},
           Deliver(s, R, a)
    PROVE  /\ work' \in [Threads -> WorkSet]
           /\ \A t \in Threads : work'[t].session = work[t].session
<1> DEFINE Hit(t) == /\ pc[t] = "wait" /\ work[t].answer = "none" /\ work[t].session = s
                     /\ \E r \in R : r.call = work[t].call
<1>1. work' = [t \in Threads |-> IF Hit(t) THEN [work[t] EXCEPT !.answer = a] ELSE work[t]]
  BY DEF Deliver
<1> HIDE DEF Hit
<1>2. work \in [Threads -> WorkSet]
  BY DEF TypeOK, WorkSet
<1>3. ASSUME NEW t \in Threads
      PROVE  work'[t] \in WorkSet /\ work'[t].session = work[t].session
  <2>1. work[t] \in WorkSet
    BY <1>2
  <2>2. [work[t] EXCEPT !.answer = a] \in WorkSet
        /\ [work[t] EXCEPT !.answer = a].session = work[t].session
    BY <2>1 DEF WorkSet
  <2> QED BY <1>1, <2>1, <2>2
<1> QED BY <1>1, <1>3

\* The number of the next call is greater than those in the queue.
LEMMA NextCallIsNew ==
    ASSUME IInv, NEW s \in Sessions
    PROVE  /\ NextCall(s) \in Nat /\ NextCall(s) > 0
           /\ \A r \in queue[s] : r.call < NextCall(s)
<1> DEFINE O == {r.call : r \in Outstanding(s)}
           C == O \cup wire[s]
<1>1. \A r \in Outstanding(s) : r.call \in Nat
  BY DEF IInv, TypeOK, Outstanding, Request
<1>2. IsFiniteSet(Outstanding(s)) /\ running[s] \in Outstanding(s)
  <2>1. IsFiniteSet(queue[s])
    BY DEF IInv, Counted, CallsApart
  <2> QED BY <2>1, FS_AddElement DEF Outstanding
<1>3. C \in SUBSET Nat /\ C # {}
  <2>1. wire[s] \in SUBSET Nat
    BY DEF IInv, TypeOK
  <2>2. O \in SUBSET Nat /\ O # {}
    BY <1>1, <1>2
  <2> QED BY <2>1, <2>2
<1>4. IsFiniteSet(C)
  <2> DEFINE f == [r \in Outstanding(s) |-> r.call]
  <2>1. f \in Surjection(Outstanding(s), O)
    BY DEF Surjection
  <2>2. IsFiniteSet(O)
    BY <2>1, <1>2, FS_Surjection
  <2>3. IsFiniteSet(wire[s])
    <3>1. wire[s] \subseteq {running[s].call}
      BY DEF IInv, Wired
    <3> QED BY <3>1, FS_Singleton, FS_Subset
  <2> HIDE DEF O
  <2> QED BY <2>2, <2>3, FS_Union
<1> HIDE DEF C
<1>5. Max(C) \in C /\ \A x \in C : Max(C) >= x
  BY <1>3, <1>4, MaxOfNaturals
<1>6. \A r \in queue[s] : r.call \in C
  BY DEF C, Outstanding
<1> DEFINE m == Max(C)
<1>7. NextCall(s) = 1 + m
  BY DEF NextCall, C
<1>8. m \in Nat /\ \A r \in queue[s] : r.call \in Nat /\ m >= r.call
  BY <1>3, <1>5, <1>6
<1> HIDE DEF m
<1> QED BY <1>7, <1>8

\* A thread that uses a session uses one that there is and that is served.
LEMMA UsedServes ==
    ASSUME IInv, NEW t \in Threads, Uses(t)
    PROVE  /\ work[t].session \in Sessions /\ work[t].session \in held[t]
           /\ actor[work[t].session] = "serving"
<1>1. work[t].session \in held[t]
  BY DEF IInv, Owned, UsersHold
<1>2. held[t] \subseteq Sessions
  BY DEF IInv, TypeOK
<1> QED BY <1>1, <1>2 DEF IInv, Owned, NoOrphans

(* The invariant holds at the start. *)
LEMMA Initially == Init => IInv
<1> SUFFICES ASSUME Init PROVE IInv
  OBVIOUS
<1> USE HostAssumption
<1>1. TypeOK
  <2>1. NoWork \in WorkSet
    BY DEF NoWork, WorkSet, None
  <2>2. NoRequest \in Request
    BY DEF NoRequest, Request, None
  <2>3. made \in 0..MaxSessions
    BY DEF Init
  <2> QED BY <2>1, <2>2, <2>3 DEF Init, TypeOK, WorkSet
<1>2. Owned
  BY DEF Init, Owned, LockHeld, ManagerServes, Uses, UsersHold, StarterAlone, IdleHoldNothing,
         Unmade, EndedAreGone, NoOrphans, None, Nobody
<1>4. Wired
  BY DEF Init, Wired
<1>3. Counted
  <2>1. \A s \in Sessions : Reserving(s) = {}
    BY DEF Init, Reserving
  <2> QED BY <2>1, FS_EmptySet DEF Init, Counted, CallsApart, QueueIsCounted
<1> QED BY <1>1, <1>2, <1>3, <1>4 DEF IInv

-----------------------------------------------------------------------------
(* The counter of a queue. *)

\* A step that leaves the queues alone, and who has a place in them.
LEMMA QueuesKept ==
    ASSUME IInv, queue' = queue, queued' = queued,
           \A s \in Sessions : Reserving(s)' = Reserving(s)
    PROVE  Counted'
BY DEF IInv, Counted, CallsApart, QueueIsCounted

\* A thread that goes from one place to another has none in a queue at either.
LEMMA ThreadKeepsQueues ==
    ASSUME IInv, NEW t \in Threads, queue' = queue, queued' = queued,
           pc[t] # "push", NEW w, w # "push", pc' = [pc EXCEPT ![t] = w],
           \A u \in Threads \ {t} : work'[u] = work[u]
    PROVE  Counted'
<1>1. \A s \in Sessions : Reserving(s)' = Reserving(s)
  BY DEF Reserving, IInv, TypeOK
<1> QED BY <1>1, QueuesKept

\* The threads are finitely many.
LEMMA ReservingIsFinite ==
    ASSUME NEW s
    PROVE  /\ IsFiniteSet(Reserving(s)) /\ Cardinality(Reserving(s)) \in Nat
           /\ Cardinality(Reserving(s)') \in Nat
<1>1. IsFiniteSet(Interactive \cup Retrying)
  BY HostAssumption, FS_Union
<1>2. IsFiniteSet(Threads)
  BY <1>1, FS_AddElement DEF Threads
<1>3. Reserving(s) \in SUBSET Threads /\ Reserving(s)' \in SUBSET Threads
  BY DEF Reserving
<1>4. IsFiniteSet(Reserving(s)) /\ IsFiniteSet(Reserving(s)')
  BY <1>2, <1>3, FS_Subset
<1> QED BY <1>4, FS_CardinalityType

(* Reserving a place raises the counter and adds one thread that pushes ... *)
LEMMA ReserveCounts ==
    ASSUME IInv, NEW t \in Threads, Reserve(t)
    PROVE  Counted'
<1>1. PICK s \in Sessions : s = work[t].session
  BY UsedServes DEF Reserve, Uses
<1>2. /\ queue' = queue /\ work' = work
      /\ pc[t] = "send" /\ pc' = [pc EXCEPT ![t] = "push"]
      /\ queued[s] < Capacity /\ queued' = [queued EXCEPT ![s] = @ + 1]
  BY <1>1 DEF Reserve, Goto
<1>3. t \notin Reserving(s) /\ Reserving(s)' = Reserving(s) \cup {t}
  BY <1>1, <1>2 DEF Reserving, IInv, TypeOK
<1>4. \A r \in Sessions \ {s} : Reserving(r)' = Reserving(r)
  BY <1>1, <1>2 DEF Reserving, IInv, TypeOK
<1>5. Cardinality(Reserving(s)') = Cardinality(Reserving(s)) + 1
  BY <1>3, ReservingIsFinite, FS_AddElement
<1>6. /\ queued[s] = Cardinality(queue[s]) + Cardinality(Reserving(s))
      /\ queued \in [Sessions -> Nat]
  BY <1>1 DEF IInv, TypeOK, Counted, QueueIsCounted
<1>7. Cardinality(queue[s]) \in Nat /\ Cardinality(Reserving(s)) \in Nat
  <2>1. IsFiniteSet(queue[s])
    BY <1>1 DEF IInv, Counted, CallsApart
  <2> QED BY <2>1, ReservingIsFinite, FS_CardinalityType
<1>8. queued'[s] = Cardinality(queue'[s]) + Cardinality(Reserving(s)') /\ queued'[s] <= Capacity
  BY <1>1, <1>2, <1>5, <1>6, <1>7, HostAssumption
<1>9. \A r \in Sessions \ {s} :
         queued'[r] = Cardinality(queue'[r]) + Cardinality(Reserving(r)') /\ queued'[r] <= Capacity
  BY <1>2, <1>4, <1>6 DEF IInv, Counted, QueueIsCounted
<1>10. CallsApart'
  BY <1>2 DEF IInv, Counted, CallsApart
<1>11. QueueIsCounted'
  BY <1>8, <1>9 DEF QueueIsCounted
<1> QED BY <1>10, <1>11 DEF Counted

(* ... pushing turns the place into a queued call ... *)
LEMMA PushCounts ==
    ASSUME IInv, NEW t \in Threads, Push(t)
    PROVE  Counted'
<1>1. PICK s \in Sessions : s = work[t].session
  BY UsedServes DEF Push, Uses
<1> DEFINE n == [call |-> NextCall(s), method |-> work[t].method, late |-> FALSE]
<1>2. /\ queue' = [queue EXCEPT ![s] = @ \cup {n}] /\ queued' = queued
      /\ pc[t] = "push" /\ pc' = [pc EXCEPT ![t] = "wait"]
      /\ work' = [work EXCEPT ![t].call = NextCall(s)]
  BY <1>1 DEF Push, Goto
<1>3. \A r \in queue[s] : r.call < NextCall(s) /\ r.call \in Nat
  BY <1>1, NextCallIsNew DEF IInv, TypeOK, Request
<1>4. n.call = NextCall(s) /\ NextCall(s) \in Nat
  BY <1>1, NextCallIsNew
<1> HIDE DEF n
<1>5. n \notin queue[s] /\ \A r \in queue[s] : r.call # n.call
  BY <1>3, <1>4
<1>6. queue'[s] = queue[s] \cup {n} /\ \A r \in Sessions \ {s} : queue'[r] = queue[r]
  BY <1>1, <1>2 DEF IInv, TypeOK
<1>7. IsFiniteSet(queue[s])
  BY <1>1 DEF IInv, Counted, CallsApart
<1>8. IsFiniteSet(queue'[s]) /\ Cardinality(queue'[s]) = Cardinality(queue[s]) + 1
  BY <1>5, <1>6, <1>7, FS_AddElement
<1>9. \A u \in Threads : work'[u].session = work[u].session
  BY <1>2 DEF IInv, TypeOK
<1>10. t \in Reserving(s) /\ Reserving(s)' = Reserving(s) \ {t}
  BY <1>1, <1>2, <1>9 DEF Reserving, IInv, TypeOK
<1>11. \A r \in Sessions \ {s} : Reserving(r)' = Reserving(r)
  BY <1>1, <1>2, <1>9 DEF Reserving, IInv, TypeOK
<1>12. Cardinality(Reserving(s)') = Cardinality(Reserving(s)) - 1
  BY <1>10, ReservingIsFinite, FS_RemoveElement
<1>13. queued[s] = Cardinality(queue[s]) + Cardinality(Reserving(s)) /\ queued[s] <= Capacity
  BY <1>1 DEF IInv, Counted, QueueIsCounted
<1>14. Cardinality(queue[s]) \in Nat /\ Cardinality(Reserving(s)) \in Nat
  BY <1>7, ReservingIsFinite, FS_CardinalityType
<1>15. queued'[s] = Cardinality(queue'[s]) + Cardinality(Reserving(s)') /\ queued'[s] <= Capacity
  BY <1>2, <1>8, <1>12, <1>13, <1>14
<1>16. \A r \in Sessions \ {s} :
         queued'[r] = Cardinality(queue'[r]) + Cardinality(Reserving(r)') /\ queued'[r] <= Capacity
  BY <1>2, <1>6, <1>11 DEF IInv, Counted, QueueIsCounted
<1>17. CallsApart'
  <2>1. \A r1, r2 \in queue[s] : r1.call = r2.call => r1 = r2
    BY DEF IInv, Counted, CallsApart
  <2>2. \A r1, r2 \in queue'[s] : r1.call = r2.call => r1 = r2
    BY <1>5, <1>6, <2>1
  <2> QED BY <1>6, <1>8, <2>2 DEF IInv, Counted, CallsApart
<1>18. QueueIsCounted'
  BY <1>15, <1>16 DEF QueueIsCounted
<1> QED BY <1>17, <1>18 DEF Counted

\* Requests leave the queue of s, and the counter with them.
LEMMA LeavingCounts ==
    ASSUME IInv, NEW s \in Sessions, NEW D \in SUBSET queue[s],
           queue' = [queue EXCEPT ![s] = @ \ D],
           queued' = [queued EXCEPT ![s] = @ - Cardinality(D)],
           \A r \in Sessions : Reserving(r)' = Reserving(r)
    PROVE  Counted'
<1>1. queue'[s] = queue[s] \ D /\ \A r \in Sessions \ {s} : queue'[r] = queue[r]
  BY DEF IInv, TypeOK
<1>2. IsFiniteSet(queue[s])
  BY DEF IInv, Counted, CallsApart
<1>3. /\ IsFiniteSet(queue'[s]) /\ IsFiniteSet(D)
      /\ Cardinality(queue'[s]) = Cardinality(queue[s]) - Cardinality(D)
  <2>1. queue[s] \cap D = D
    OBVIOUS
  <2>2. IsFiniteSet(D)
    BY <1>2, FS_Subset
  <2>3. /\ IsFiniteSet(queue[s] \ D)
        /\ Cardinality(queue[s] \ D) = Cardinality(queue[s]) - Cardinality(queue[s] \cap D)
    BY <1>2, FS_Difference
  <2> QED BY <1>1, <2>1, <2>2, <2>3
<1>4. /\ Cardinality(queue[s]) \in Nat /\ Cardinality(D) \in Nat
      /\ Cardinality(queue'[s]) \in Nat /\ Cardinality(Reserving(s)) \in Nat
  BY <1>2, <1>3, ReservingIsFinite, FS_CardinalityType
<1>5. queued[s] = Cardinality(queue[s]) + Cardinality(Reserving(s)) /\ queued[s] <= Capacity
  BY DEF IInv, Counted, QueueIsCounted
<1>6. queued'[s] = queued[s] - Cardinality(D) /\ \A r \in Sessions \ {s} : queued'[r] = queued[r]
  BY DEF IInv, TypeOK
<1>7. queued'[s] = Cardinality(queue'[s]) + Cardinality(Reserving(s)') /\ queued'[s] <= Capacity
  BY <1>3, <1>4, <1>5, <1>6, HostAssumption
<1>8. \A r \in Sessions \ {s} :
         queued'[r] = Cardinality(queue'[r]) + Cardinality(Reserving(r)') /\ queued'[r] <= Capacity
  BY <1>1, <1>6 DEF IInv, Counted, QueueIsCounted
<1>9. CallsApart'
  BY <1>1, <1>3 DEF IInv, Counted, CallsApart
<1>10. QueueIsCounted'
  BY <1>7, <1>8 DEF QueueIsCounted
<1> QED BY <1>9, <1>10 DEF Counted

\* Who has a place is not a matter of the answers.
LEMMA DeliveryKeepsPlaces ==
    ASSUME IInv, NEW s, NEW R, NEW a \in {"none", "ok", "error", "superseded"},
           Deliver(s, R, a), pc' = pc
    PROVE  \A r \in Sessions : Reserving(r)' = Reserving(r)
<1>1. \A t \in Threads : work'[t].session = work[t].session
  BY DeliveryKeeps DEF IInv
<1> QED BY <1>1 DEF Reserving

(* ... and taking calls from the queue gives their places back. *)
LEMMA ActorCounts ==
    ASSUME IInv, NEW s \in Sessions, Turn(s)
    PROVE  Counted'
<1>1. ASSUME NEW r \in queue[s], NEW D \in SUBSET queue[s], Takes(s, r, D) PROVE Counted'
  <2>1. \A u \in Sessions : Reserving(u)' = Reserving(u)
    BY <1>1, DeliveryKeepsPlaces DEF Takes
  <2> DEFINE E == D \cup {r}
  <2>2. /\ E \in SUBSET queue[s] /\ queue' = [queue EXCEPT ![s] = @ \ E]
        /\ queued' = [queued EXCEPT ![s] = @ - Cardinality(E)]
    BY <1>1 DEF Takes
  <2> HIDE DEF E
  <2> QED BY <2>1, <2>2, LeavingCounts
<1>2. Replaced(queue[s]) \in SUBSET queue[s]
  BY DEF Replaced
<1>3. ASSUME NEW r \in queue[s], Execute(s, r) PROVE Counted'
  BY <1>1, <1>2, <1>3 DEF Execute
<1>4. ASSUME NEW r \in queue[s], SkipLate(s, r) PROVE Counted'
  <2>1. Replaced(queue[s]) \cup {r} \in SUBSET queue[s]
    BY <1>2
  <2> QED BY <1>1, <1>4, <2>1 DEF SkipLate
<1>5. ASSUME Stop(s) PROVE Counted'
  <2>1. \A u \in Sessions : Reserving(u)' = Reserving(u)
    BY <1>5, DeliveryKeepsPlaces DEF Stop
  <2>2. /\ queue[s] \in SUBSET queue[s] /\ queue' = [queue EXCEPT ![s] = @ \ queue[s]]
        /\ queued' = [queued EXCEPT ![s] = @ - Cardinality(queue[s])]
    BY <1>5 DEF Stop, IInv, TypeOK
  <2> QED BY <2>1, <2>2, LeavingCounts
<1> QED BY <1>3, <1>4, <1>5 DEF Turn

\* That a deadline has passed does not make two requests one.
LEMMA ExpireCounts ==
    ASSUME IInv, NEW s \in Sessions, Expire(s)
    PROVE  Counted'
<1>1. \A u \in Sessions : Reserving(u)' = Reserving(u)
  BY DEF Expire, thread, Reserving
<1>2. CASE queue' = queue
  BY <1>1, <1>2, QueuesKept DEF Expire
<1>3. ASSUME NEW r \in queue[s], ~ r.late,
             queue' = [queue EXCEPT ![s] = (@ \ {r}) \cup {Late(r)}]
      PROVE  Counted'
  <2> DEFINE l == Late(r)
             Q == queue[s] \ {r}
  <2>1. /\ r \in Request /\ l.call = r.call /\ l.late
    BY DEF IInv, TypeOK, Late, Request
  <2>2. queue'[s] = Q \cup {l} /\ \A u \in Sessions \ {s} : queue'[u] = queue[u]
    BY <1>3 DEF IInv, TypeOK
  <2>3. IsFiniteSet(queue[s]) /\ \A r1, r2 \in queue[s] : r1.call = r2.call => r1 = r2
    BY DEF IInv, Counted, CallsApart
  <2> HIDE DEF l
  <2>4. l \notin Q /\ \A o \in Q : o.call # l.call
    BY <2>1, <2>3
  <2>5. IsFiniteSet(Q) /\ Cardinality(Q) = Cardinality(queue[s]) - 1
    BY <2>3, FS_RemoveElement
  <2>6. Cardinality(queue[s]) \in Nat
    BY <2>3, FS_CardinalityType
  <2>7. \A r1, r2 \in Q : r1.call = r2.call => r1 = r2
    BY <2>3
  <2> HIDE DEF Q
  <2>8. IsFiniteSet(queue'[s]) /\ Cardinality(queue'[s]) = Cardinality(queue[s])
    <3>1. IsFiniteSet(Q \cup {l}) /\ Cardinality(Q \cup {l}) = Cardinality(Q) + 1
      BY <2>4, <2>5, FS_AddElement
    <3> QED BY <2>2, <2>5, <2>6, <3>1
  <2>9. \A r1, r2 \in queue'[s] : r1.call = r2.call => r1 = r2
    BY <2>2, <2>4, <2>7
  <2>10. CallsApart'
    BY <2>2, <2>8, <2>9 DEF IInv, Counted, CallsApart
  <2>11. queued' = queued
    BY DEF Expire
  <2>12. \A u \in Sessions : Cardinality(queue'[u]) = Cardinality(queue[u])
    BY <2>2, <2>8
  <2>13. QueueIsCounted'
    BY <1>1, <2>11, <2>12 DEF IInv, Counted, QueueIsCounted
  <2> QED BY <2>10, <2>13 DEF Counted
<1> QED BY <1>2, <1>3 DEF Expire

(* Every step keeps the places of the queues counted. *)
LEMMA CountedStep ==
    ASSUME IInv, [Next]_vars
    PROVE  Counted'
<1>1. ASSUME NEW t \in Threads, Proceed(t) PROVE Counted'
  <2> USE <1>1
  <2>1. CASE Reuse(t)
    BY <2>1, ThreadKeepsQueues DEF Reuse, Acquires, Has, Goto, session, IInv, TypeOK
  <2>2. CASE Refuse(t)
    BY <2>2, ThreadKeepsQueues DEF Refuse, Acquires, Goto, session
  <2>3. CASE Launch(t)
    BY <2>3, ThreadKeepsQueues DEF Launch, MayLaunch, Acquires, Has, Goto, session, IInv, TypeOK
  <2>4. CASE LaunchFails(t)
    BY <2>4, ThreadKeepsQueues DEF LaunchFails, MayLaunch, Acquires, Goto, session
  <2>5. CASE Started(t)
    BY <2>5, ThreadKeepsQueues DEF Started, Goto, session
  <2>6. CASE StartFails(t)
    BY <2>6, ThreadKeepsQueues DEF StartFails, Goto, session
  <2>7. CASE Reserve(t)
    BY <2>7, ReserveCounts
  <2>8. CASE QueueFull(t)
    BY <2>8, ThreadKeepsQueues DEF QueueFull, Goto, session, IInv, TypeOK
  <2>9. CASE Push(t)
    BY <2>9, PushCounts
  <2>10. CASE Succeed(t)
    BY <2>10, ThreadKeepsQueues DEF Succeed, Answered, Goto, session, IInv, TypeOK
  <2>11. CASE SucceedTooBig(t)
    BY <2>11, ThreadKeepsQueues DEF SucceedTooBig, Answered, Goto, session, IInv, TypeOK
  <2>12. CASE FailOnce(t)
    BY <2>12, ThreadKeepsQueues DEF FailOnce, Answered, Goto, session, IInv, TypeOK
  <2>13. CASE Fail(t)
    BY <2>13, ThreadKeepsQueues DEF Fail, Answered, Goto, session, IInv, TypeOK
  <2>14. ASSUME NEW s \in Sessions, Release(t, s) PROVE Counted'
    BY <2>14, QueuesKept DEF Release, session, Reserving
  <2>15. ASSUME NEW s \in Sessions, ReleaseLast(t, s) PROVE Counted'
    BY <2>15, ThreadKeepsQueues DEF ReleaseLast, Drops, Goto, session, IInv, TypeOK
  <2>16. CASE Join(t)
    BY <2>16, ThreadKeepsQueues DEF Join, Goto, session
  <2>17. CASE Return(t)
    BY <2>17, ThreadKeepsQueues DEF Return, Goto, session, IInv, TypeOK
  <2>18. CASE t = Watchdog /\ Check
    <3>1. pc' = [pc EXCEPT ![t] = "release"] \/ pc' = [pc EXCEPT ![t] = "send"]
      BY <2>18 DEF Check, Goto
    <3> QED BY <2>18, <3>1, ThreadKeepsQueues DEF Check, session
  <2> QED BY <2>1, <2>2, <2>3, <2>4, <2>5, <2>6, <2>7, <2>8, <2>9, <2>10, <2>11, <2>12, <2>13,
             <2>14, <2>15, <2>16, <2>17, <2>18
          DEF Proceed, Acquire, Start, Exchange, Finish, Drop
<1>2. ASSUME NEW t \in Threads, GiveUp(t) PROVE Counted'
  <2>1. \A u \in Threads : work'[u].session = work[u].session
    BY <1>2 DEF GiveUp, IInv, TypeOK
  <2> QED BY <1>2, <2>1, QueuesKept DEF GiveUp, session, Reserving
<1>3. ASSUME NEW t \in Threads, NEW m \in Methods, Call(t, m) PROVE Counted'
  BY <1>3, ThreadKeepsQueues DEF Call, Goto, session, IInv, TypeOK
<1>4. CASE Probe
  BY <1>4, ThreadKeepsQueues DEF Probe, Goto, session, Threads, IInv, TypeOK
<1>5. CASE BackoffEnds
  BY <1>5, QueuesKept DEF BackoffEnds, session, thread, Reserving
<1>6. ASSUME NEW s \in Sessions, Turn(s) PROVE Counted'
  BY <1>6, ActorCounts
<1>7. ASSUME NEW s \in Sessions, Breaks(s) PROVE Counted'
  BY <1>7, DeliveryKeepsPlaces, QueuesKept DEF Breaks
<1>8. ASSUME NEW s \in Sessions, Expire(s) PROVE Counted'
  BY <1>8, ExpireCounts
<1>9. ASSUME NEW s \in Sessions, NEW a \in {"ok", "error"}, Answer(s, a) PROVE Counted'
  BY <1>9, DeliveryKeepsPlaces, QueuesKept DEF Answer
<1>10. ASSUME NEW s \in Sessions, Deafen(s) PROVE Counted'
  BY <1>10, QueuesKept DEF Deafen, thread, Reserving
<1>11. CASE UNCHANGED vars
  BY <1>11, QueuesKept DEF vars, session, thread, Reserving
<1> QED BY <1>1, <1>2, <1>3, <1>4, <1>5, <1>6, <1>7, <1>8, <1>9, <1>10, <1>11
        DEF Next, Lose, Crash

-----------------------------------------------------------------------------
(* The types. *)

WorkerTypes ==
    /\ actor \in [Sessions -> {"none", "serving", "stopping", "ended"}]
    /\ process \in [Sessions -> {"none", "up", "deaf", "gone"}]
    /\ queue \in [Sessions -> SUBSET Request] /\ queued \in [Sessions -> Nat]
    /\ running \in [Sessions -> Request] /\ wire \in [Sessions -> SUBSET Nat]

ThreadTypes ==
    /\ pc \in [Threads -> {"idle", "acquire", "starting", "send", "push", "wait", "release",
                           "join", "check"}]
    /\ work \in [Threads -> WorkSet]
    /\ held \in [Threads -> SUBSET Sessions]

ManagerTypes ==
    /\ current \in Sessions \cup {None} /\ lock \in Threads \cup {Nobody}
    /\ made \in 0..MaxSessions /\ backoff \in BOOLEAN /\ asked \in Nat

(* The types, by who changes the variables. *)
LEMMA TypesSplit == TypeOK <=> ManagerTypes /\ ThreadTypes /\ WorkerTypes
BY DEF TypeOK, ManagerTypes, ThreadTypes, WorkerTypes, WorkSet

(* The variables of the threads keep their types ... *)
LEMMA ThreadTypesStep ==
    ASSUME IInv, NEW t \in Threads, Proceed(t)
    PROVE  ThreadTypes'
<1> DEFINE Places == {"idle", "acquire", "starting", "send", "push", "wait", "release", "join",
                      "check"}
<1>1. pc \in [Threads -> Places] /\ work \in [Threads -> WorkSet] /\ held \in [Threads -> SUBSET Sessions]
  BY TypesSplit DEF IInv, ThreadTypes
<1>2. work[t] \in WorkSet /\ held[t] \in SUBSET Sessions
  BY <1>1
<1>3. /\ \A s \in Sessions : [work[t] EXCEPT !.session = s] \in WorkSet
      /\ \A c \in Nat : [work[t] EXCEPT !.call = c] \in WorkSet
      /\ [work[t] EXCEPT !.answer = "error"] \in WorkSet
      /\ NoWork \in WorkSet
      /\ [NoWork EXCEPT !.method = work[t].method, !.retried = TRUE] \in WorkSet
  BY <1>2 DEF WorkSet, NoWork, None
<1>4. \A s : held[t] \ {s} \in SUBSET Sessions
  BY <1>2
<1>5. \A s \in Sessions : held[t] \cup {s} \in SUBSET Sessions
  BY <1>2
<1> USE DEF ThreadTypes
<1>6. CASE Reuse(t)
  <2>1. current \in Sessions
    BY <1>6 DEF Reuse, IInv, TypeOK
  <2> QED BY <1>1, <1>3, <1>5, <1>6, <2>1 DEF Reuse, Has, Goto
<1>7. CASE Refuse(t) \/ LaunchFails(t) \/ Started(t) \/ Reserve(t) \/ Join(t)
  BY <1>1, <1>7 DEF Refuse, LaunchFails, Started, Reserve, Join, Goto
<1>8. CASE Launch(t)
  <2>1. made' \in Sessions
    BY <1>8, HostAssumption DEF Launch, IInv, TypeOK, Sessions
  <2> QED BY <1>1, <1>3, <1>5, <1>8, <2>1 DEF Launch, Has, Goto
<1>9. CASE StartFails(t)
  BY <1>1, <1>4, <1>9 DEF StartFails, Goto
<1>10. CASE QueueFull(t)
  BY <1>1, <1>3, <1>10 DEF QueueFull, Goto, thread
<1>11. CASE Push(t)
  <2>1. NextCall(work[t].session) \in Nat
    BY <1>11, UsedServes, NextCallIsNew DEF Push, Uses
  <2> QED BY <1>1, <1>3, <1>11, <2>1 DEF Push, Goto
<1>12. CASE Succeed(t) \/ SucceedTooBig(t) \/ Fail(t) \/ Return(t)
  BY <1>1, <1>3, <1>12 DEF Succeed, SucceedTooBig, Fail, Return, Goto
<1>13. CASE FailOnce(t)
  BY <1>1, <1>3, <1>13 DEF FailOnce, Goto
<1>14. ASSUME NEW s \in Sessions, Release(t, s) PROVE ThreadTypes'
  BY <1>1, <1>4, <1>14 DEF Release, Drops
<1>15. ASSUME NEW s \in Sessions, ReleaseLast(t, s) PROVE ThreadTypes'
  BY <1>1, <1>3, <1>4, <1>15 DEF ReleaseLast, Drops, Goto
<1>16. CASE t = Watchdog /\ Check
  BY <1>1, <1>16 DEF Check, Goto
<1> QED BY <1>6, <1>7, <1>8, <1>9, <1>10, <1>11, <1>12, <1>13, <1>14, <1>15, <1>16
        DEF Proceed, Acquire, Start, Exchange, Finish, Drop

(* ... those of the manager do ... *)
LEMMA ManagerTypesStep ==
    ASSUME IInv, NEW t \in Threads, Proceed(t)
    PROVE  ManagerTypes'
<1>1. ManagerTypes /\ work[t].retried \in BOOLEAN
  BY TypesSplit DEF IInv, ThreadTypes, WorkSet
<1> USE DEF ManagerTypes
<1>2. CASE Reuse(t) \/ Refuse(t) \/ LaunchFails(t) \/ QueueFull(t) \/ Succeed(t)
  BY <1>1, <1>2 DEF Reuse, Refuse, LaunchFails, QueueFull, Succeed, manager
<1>3. CASE Launch(t)
  <2>1. made + 1 \in 0..MaxSessions
    BY <1>1, <1>3, HostAssumption DEF Launch
  <2> QED BY <1>1, <1>3, <2>1 DEF Launch
<1>4. CASE Started(t)
  <2>1. work[t].session \in Sessions
    BY <1>4, UsedServes DEF Started, Uses
  <2> QED BY <1>1, <1>4, <2>1 DEF Started
<1>5. CASE StartFails(t) \/ Reserve(t) \/ Push(t) \/ Join(t) \/ Return(t)
  BY <1>1, <1>5 DEF StartFails, Reserve, Push, Join, Return, manager
<1>6. CASE SucceedTooBig(t) \/ FailOnce(t) \/ Fail(t)
  BY <1>1, <1>6 DEF SucceedTooBig, FailOnce, Fail, Invalidate
<1>7. ASSUME NEW s \in Sessions, Release(t, s) \/ ReleaseLast(t, s) PROVE ManagerTypes'
  BY <1>1, <1>7 DEF Release, ReleaseLast, manager
<1>8. CASE t = Watchdog /\ Check
  BY <1>1, <1>8 DEF Check, manager
<1> QED BY <1>2, <1>3, <1>4, <1>5, <1>6, <1>7, <1>8
        DEF Proceed, Acquire, Start, Exchange, Finish, Drop

(* ... and those of the workers do. *)
LEMMA WorkerTypesStep ==
    ASSUME IInv, Counted', NEW t \in Threads, Proceed(t)
    PROVE  WorkerTypes'
<1>1. WorkerTypes
  BY TypesSplit DEF IInv
<1> USE DEF WorkerTypes
<1>2. CASE Reuse(t) \/ Refuse(t) \/ LaunchFails(t) \/ QueueFull(t) \/ Succeed(t) \/ Started(t)
           \/ SucceedTooBig(t) \/ FailOnce(t) \/ Fail(t) \/ Join(t) \/ Return(t)
  BY <1>1, <1>2 DEF Reuse, Refuse, LaunchFails, QueueFull, Succeed, Started, SucceedTooBig,
                    FailOnce, Fail, Join, Return, session
<1>3. CASE Launch(t) \/ StartFails(t)
  BY <1>1, <1>3 DEF Launch, StartFails
<1>4. CASE Reserve(t)
  <2>1. work[t].session \in Sessions
    BY <1>4, UsedServes DEF Reserve, Uses
  <2>2. queued[work[t].session] + 1 \in Nat
    BY <1>1, <2>1
  <2> QED BY <1>1, <1>4, <2>2 DEF Reserve
<1>5. CASE Push(t)
  <2>1. NextCall(work[t].session) \in Nat
    BY <1>5, UsedServes, NextCallIsNew DEF Push, Uses
  <2>2. work[t].method \in Methods \cup {"none", "health"}
    BY TypesSplit DEF IInv, ThreadTypes, WorkSet
  <2>3. [call |-> NextCall(work[t].session), method |-> work[t].method, late |-> FALSE] \in Request
    BY <2>1, <2>2 DEF Request
  <2> QED BY <1>1, <1>5, <2>3 DEF Push
<1>6. ASSUME NEW s \in Sessions, Release(t, s) \/ ReleaseLast(t, s) PROVE WorkerTypes'
  BY <1>1, <1>6 DEF Release, ReleaseLast, session
<1>7. CASE t = Watchdog /\ Check
  BY <1>1, <1>7 DEF Check, session
<1> QED BY <1>2, <1>3, <1>4, <1>5, <1>6, <1>7
        DEF Proceed, Acquire, Start, Exchange, Finish, Drop

(* Every step keeps the types. *)
LEMMA TypeStep ==
    ASSUME IInv, [Next]_vars
    PROVE  TypeOK'
<1>1. Counted'
  BY CountedStep
<1>2. ManagerTypes /\ ThreadTypes /\ WorkerTypes
  BY TypesSplit DEF IInv
<1>3. (ManagerTypes /\ ThreadTypes /\ WorkerTypes)' => TypeOK'
  BY DEF TypeOK, ManagerTypes, ThreadTypes, WorkerTypes, WorkSet
<1>4. ASSUME NEW t \in Threads, Proceed(t) PROVE TypeOK'
  BY <1>1, <1>3, <1>4, ThreadTypesStep, ManagerTypesStep, WorkerTypesStep
<1>5. ASSUME NEW t \in Threads, GiveUp(t) PROVE TypeOK'
  <2>1. [work[t] EXCEPT !.answer = "error"] \in WorkSet
    BY <1>2 DEF ThreadTypes, WorkSet
  <2>2. work' \in [Threads -> WorkSet]
    BY <1>2, <1>5, <2>1 DEF GiveUp, ThreadTypes
  <2> QED BY <1>2, <1>3, <1>5, <2>2
          DEF GiveUp, ManagerTypes, ThreadTypes, WorkerTypes, manager, session
<1>6. ASSUME NEW t \in Threads, NEW m \in Methods, Call(t, m) PROVE TypeOK'
  <2>1. [NoWork EXCEPT !.method = m] \in WorkSet
    BY DEF NoWork, WorkSet, None
  <2>2. work' \in [Threads -> WorkSet]
    BY <1>2, <1>6, <2>1 DEF Call, ThreadTypes
  <2> QED BY <1>2, <1>3, <1>6, <2>2
          DEF Call, Goto, ManagerTypes, ThreadTypes, WorkerTypes, manager, session
<1>7. CASE Probe
  <2>1. current \in Sessions
    BY <1>2, <1>7 DEF Probe, ManagerTypes
  <2>2. [NoWork EXCEPT !.method = "health", !.session = current] \in WorkSet
    BY <2>1 DEF NoWork, WorkSet, None
  <2>3. work' \in [Threads -> WorkSet] /\ held' \in [Threads -> SUBSET Sessions]
    BY <1>2, <1>7, <2>1, <2>2 DEF Probe, ThreadTypes
  <2> QED BY <1>2, <1>3, <1>7, <2>3
          DEF Probe, Goto, ManagerTypes, ThreadTypes, WorkerTypes, manager, session
<1>8. CASE BackoffEnds
  BY <1>2, <1>3, <1>8 DEF BackoffEnds, ManagerTypes, ThreadTypes, WorkerTypes, manager, thread, session
<1>9. ASSUME work' \in [Threads -> WorkSet], UNCHANGED <<manager, backoff, pc, held, asked>>, WorkerTypes'
      PROVE  TypeOK'
  BY <1>2, <1>3, <1>9 DEF ManagerTypes, ThreadTypes, manager
<1>10. ASSUME NEW s, NEW D, NEW a \in {"none", "ok", "error", "superseded"}, Deliver(s, D, a)
       PROVE  work' \in [Threads -> WorkSet]
  BY <1>10, DeliveryKeeps DEF IInv
<1>11. ASSUME NEW s \in Sessions, NEW r \in queue[s], NEW D, Takes(s, r, D),
              running' \in [Sessions -> Request], wire' \in [Sessions -> SUBSET Nat]
       PROVE  TypeOK'
  <2>1. work' \in [Threads -> WorkSet]
    BY <1>10, <1>11 DEF Takes
  <2>2. WorkerTypes'
    <3>1. \A u \in Sessions : IsFiniteSet(queue'[u])
      BY <1>1 DEF Counted, CallsApart
    <3>2. queued' \in [Sessions -> Nat]
      <4>1. \A u \in Sessions : Cardinality(queue'[u]) \in Nat /\ Cardinality(Reserving(u)') \in Nat
        BY <3>1, FS_CardinalityType, ReservingIsFinite
      <4>2. \A u \in Sessions : queued'[u] = Cardinality(queue'[u]) + Cardinality(Reserving(u)')
        BY <1>1 DEF Counted, QueueIsCounted
      <4>3. queued' = [u \in Sessions |-> queued'[u]]
        BY <1>2, <1>11 DEF Takes, WorkerTypes
      <4> QED BY <4>1, <4>2, <4>3
    <3> QED BY <1>2, <1>11, <3>2 DEF Takes, WorkerTypes
  <2> QED BY <1>9, <1>11, <2>1, <2>2 DEF Takes
<1>12. ASSUME NEW s \in Sessions, NEW r \in queue[s], Execute(s, r) PROVE TypeOK'
  <2>1. running' \in [Sessions -> Request] /\ wire' \in [Sessions -> SUBSET Nat]
    <3>1. r \in Request
      BY <1>2 DEF WorkerTypes
    <3>2. r.call \in Nat
      BY <3>1 DEF Request
    <3> QED BY <1>2, <1>12, <3>1, <3>2 DEF Execute, WorkerTypes
  <2> QED BY <1>11, <1>12, <2>1 DEF Execute
<1>13. ASSUME NEW s \in Sessions, NEW r \in queue[s], SkipLate(s, r) PROVE TypeOK'
  <2>1. running' \in [Sessions -> Request] /\ wire' \in [Sessions -> SUBSET Nat]
    BY <1>2, <1>13 DEF SkipLate, WorkerTypes
  <2> QED BY <1>11, <1>13, <2>1 DEF SkipLate
<1>14. ASSUME NEW s \in Sessions, Stop(s) PROVE TypeOK'
  <2>1. work' \in [Threads -> WorkSet]
    BY <1>10, <1>14 DEF Stop
  <2>2. IsFiniteSet(queue[s]) /\ queued[s] = Cardinality(queue[s]) + Cardinality(Reserving(s))
    BY DEF IInv, Counted, CallsApart, QueueIsCounted
  <2>3. queued[s] - Cardinality(queue[s]) \in Nat
    BY <2>2, ReservingIsFinite, FS_CardinalityType
  <2>4. WorkerTypes'
    BY <1>2, <1>14, <2>3 DEF Stop, WorkerTypes
  <2> QED BY <1>9, <1>14, <2>1, <2>4 DEF Stop
<1>15. NoRequest \in Request
  BY DEF NoRequest, Request, None
<1>16. ASSUME NEW s \in Sessions, Breaks(s) PROVE TypeOK'
  <2>1. work' \in [Threads -> WorkSet]
    BY <1>10, <1>16 DEF Breaks
  <2>2. WorkerTypes'
    BY <1>2, <1>15, <1>16 DEF Breaks, WorkerTypes
  <2> QED BY <1>9, <1>16, <2>1, <2>2 DEF Breaks
<1>17. ASSUME NEW s \in Sessions, NEW a \in {"ok", "error"}, Answer(s, a) PROVE TypeOK'
  <2>1. work' \in [Threads -> WorkSet]
    BY <1>10, <1>17 DEF Answer
  <2>2. WorkerTypes'
    BY <1>2, <1>15, <1>17 DEF Answer, WorkerTypes
  <2> QED BY <1>9, <1>17, <2>1, <2>2 DEF Answer
<1>18. ASSUME NEW s \in Sessions, Expire(s) PROVE TypeOK'
  <2>1. \A r \in Request : Late(r) \in Request
    BY DEF Late, Request
  <2>2. WorkerTypes'
    BY <1>2, <1>18, <2>1 DEF Expire, WorkerTypes
  <2> QED BY <1>2, <1>3, <1>18, <2>2 DEF Expire, ManagerTypes, ThreadTypes, manager, thread
<1>19. ASSUME NEW s \in Sessions, Deafen(s) PROVE TypeOK'
  BY <1>2, <1>3, <1>19 DEF Deafen, ManagerTypes, ThreadTypes, WorkerTypes, manager, thread
<1>20. CASE UNCHANGED vars
  BY <1>2, <1>3, <1>20 DEF vars, ManagerTypes, ThreadTypes, WorkerTypes, manager, thread, session
<1> QED BY <1>4, <1>5, <1>6, <1>7, <1>8, <1>12, <1>13, <1>14, <1>16, <1>17, <1>18, <1>19, <1>20
        DEF Next, Turn, Lose, Crash

-----------------------------------------------------------------------------
(* Who has which session. *)

\* A step that gives and takes no reference, and at most ends a process.
LEMMA ReferencesKept ==
    ASSUME IInv, UNCHANGED <<current, lock, made, pc, held, actor>>,
           \A t \in Threads : work'[t].session = work[t].session,
           \A s \in Sessions : process'[s] \in {"up", "deaf"} => process[s] \in {"up", "deaf"}
    PROVE  Owned'
<1> USE DEF IInv, Owned
<1>1. LockHeld' /\ ManagerServes' /\ IdleHoldNothing' /\ Unmade'
  BY DEF LockHeld, ManagerServes, IdleHoldNothing, Unmade
<1>2. UsersHold' /\ StarterAlone'
  BY DEF UsersHold, Uses, StarterAlone
<1>3. EndedAreGone'
  BY DEF EndedAreGone
<1>4. NoOrphans'
  BY DEF NoOrphans
<1> QED BY <1>1, <1>2, <1>3, <1>4

\* A thread moves on with the references it has.  The manager may lose the session
\* that the thread has as well.
Moves(t) ==
    /\ pc[t] # "starting" /\ pc'[t] \notin {"starting", "join"}
    /\ UNCHANGED <<lock, made, held, actor, process>>
    /\ \/ current' = current
       \/ current' = None /\ current \in held[t]
    /\ \A u \in Threads \ {t} : pc'[u] = pc[u] /\ work'[u] = work[u]
    /\ pc'[t] \in {"send", "push", "wait", "check"} =>
          Uses(t) /\ work'[t].session = work[t].session
    /\ pc'[t] = "idle" => held[t] = {}
    /\ pc[t] = "join" => actor[work[t].session] = "ended"

(* A thread that only moves owns what it owned. *)
LEMMA ThreadMoves ==
    ASSUME IInv, NEW t \in Threads, Moves(t)
    PROVE  Owned'
<1> USE DEF IInv, Owned, Moves
<1>1. \A u \in Threads \ {t} : pc'[u] = pc[u] /\ work'[u] = work[u]
  OBVIOUS
<1>2. LockHeld'
  BY <1>1 DEF LockHeld
<1>3. ManagerServes' /\ Unmade' /\ EndedAreGone'
  BY DEF ManagerServes, Unmade, EndedAreGone
<1>4. UsersHold'
  BY <1>1 DEF UsersHold, Uses
<1>5. StarterAlone' /\ IdleHoldNothing'
  BY <1>1 DEF StarterAlone, IdleHoldNothing
<1>6. NoOrphans'
  <2>1. ASSUME NEW s \in Sessions, process'[s] \in {"up", "deaf"}
        PROVE  s = current' \/ \E u \in Threads : s \in held'[u] \/ (pc'[u] = "join" /\ work'[u].session = s)
    <3>1. CASE s = current
      BY <3>1
    <3>2. CASE \E u \in Threads : s \in held[u]
      BY <3>2
    <3>3. ASSUME NEW u \in Threads, pc[u] = "join", work[u].session = s
          PROVE  u # t
      BY <2>1, <3>3 DEF EndedAreGone
    <3> QED BY <1>1, <2>1, <3>1, <3>2, <3>3 DEF NoOrphans
  <2>2. \A u \in Threads : \A s \in held'[u] : actor'[s] = "serving"
    BY DEF NoOrphans
  <2> QED BY <2>1, <2>2 DEF NoOrphans
<1> QED BY <1>2, <1>3, <1>4, <1>5, <1>6

(* A thread that takes the current session shares it ... *)
LEMMA ReuseOwns ==
    ASSUME IInv, NEW t \in Threads, Reuse(t)
    PROVE  Owned'
<1> USE DEF IInv, Owned
<1>1. /\ pc[t] = "acquire" /\ lock = Nobody /\ current \in Sessions /\ current # None
      /\ pc' = [pc EXCEPT ![t] = "send"] /\ held' = [held EXCEPT ![t] = @ \cup {current}]
      /\ work' = [work EXCEPT ![t].session = current]
      /\ UNCHANGED <<current, lock, made, actor, process>>
  BY DEF Reuse, Acquires, Has, Goto, manager, session, TypeOK
<1>2. /\ \A u \in Threads \ {t} : pc'[u] = pc[u] /\ work'[u] = work[u] /\ held'[u] = held[u]
      /\ pc'[t] = "send" /\ held'[t] = held[t] \cup {current} /\ work'[t].session = current
  BY <1>1 DEF TypeOK
<1>3. \A u \in Threads : pc[u] # "starting" /\ pc'[u] # "starting"
  BY <1>1, <1>2, HostAssumption DEF LockHeld
<1>4. LockHeld' /\ ManagerServes' /\ Unmade' /\ EndedAreGone' /\ StarterAlone'
  BY <1>1, <1>3 DEF LockHeld, ManagerServes, Unmade, EndedAreGone, StarterAlone
<1>5. UsersHold' /\ IdleHoldNothing'
  BY <1>1, <1>2 DEF UsersHold, Uses, IdleHoldNothing
<1>6. NoOrphans'
  BY <1>1, <1>2 DEF NoOrphans, ManagerServes
<1> QED BY <1>4, <1>5, <1>6

(* ... one that launches takes the lock ... *)
LEMMA LaunchOwns ==
    ASSUME IInv, NEW t \in Threads, Launch(t)
    PROVE  Owned'
<1> USE DEF IInv, Owned
<1> DEFINE n == made + 1
<1>1. /\ pc[t] = "acquire" /\ lock = Nobody /\ current = None /\ made' = n
      /\ pc' = [pc EXCEPT ![t] = "starting"] /\ held' = [held EXCEPT ![t] = @ \cup {n}]
      /\ work' = [work EXCEPT ![t].session = n]
      /\ actor' = [actor EXCEPT ![n] = "serving"] /\ process' = [process EXCEPT ![n] = "up"]
      /\ lock' = t /\ current' = current
  BY DEF Launch, MayLaunch, Acquires, Has, Goto
<1>2. n \in Sessions /\ n > made /\ n # None
  BY HostAssumption DEF Launch, TypeOK, Sessions, None
<1>3. /\ \A u \in Threads \ {t} : pc'[u] = pc[u] /\ work'[u] = work[u] /\ held'[u] = held[u]
      /\ pc'[t] = "starting" /\ held'[t] = held[t] \cup {n} /\ work'[t].session = n
  BY <1>1 DEF TypeOK
<1>4. /\ \A s \in Sessions \ {n} : actor'[s] = actor[s] /\ process'[s] = process[s]
      /\ actor'[n] = "serving" /\ process'[n] = "up"
  BY <1>1, <1>2 DEF TypeOK
<1>5. actor[n] = "none"
  BY <1>2 DEF Unmade
<1>6. \A u \in Threads : n \notin held[u]
  BY <1>5 DEF NoOrphans
<1>7. \A u \in Threads : pc[u] # "starting"
  BY <1>1, HostAssumption DEF LockHeld
<1>8. LockHeld' /\ ManagerServes'
  BY <1>1, <1>3, <1>7 DEF LockHeld, ManagerServes
<1>9. UsersHold' /\ IdleHoldNothing'
  BY <1>1, <1>3 DEF UsersHold, Uses, IdleHoldNothing
<1>10. StarterAlone'
  BY <1>3, <1>6, <1>7 DEF StarterAlone
<1>11. Unmade'
  <2>1. \A s \in Sessions : s > n => s > made /\ s # n
    BY DEF TypeOK, Sessions
  <2> QED BY <1>1, <1>4, <2>1 DEF Unmade
<1>12. EndedAreGone'
  BY <1>4 DEF EndedAreGone
<1>13. NoOrphans'
  <2>1. ASSUME NEW s \in Sessions, process'[s] \in {"up", "deaf"}
        PROVE  s = current' \/ \E u \in Threads : s \in held'[u] \/ (pc'[u] = "join" /\ work'[u].session = s)
    <3>1. CASE s = n
      BY <1>3, <3>1
    <3>2. CASE s # n
      BY <1>1, <1>3, <1>4, <2>1, <3>2 DEF NoOrphans
    <3> QED BY <3>1, <3>2
  <2>2. \A u \in Threads : \A s \in held'[u] : actor'[s] = "serving"
    BY <1>3, <1>4, TypesSplit DEF NoOrphans, ThreadTypes
  <2> QED BY <2>1, <2>2 DEF NoOrphans
<1> QED BY <1>8, <1>9, <1>10, <1>11, <1>12, <1>13

(* ... one whose session has started makes it the current one and gives the lock back ... *)
LEMMA StartedOwns ==
    ASSUME IInv, NEW t \in Threads, Started(t)
    PROVE  Owned'
<1> USE DEF IInv, Owned
<1>1. /\ pc[t] = "starting" /\ pc' = [pc EXCEPT ![t] = "send"]
      /\ current' = work[t].session /\ lock' = Nobody
      /\ UNCHANGED <<made, work, held, actor, process>>
  BY DEF Started, Goto, session
<1>2. lock = t /\ current = None
  BY <1>1, HostAssumption DEF LockHeld
<1>3. work[t].session \in Sessions /\ work[t].session \in held[t] /\ actor[work[t].session] = "serving"
  BY <1>1, UsedServes DEF Uses
<1>4. \A u \in Threads \ {t} : pc'[u] = pc[u] /\ pc[u] # "starting"
  BY <1>1, <1>2 DEF TypeOK, LockHeld
<1>5. pc'[t] = "send"
  BY <1>1 DEF TypeOK
<1>6. LockHeld' /\ ManagerServes' /\ Unmade' /\ EndedAreGone' /\ StarterAlone'
  BY <1>1, <1>3, <1>4, <1>5, HostAssumption
     DEF LockHeld, ManagerServes, Unmade, EndedAreGone, StarterAlone
<1>7. UsersHold' /\ IdleHoldNothing'
  BY <1>1, <1>3, <1>4, <1>5 DEF UsersHold, Uses, IdleHoldNothing
<1>8. NoOrphans'
  <2>1. None \notin Sessions
    BY DEF None, Sessions
  <2> QED BY <1>1, <1>2, <1>4, <2>1 DEF NoOrphans
<1> QED BY <1>6, <1>7, <1>8

(* ... one whose start fails gives the lock back without a session ... *)
LEMMA StartFailsOwns ==
    ASSUME IInv, NEW t \in Threads, StartFails(t)
    PROVE  Owned'
<1> USE DEF IInv, Owned
<1>1. PICK n \in Sessions : n = work[t].session /\ n \in held[t]
  BY UsedServes DEF StartFails, Uses
<1>2. /\ pc[t] = "starting" /\ pc' = [pc EXCEPT ![t] = "release"]
      /\ held' = [held EXCEPT ![t] = @ \ {n}]
      /\ actor' = [actor EXCEPT ![n] = "ended"] /\ process' = [process EXCEPT ![n] = "gone"]
      /\ lock' = Nobody /\ UNCHANGED <<current, made, work>>
  BY <1>1 DEF StartFails, Goto
<1>3. lock = t /\ current = None
  BY <1>2, HostAssumption DEF LockHeld
<1>4. /\ \A u \in Threads \ {t} : pc'[u] = pc[u] /\ held'[u] = held[u] /\ pc[u] # "starting" /\ n \notin held[u]
      /\ pc'[t] = "release" /\ held'[t] = held[t] \ {n}
  BY <1>1, <1>2, <1>3 DEF TypeOK, LockHeld, StarterAlone
<1>5. /\ \A s \in Sessions \ {n} : actor'[s] = actor[s] /\ process'[s] = process[s]
      /\ actor'[n] = "ended" /\ process'[n] = "gone"
  BY <1>2 DEF TypeOK
<1>6. actor[n] = "serving"
  BY <1>1 DEF NoOrphans
<1>7. LockHeld' /\ ManagerServes' /\ EndedAreGone' /\ StarterAlone'
  BY <1>2, <1>3, <1>4, <1>5, HostAssumption DEF LockHeld, ManagerServes, EndedAreGone, StarterAlone
<1>8. Unmade'
  BY <1>2, <1>5, <1>6 DEF Unmade
<1>9. UsersHold' /\ IdleHoldNothing'
  BY <1>2, <1>4 DEF UsersHold, Uses, IdleHoldNothing
<1>10. NoOrphans'
  <2>1. ASSUME NEW s \in Sessions, process'[s] \in {"up", "deaf"}
        PROVE  s = current' \/ \E u \in Threads : s \in held'[u] \/ (pc'[u] = "join" /\ work'[u].session = s)
    <3>1. s # n /\ process[s] \in {"up", "deaf"}
      BY <1>5, <2>1
    <3> QED BY <1>2, <1>4, <3>1 DEF NoOrphans
  <2>2. \A u \in Threads : \A s \in held'[u] : actor'[s] = "serving"
    BY <1>4, <1>5, TypesSplit DEF NoOrphans, ThreadTypes
  <2> QED BY <2>1, <2>2 DEF NoOrphans
<1> QED BY <1>7, <1>8, <1>9, <1>10

\* A reference that is not the last is dropped.
LEMMA ReleaseOwns ==
    ASSUME IInv, NEW t \in Threads, NEW s \in Sessions, Release(t, s)
    PROVE  Owned'
<1> USE DEF IInv, Owned
<1>1. /\ pc[t] = "release" /\ held' = [held EXCEPT ![t] = @ \ {s}]
      /\ s = current \/ \E u \in Threads \ {t} : s \in held[u]
      /\ UNCHANGED <<current, lock, made, pc, work, actor, process>>
  BY DEF Release, Drops, Shared, manager, session
<1>2. /\ \A u \in Threads \ {t} : held'[u] = held[u]
      /\ held'[t] = held[t] \ {s}
  BY <1>1 DEF TypeOK
<1>3. LockHeld' /\ ManagerServes' /\ EndedAreGone' /\ Unmade'
  BY <1>1 DEF LockHeld, ManagerServes, EndedAreGone, Unmade
<1>4. UsersHold' /\ IdleHoldNothing' /\ StarterAlone'
  BY <1>1, <1>2 DEF UsersHold, Uses, IdleHoldNothing, StarterAlone
<1>5. NoOrphans'
  <2>1. ASSUME NEW r \in Sessions, process'[r] \in {"up", "deaf"}
        PROVE  r = current' \/ \E u \in Threads : r \in held'[u] \/ (pc'[u] = "join" /\ work'[u].session = r)
    BY <1>1, <1>2, <2>1 DEF NoOrphans
  <2>2. \A u \in Threads : \A r \in held'[u] : actor'[r] = "serving"
    BY <1>1, <1>2 DEF NoOrphans
  <2> QED BY <2>1, <2>2 DEF NoOrphans
<1> QED BY <1>3, <1>4, <1>5

\* The last one is, and its thread waits for the actor.
LEMMA ReleaseLastOwns ==
    ASSUME IInv, NEW t \in Threads, NEW s \in Sessions, ReleaseLast(t, s)
    PROVE  Owned'
<1> USE DEF IInv, Owned
<1>1. /\ pc[t] = "release" /\ held' = [held EXCEPT ![t] = @ \ {s}] /\ s \in held[t]
      /\ s # current /\ \A u \in Threads \ {t} : s \notin held[u]
      /\ actor' = [actor EXCEPT ![s] = "stopping"]
      /\ work' = [work EXCEPT ![t].session = s] /\ pc' = [pc EXCEPT ![t] = "join"]
      /\ UNCHANGED <<current, lock, made, process>>
  BY DEF ReleaseLast, Drops, Shared, Goto, manager
<1>2. /\ \A u \in Threads \ {t} : held'[u] = held[u] /\ pc'[u] = pc[u] /\ work'[u] = work[u]
      /\ held'[t] = held[t] \ {s} /\ pc'[t] = "join" /\ work'[t].session = s
  BY <1>1 DEF TypeOK
<1>3. /\ \A r \in Sessions \ {s} : actor'[r] = actor[r]
      /\ actor'[s] = "stopping" /\ actor[s] = "serving"
  BY <1>1 DEF TypeOK, NoOrphans
<1>4. LockHeld'
  BY <1>1, <1>2 DEF LockHeld
<1>5. ManagerServes'
  BY <1>1, <1>3 DEF ManagerServes, TypeOK
<1>6. EndedAreGone' /\ Unmade'
  BY <1>1, <1>3 DEF EndedAreGone, Unmade
<1>7. UsersHold' /\ IdleHoldNothing' /\ StarterAlone'
  BY <1>1, <1>2 DEF UsersHold, Uses, IdleHoldNothing, StarterAlone
<1>8. NoOrphans'
  <2>1. ASSUME NEW r \in Sessions, process'[r] \in {"up", "deaf"}
        PROVE  r = current' \/ \E u \in Threads : r \in held'[u] \/ (pc'[u] = "join" /\ work'[u].session = r)
    <3>1. CASE r = s
      BY <1>2, <3>1
    <3>2. CASE r # s
      BY <1>1, <1>2, <2>1, <3>2 DEF NoOrphans
    <3> QED BY <3>1, <3>2
  <2>2. \A u \in Threads : \A r \in held'[u] : actor'[r] = "serving"
    BY <1>1, <1>2, <1>3, TypesSplit DEF NoOrphans, ThreadTypes
  <2> QED BY <2>1, <2>2 DEF NoOrphans
<1> QED BY <1>4, <1>5, <1>6, <1>7, <1>8

(* ... the watchdog shares the session it probes ... *)
LEMMA ProbeOwns ==
    ASSUME IInv, Probe
    PROVE  Owned'
<1> USE DEF IInv, Owned
<1> DEFINE t == Watchdog
<1>1. /\ t \in Threads /\ pc[t] = "idle" /\ lock = Nobody /\ current \in Sessions /\ current # None
      /\ pc' = [pc EXCEPT ![t] = "check"] /\ held' = [held EXCEPT ![t] = {current}]
      /\ work'[t].session = current /\ \A u \in Threads \ {t} : work'[u] = work[u]
      /\ UNCHANGED <<current, lock, made, actor, process>>
  BY DEF Probe, Goto, manager, session, TypeOK, Threads, NoWork
<1> HIDE DEF t
<1>2. /\ \A u \in Threads \ {t} : pc'[u] = pc[u] /\ held'[u] = held[u]
      /\ pc'[t] = "check" /\ held'[t] = {current} /\ held[t] = {}
  BY <1>1 DEF TypeOK, IdleHoldNothing
<1>3. \A u \in Threads : pc[u] # "starting" /\ pc'[u] # "starting"
  BY <1>1, <1>2, HostAssumption DEF LockHeld
<1>4. LockHeld' /\ ManagerServes' /\ Unmade' /\ EndedAreGone' /\ StarterAlone'
  BY <1>1, <1>3 DEF LockHeld, ManagerServes, Unmade, EndedAreGone, StarterAlone
<1>5. UsersHold' /\ IdleHoldNothing'
  BY <1>1, <1>2 DEF UsersHold, Uses, IdleHoldNothing
<1>6. NoOrphans'
  BY <1>1, <1>2 DEF NoOrphans, ManagerServes
<1> QED BY <1>4, <1>5, <1>6

\* The actor ends that nobody has any more.
LEMMA StopOwns ==
    ASSUME IInv, NEW s \in Sessions, Stop(s)
    PROVE  Owned'
<1> USE DEF IInv, Owned
<1>1. /\ actor[s] = "stopping"
      /\ actor' = [actor EXCEPT ![s] = "ended"] /\ process' = [process EXCEPT ![s] = "gone"]
      /\ UNCHANGED <<current, lock, made, pc, held>>
  BY DEF Stop, manager
<1>2. \A t \in Threads : work'[t].session = work[t].session
  BY DeliveryKeeps DEF Stop
<1>3. /\ \A r \in Sessions \ {s} : actor'[r] = actor[r] /\ process'[r] = process[r]
      /\ actor'[s] = "ended" /\ process'[s] = "gone"
  BY <1>1 DEF TypeOK
<1>4. LockHeld' /\ IdleHoldNothing'
  BY <1>1 DEF LockHeld, IdleHoldNothing
<1>5. ManagerServes' /\ Unmade' /\ EndedAreGone'
  BY <1>1, <1>3 DEF ManagerServes, Unmade, EndedAreGone, TypeOK
<1>6. UsersHold' /\ StarterAlone'
  BY <1>1, <1>2 DEF UsersHold, Uses, StarterAlone
<1>7. NoOrphans'
  <2>1. ASSUME NEW r \in Sessions, process'[r] \in {"up", "deaf"}
        PROVE  r = current' \/ \E u \in Threads : r \in held'[u] \/ (pc'[u] = "join" /\ work'[u].session = r)
    <3>1. process[r] \in {"up", "deaf"}
      BY <1>3, <2>1
    <3> QED BY <1>1, <1>2, <3>1 DEF NoOrphans
  <2>2. \A u \in Threads : \A r \in held'[u] : actor'[r] = "serving"
    BY <1>1, <1>3, TypesSplit DEF NoOrphans, ThreadTypes
  <2> QED BY <2>1, <2>2 DEF NoOrphans
<1> QED BY <1>4, <1>5, <1>6, <1>7

(* ... and a thread that goes on after an answer lets its session go. *)
LEMMA ProceedOwns ==
    ASSUME IInv, NEW t \in Threads, Proceed(t)
    PROVE  Owned'
<1>1. \A w : pc' = [pc EXCEPT ![t] = w] =>
        pc'[t] = w /\ \A u \in Threads \ {t} : pc'[u] = pc[u]
  BY DEF IInv, TypeOK
<1>2. \A w : work' = [work EXCEPT ![t] = w] => \A u \in Threads \ {t} : work'[u] = work[u]
  BY DEF IInv, TypeOK
<1>3. \A w : [work[t] EXCEPT !.call = w].session = work[t].session
             /\ [work[t] EXCEPT !.answer = w].session = work[t].session
  <2>1. work[t] \in WorkSet
    BY TypesSplit DEF IInv, ThreadTypes
  <2> QED BY <2>1 DEF WorkSet
<1>4. \A w : work' = [work EXCEPT ![t] = w] => work'[t] = w
  BY DEF IInv, TypeOK
<1> USE DEF Moves, Goto
<1>5. CASE Refuse(t) \/ LaunchFails(t) \/ Join(t) \/ Return(t)
  <2>1. Moves(t)
    BY <1>1, <1>2, <1>5 DEF Refuse, LaunchFails, MayLaunch, Acquires, Join, Return, manager, session
  <2> QED BY <2>1, ThreadMoves
<1>6. CASE Reserve(t)
  <2>1. Moves(t)
    BY <1>1, <1>6 DEF Reserve, Uses, manager
  <2> QED BY <2>1, ThreadMoves
<1>7. CASE QueueFull(t)
  <2>1. Moves(t)
    BY <1>1, <1>2, <1>3, <1>4, <1>7 DEF QueueFull, Uses, manager, session
  <2> QED BY <2>1, ThreadMoves
<1>8. CASE Push(t)
  <2>1. Moves(t)
    BY <1>1, <1>2, <1>3, <1>4, <1>8 DEF Push, Uses, manager
  <2> QED BY <2>1, ThreadMoves
<1>9. CASE Succeed(t)
  <2>1. Moves(t)
    BY <1>1, <1>2, <1>9 DEF Succeed, Answered, manager, session
  <2> QED BY <2>1, ThreadMoves
<1>10. ASSUME Answered(t), Invalidate(work[t].session)
       PROVE  current' = current \/ (current' = None /\ current \in held[t])
  BY <1>10, UsedServes DEF Answered, Invalidate, Uses
<1>11. CASE SucceedTooBig(t) \/ FailOnce(t) \/ Fail(t)
  <2>1. Moves(t)
    BY <1>1, <1>2, <1>10, <1>11 DEF SucceedTooBig, FailOnce, Fail, Answered, session
  <2> QED BY <2>1, ThreadMoves
<1>12. CASE t = Watchdog /\ Check
  <2>1. pc' = [pc EXCEPT ![t] = "release"] \/ pc' = [pc EXCEPT ![t] = "send"]
    BY <1>12 DEF Check
  <2>2. Moves(t)
    BY <1>1, <1>12, <2>1 DEF Check, Uses, manager, session
  <2> QED BY <2>2, ThreadMoves
<1> QED BY <1>5, <1>6, <1>7, <1>8, <1>9, <1>11, <1>12,
           ReuseOwns, LaunchOwns, StartedOwns, StartFailsOwns, ReleaseOwns, ReleaseLastOwns
        DEF Proceed, Acquire, Start, Exchange, Finish, Drop

(* Every step keeps the ownership of sessions. *)
LEMMA OwnedStep ==
    ASSUME IInv, [Next]_vars
    PROVE  Owned'
<1>1. work \in [Threads -> WorkSet] /\ process \in [Sessions -> {"none", "up", "deaf", "gone"}]
  BY TypesSplit DEF IInv, ThreadTypes, WorkerTypes
<1>2. ASSUME NEW t \in Threads, GiveUp(t) PROVE Owned'
  <2>1. \A u \in Threads : work'[u].session = work[u].session
    BY <1>1, <1>2 DEF GiveUp, WorkSet
  <2> QED BY <1>2, <2>1, ReferencesKept DEF GiveUp, manager, session
<1>3. ASSUME NEW t \in Threads, NEW m \in Methods, Call(t, m) PROVE Owned'
  <2>1. Moves(t)
    BY <1>3 DEF Moves, Call, Goto, manager, session, IInv, TypeOK
  <2> QED BY <2>1, ThreadMoves
<1>4. CASE BackoffEnds
  BY <1>4, ReferencesKept DEF BackoffEnds, manager, thread, session
<1>5. ASSUME NEW s, NEW D, NEW a \in {"none", "ok", "error", "superseded"}, Deliver(s, D, a)
      PROVE  \A t \in Threads : work'[t].session = work[t].session
  BY <1>5, DeliveryKeeps DEF IInv
<1>6. ASSUME NEW s \in Sessions, NEW r, NEW D, Takes(s, r, D) PROVE Owned'
  BY <1>5, <1>6, ReferencesKept DEF Takes, manager
<1>7. ASSUME NEW s \in Sessions, NEW r \in queue[s], Execute(s, r) \/ SkipLate(s, r) PROVE Owned'
  BY <1>6, <1>7 DEF Execute, SkipLate
<1>8. ASSUME NEW s \in Sessions, Breaks(s) PROVE Owned'
  <2>1. \A u \in Sessions : process'[u] \in {"up", "deaf"} => process[u] \in {"up", "deaf"}
    BY <1>1, <1>8 DEF Breaks
  <2> QED BY <1>5, <1>8, <2>1, ReferencesKept DEF Breaks, manager
<1>9. ASSUME NEW s \in Sessions, NEW a \in {"ok", "error"}, Answer(s, a) PROVE Owned'
  BY <1>5, <1>9, ReferencesKept DEF Answer, manager
<1>10. ASSUME NEW s \in Sessions, Expire(s) PROVE Owned'
  BY <1>10, ReferencesKept DEF Expire, manager, thread
<1>11. ASSUME NEW s \in Sessions, Deafen(s) PROVE Owned'
  <2>1. \A u \in Sessions : process'[u] \in {"up", "deaf"} => process[u] \in {"up", "deaf"}
    BY <1>1, <1>11 DEF Deafen
  <2> QED BY <1>11, <2>1, ReferencesKept DEF Deafen, manager, thread
<1>12. CASE UNCHANGED vars
  BY <1>12, ReferencesKept DEF vars, manager, thread, session
<1> QED BY <1>2, <1>3, <1>4, <1>7, <1>8, <1>9, <1>10, <1>11, <1>12, ProceedOwns, ProbeOwns, StopOwns
        DEF Next, Turn, Lose, Crash

-----------------------------------------------------------------------------
(* What the workers have not answered. *)

\* A step of a thread leaves it alone, and what it queues has a number of its own.
LEMMA ThreadsKeepWires ==
    ASSUME IInv, NEW t \in Threads, Proceed(t)
    PROVE  Wired'
<1> USE DEF IInv, Wired
<1>1. CASE UNCHANGED <<queue, running, wire>>
  BY <1>1
<1>2. CASE Push(t)
  <2>1. PICK s \in Sessions : s = work[t].session
    BY <1>2, UsedServes DEF Push, Uses
  <2> DEFINE n == [call |-> NextCall(s), method |-> work[t].method, late |-> FALSE]
  <2>2. queue' = [queue EXCEPT ![s] = @ \cup {n}] /\ UNCHANGED <<running, wire>>
    BY <1>2, <2>1 DEF Push
  <2>3. n.call > 0
    BY NextCallIsNew
  <2> HIDE DEF n
  <2> QED BY <2>2, <2>3 DEF TypeOK
<1> QED BY <1>1, <1>2
        DEF Proceed, Acquire, Reuse, Refuse, Launch, LaunchFails, Start, Started, StartFails,
            Exchange, Reserve, QueueFull, Finish, Succeed, SucceedTooBig, FailOnce, Fail,
            Drop, Release, ReleaseLast, Join, Return, Check, session

\* A line that an actor reads is the answer of its request.
LEMMA OnlyLine ==
    ASSUME IInv, NEW s \in Sessions, wire[s] # {}
    PROVE  NextLine(s) = running[s].call
<1>1. running[s].call \in Nat
  BY DEF IInv, TypeOK, Request
<1>2. wire[s] = {running[s].call}
  BY DEF IInv, Wired
<1>3. NextLine(s) \in wire[s]
  <2>1. \E c \in wire[s] : \A d \in wire[s] : c <= d
    BY <1>1, <1>2
  <2> QED BY <2>1 DEF NextLine
<1> QED BY <1>2, <1>3

\* The actor writes a request when the answer of the last was read, or its worker lost.
LEMMA WiredStep ==
    ASSUME IInv, [Next]_vars
    PROVE  Wired'
<1> USE DEF IInv, Wired
<1>1. CASE UNCHANGED <<queue, running, wire>>
  BY <1>1
<1>2. ASSUME NEW s \in Sessions, NEW r \in queue[s], Execute(s, r) PROVE Wired'
  <2>1. r \in Request /\ r.call > 0
    BY DEF TypeOK
  <2>2. r # NoRequest
    BY <2>1 DEF NoRequest, None
  <2>3. wire[s] = {} /\ wire'[s] \subseteq {r.call} /\ running'[s] = r
    BY <1>2 DEF Execute, Takes, TypeOK
  <2>4. \A u \in Sessions \ {s} : wire'[u] = wire[u] /\ running'[u] = running[u]
    BY <1>2 DEF Execute, TypeOK
  <2>5. \A u \in Sessions : queue'[u] \subseteq queue[u]
    BY <1>2 DEF Execute, Takes, TypeOK
  <2> QED BY <2>2, <2>3, <2>4, <2>5
<1>3. ASSUME NEW s \in Sessions, NEW r \in queue[s], SkipLate(s, r) PROVE Wired'
  BY <1>3 DEF SkipLate, Takes, TypeOK
<1>4. ASSUME NEW s \in Sessions, Stop(s) PROVE Wired'
  BY <1>4 DEF Stop, TypeOK
<1>5. ASSUME NEW s \in Sessions, Breaks(s) PROVE Wired'
  BY <1>5 DEF Breaks, TypeOK
<1>6. ASSUME NEW s \in Sessions, NEW a \in {"ok", "error"}, Answer(s, a) PROVE Wired'
  <2>1. NextLine(s) = running[s].call
    BY <1>6, OnlyLine DEF Answer
  <2>2. wire'[s] = {}
    BY <1>6, <2>1 DEF Answer, TypeOK
  <2> QED BY <1>6, <2>2 DEF Answer, TypeOK
<1>7. ASSUME NEW s \in Sessions, Expire(s) PROVE Wired'
  <2>1. \A r \in Request : Late(r).call = r.call /\ Late(r).late
    BY DEF Late, Request
  <2>2. ASSUME NEW r \in queue[s], queue' = [queue EXCEPT ![s] = (@ \ {r}) \cup {Late(r)}],
               UNCHANGED <<running, wire>>
        PROVE  Wired'
    <3>1. Late(r).call > 0
      BY <2>1 DEF TypeOK
    <3> QED BY <2>2, <3>1 DEF TypeOK
  <2>3. ASSUME running' = [running EXCEPT ![s] = Late(@)], UNCHANGED <<queue, wire>>
        PROVE  Wired'
    <3>1. running'[s] = Late(running[s]) /\ running[s] \in Request
      BY <2>3 DEF TypeOK
    <3>2. running'[s].call = running[s].call /\ running'[s] # NoRequest
      BY <2>1, <3>1 DEF NoRequest
    <3>3. \A u \in Sessions \ {s} : running'[u] = running[u]
      BY <2>3 DEF TypeOK
    <3> QED BY <2>3, <3>2, <3>3
  <2> QED BY <1>7, <2>2, <2>3 DEF Expire
<1> QED BY <1>1, <1>2, <1>3, <1>4, <1>5, <1>6, <1>7, ThreadsKeepWires
        DEF Next, Turn, Lose, Crash, GiveUp, Call, Probe, BackoffEnds, Deafen, session, vars

-----------------------------------------------------------------------------
(* What holds always. *)

\* The manager, the threads and the actors keep what IInv says of them.
THEOREM Invariance == Spec => []IInv
<1>1. Init => IInv
  BY Initially
<1>2. IInv /\ [Next]_vars => IInv'
  BY TypeStep, OwnedStep, CountedStep, WiredStep DEF IInv
<1> QED BY <1>1, <1>2, PTL DEF Spec

\* Every variable of the host has its type.
THEOREM TypeCorrect == Spec => []TypeOK
<1>1. IInv => TypeOK
  BY DEF IInv
<1> QED BY <1>1, Invariance, PTL

\* The counter of a session admits no more than its channel holds and counts no
\* request twice or not at all, whoever asks, is late, superseded or told to end.
THEOREM QueuesAreCounted == Spec => []QueueIsCounted
<1>1. IInv => QueueIsCounted
  BY DEF IInv, Counted
<1> QED BY <1>1, Invariance, PTL

\* No worker process is left without an owner, and whoever has a session has one
\* with an actor that serves it, however sessions fail, are discarded and replaced.
THEOREM NoneIsOrphaned == Spec => []NoOrphans
<1>1. IInv => NoOrphans
  BY DEF IInv, Owned
<1> QED BY <1>1, Invariance, PTL

\* Only a call that was answered on the very session takes it from the manager.
THEOREM OnlyCallersDiscard == Spec => OnlyItsCallersDiscardIt
<1> DEFINE A == current # None /\ current' # current =>
                  /\ current' = None
                  /\ \E t \in Threads : Answered(t) /\ work[t].session = current
<1>1. ASSUME IInv, [Next]_vars PROVE A
  <2> SUFFICES ASSUME current # None, current' # current
               PROVE  /\ current' = None
                      /\ \E t \in Threads : Answered(t) /\ work[t].session = current
    OBVIOUS
  <2>1. \A t \in Threads : ~ Started(t)
    BY <1>1, HostAssumption DEF Started, IInv, Owned, LockHeld
  <2>2. ASSUME NEW t \in Threads, SucceedTooBig(t) \/ FailOnce(t) \/ Fail(t)
        PROVE  current' = None /\ Answered(t) /\ work[t].session = current
    BY <2>2 DEF SucceedTooBig, FailOnce, Fail, Invalidate
  <2>3. ASSUME NEW t \in Threads,
               \/ Reuse(t) \/ Refuse(t) \/ Launch(t) \/ LaunchFails(t) \/ StartFails(t)
               \/ Exchange(t) \/ Succeed(t) \/ Drop(t) \/ Check \/ GiveUp(t)
        PROVE  FALSE
    BY <2>3 DEF Reuse, Refuse, Launch, LaunchFails, StartFails, Exchange, Reserve, QueueFull,
                Push, Succeed, Drop, Release, ReleaseLast, Join, Return, Check, GiveUp, manager
  <2>4. ASSUME NEW s \in Sessions,
               \/ Turn(s) \/ Breaks(s) \/ Expire(s) \/ Deafen(s)
               \/ Answer(s, "ok") \/ Answer(s, "error")
        PROVE  FALSE
    BY <2>4 DEF Turn, Execute, SkipLate, Takes, Stop, Breaks, Expire, Deafen, Answer, manager
  <2>5. ~ Probe /\ ~ BackoffEnds /\ ~ UNCHANGED vars
        /\ \A t \in Threads, m \in Methods : ~ Call(t, m)
    BY DEF Probe, BackoffEnds, vars, Call, manager
  <2> QED BY <1>1, <2>1, <2>2, <2>3, <2>4, <2>5
          DEF Next, Proceed, Acquire, Start, Finish, Lose, Crash
<1>2. IInv /\ [Next]_vars => [A]_vars
  BY <1>1
<1>3. []IInv /\ [][Next]_vars => [][A]_vars
  BY <1>2, PTL
<1> QED BY <1>3, Invariance, PTL DEF Spec, OnlyItsCallersDiscardIt

\* A call that is answered gets the line its worker wrote for it, though calls are
\* given up, workers are late and whoever waits for the next one reads the same pipe.
THEOREM AnswersComeFromTheirRequest == Spec => AnswersAreOwn
<1> DEFINE Own(t) == NextLine(work[t].session) = work[t].call
           A == \A t \in Threads : work[t].answer = "none" /\ work'[t].answer = "ok" => Own(t)
<1> HIDE DEF Own
<1>1. ASSUME IInv, [Next]_vars PROVE A
  <2>1. work \in [Threads -> WorkSet] /\ NoWork.answer = "none"
    BY <1>1, TypesSplit DEF IInv, ThreadTypes, NoWork
  <2> SUFFICES ASSUME NEW t \in Threads, work[t].answer = "none", work'[t].answer = "ok"
               PROVE  Own(t)
    OBVIOUS
  <2>2. ASSUME NEW s \in Sessions, NEW D, NEW a \in {"ok", "error", "superseded"}, Deliver(s, D, a)
        PROVE  /\ a = "ok" /\ work[t].session = s
               /\ \E r \in D : r.call = work[t].call
    <3>1. work[t] \in WorkSet /\ [work[t] EXCEPT !.answer = a].answer = a
      BY <2>1 DEF WorkSet
    <3> QED BY <2>2, <3>1 DEF Deliver
  <2>3. ASSUME NEW s \in Sessions, NEW a \in {"ok", "error"}, Answer(s, a) PROVE Own(t)
    <3>1. work[t].session = s /\ work[t].call = running[s].call
      BY <2>2, <2>3 DEF Answer
    <3>2. NextLine(s) = running[s].call
      BY <1>1, <2>3, OnlyLine DEF Answer
    <3> QED BY <3>1, <3>2 DEF Own
  <2>4. ASSUME NEW s \in Sessions, Turn(s) \/ Breaks(s) PROVE FALSE
    BY <2>2, <2>4 DEF Turn, Execute, SkipLate, Takes, Stop, Breaks
  <2>5. ASSUME NEW u \in Threads, work' = [work EXCEPT ![u].answer = "error"] PROVE FALSE
    BY <2>1, <2>5 DEF WorkSet
  <2>6. work' # work
    OBVIOUS
  <2>7. ASSUME NEW u \in Threads, NEW w, w.answer = work[u].answer \/ w.answer = "none",
               work' = [work EXCEPT ![u] = w]
        PROVE  FALSE
    BY <2>1, <2>7
  <2>8. ASSUME NEW u \in Threads, Proceed(u) PROVE FALSE
    <3>1. /\ \A s : [work[u] EXCEPT !.session = s].answer = work[u].answer
          /\ \A c : [work[u] EXCEPT !.call = c].answer = work[u].answer
      BY <2>1 DEF WorkSet
    <3>2. [NoWork EXCEPT !.method = work[u].method, !.retried = TRUE].answer = "none"
      BY DEF NoWork
    <3>3. CASE Acquire(u)
      BY <2>6, <2>7, <3>1, <3>3 DEF Acquire, Reuse, Refuse, Launch, LaunchFails, Has
    <3>4. CASE Start(u)
      BY <2>6, <3>4 DEF Start, Started, StartFails
    <3>5. CASE Exchange(u)
      BY <2>5, <2>6, <2>7, <3>1, <3>5 DEF Exchange, Reserve, QueueFull, Push
    <3>6. CASE Finish(u)
      BY <2>1, <2>7, <3>2, <3>6 DEF Finish, Succeed, SucceedTooBig, FailOnce, Fail
    <3>7. CASE Drop(u)
      BY <2>1, <2>6, <2>7, <3>1, <3>7 DEF Drop, Release, ReleaseLast, Join, Return
    <3>8. CASE Check
      BY <2>6, <3>8 DEF Check
    <3> QED BY <2>8, <3>3, <3>4, <3>5, <3>6, <3>7, <3>8 DEF Proceed
  <2>9. ASSUME NEW u \in Threads, GiveUp(u) PROVE FALSE
    BY <2>5, <2>9 DEF GiveUp
  <2>10. ASSUME NEW u \in Threads, NEW m \in Methods, Call(u, m) PROVE FALSE
    <3>1. [NoWork EXCEPT !.method = m].answer = "none"
      BY DEF NoWork
    <3> QED BY <2>7, <2>10, <3>1 DEF Call
  <2>11. CASE Probe
    <3>1. [NoWork EXCEPT !.method = "health", !.session = current].answer = "none"
      BY DEF NoWork
    <3>2. Watchdog \in Threads
      BY DEF Threads
    <3> QED BY <2>7, <2>11, <3>1, <3>2 DEF Probe
  <2>12. ASSUME NEW s \in Sessions, Expire(s) \/ Deafen(s) PROVE FALSE
    BY <2>6, <2>12 DEF Expire, Deafen, thread
  <2>13. ~ BackoffEnds /\ ~ UNCHANGED vars
    BY <2>6 DEF BackoffEnds, vars, thread
  <2> QED BY <1>1, <2>3, <2>4, <2>8, <2>9, <2>10, <2>11, <2>12, <2>13 DEF Next, Lose, Crash
<1>2. IInv /\ [Next]_vars => [A]_vars
  BY <1>1
<1>3. []IInv /\ [][Next]_vars => [][A]_vars
  BY <1>2, PTL
<1>4. AnswersAreOwn <=> [][A]_vars
  BY DEF AnswersAreOwn, Own
<1> QED BY <1>3, <1>4, Invariance, PTL DEF Spec

-----------------------------------------------------------------------------
(* The way of a document to its worker. *)
SomeText == Doc!Texts \cup {Doc!NoText}
Entries ==
  [text : SomeText, version : Nat, published : Nat, ready : Nat,
   timer : BOOLEAN, warm : Nat, inFlight : BOOLEAN]
Asked ==
  [stage : {"none", "waiting", "asked", "answered", "failed"}, version : Nat,
   of : SomeText, inline : BOOLEAN, served : SomeText,
   from : {"none", "version", "replay", "inline", "disk"}, life : Nat]
HostCalls ==
  [kind : {"sync", "query", "prepare", "close"}, version : Nat,
   text : SomeText, query : Queries \cup {Doc!None}, life : Nat,
   stage : {"new", "held", "sent", "answered"}, session : Doc!Sessions \cup {Doc!None},
   generation : Nat, retried : BOOLEAN, answer : {"none", "ok", "error"}]
Stored ==
  [text : SomeText, generation : Nat, version : Nat,
   origin : {"none", "sync", "replay", "inline", "disk"}]

(* TypeOK, with these names. *)
DocTyped ==
  /\ text \in Doc!Texts /\ closes \in Nat /\ failures \in Nat
  /\ entry \in Entries
  /\ query \in [Queries -> Asked]
  /\ calls \subseteq HostCalls
  /\ active \in Doc!Sessions \cup {Doc!None} /\ started \in 0..DocumentSessions
  /\ tracker \in [text : SomeText, generation : Nat]
  /\ worker \in [Doc!Sessions -> Stored]
  /\ gone \subseteq Doc!Sessions

(* A call that is to reach a worker has a session. *)
Bound == \A c \in calls : c.stage \in {"held", "sent"} => c.session \in Doc!Sessions

(* What a sync stored has a version. *)
Versioned ==
  /\ \A c \in calls : c.kind = "sync" => c.version # 0
  /\ \A s \in Doc!Sessions : worker[s].origin = "sync" => worker[s].version # 0

-----------------------------------------------------------------------------
(* While the queue has not closed the document there is one text of every     *)
(* version, f[v], and what the parts know of versions and texts fits it.      *)

(* A sync is the one that is under way. *)
SyncFits(f, e, c) ==
  c.kind = "sync" =>
    /\ e.inFlight /\ c.life = 0
    /\ c.version = e.published /\ c.version # 0 /\ c.text = f[c.version]

(* A query goes to the host with its own text, or with a version that is not  *)
(* older than the one it was made of.                                         *)
CallFits(e, Q, c) ==
  c.kind = "query" =>
    /\ c.query \in Queries /\ Q[c.query] # Doc!NoQuery
    /\ c.version <= e.version
    /\ IF c.text = Doc!NoText THEN c.version >= Q[c.query].version
       ELSE c.text = Q[c.query].of

QueryFits(f, e, r) ==
  r # Doc!NoQuery => r.version \in 1..e.version /\ r.of = f[r.version] /\ r.of \in Doc!Texts

(* Whatever has a version came with a sync that was published. *)
StoreFits(f, e, d) ==
  IF d.version = 0 THEN d.origin # "sync"
  ELSE d.origin = "sync" /\ d.version <= e.published /\ d.text = f[d.version]

(* Texts are numbered in the order they were written. *)
Rises(f, n) ==
  \A i \in 1..n : f[i] \in Doc!Texts /\ \A j \in 1..n : i <= j => f[i] <= f[j]

Numbered(f, t, e) ==
  /\ Rises(f, e.version)
  /\ e.version # 0 => f[e.version] = e.text /\ e.text \in Doc!Texts
  /\ e.published <= e.version /\ e.text <= t
  /\ e.version = 0 => e = Doc!NoEntry

Fit(f, t, e, C, w, Q) ==
  /\ Numbered(f, t, e)
  /\ \A c \in C : SyncFits(f, e, c) /\ CallFits(e, Q, c)
  /\ \A c, d \in C : c.kind = "sync" /\ d.kind = "sync" => c = d
  /\ \A s \in Doc!Sessions : StoreFits(f, e, w[s])
  /\ \A q \in Queries : QueryFits(f, e, Q[q])

Open == closes = 0 => \E f : Fit(f, text, entry, calls, worker, query)

DocInv == DocTyped /\ Bound /\ Versioned /\ Open /\ Doc!VersionsProtect

-----------------------------------------------------------------------------
(* Lemmas about Fit: what may change without disturbing it. *)

(* What else the queue keeps of a document does not matter. *)
LEMMA FitOfEntry ==
  ASSUME NEW f, NEW t, NEW e \in Entries, NEW C, NEW w, NEW Q, Fit(f, t, e, C, w, Q),
         NEW d \in Entries, d.version # 0,
         d.text = e.text, d.version = e.version, d.published = e.published,
         d.inFlight = e.inFlight
  PROVE  Fit(f, t, d, C, w, Q)
BY DEF Fit, Numbered, SyncFits, CallFits, StoreFits, QueryFits

(* A call goes on as the same call. *)
SameCall(c, d) ==
  /\ d.kind = c.kind /\ d.version = c.version /\ d.text = c.text
  /\ d.query = c.query /\ d.life = c.life

LEMMA FitOfCall ==
  ASSUME NEW f, NEW t, NEW e, NEW C, NEW w, NEW Q, Fit(f, t, e, C, w, Q),
         NEW c \in C, NEW d, SameCall(c, d)
  PROVE  Fit(f, t, e, (C \ {c}) \cup {d}, w, Q)
BY DEF Fit, SyncFits, CallFits, SameCall

(* A call is over, or one comes that is neither a sync nor a query. *)
LEMMA FitOfFewer ==
  ASSUME NEW f, NEW t, NEW e, NEW C, NEW w, NEW Q, Fit(f, t, e, C, w, Q),
         NEW D, \A d \in D : d \in C \/ d.kind \notin {"sync", "query"}
  PROVE  Fit(f, t, e, D, w, Q)
BY DEF Fit, SyncFits, CallFits

(* A worker's document changes. *)
LEMMA FitOfStore ==
  ASSUME NEW f, NEW t, NEW e, NEW C, NEW w \in [Doc!Sessions -> Stored], NEW Q,
         Fit(f, t, e, C, w, Q), NEW s \in Doc!Sessions, NEW d, StoreFits(f, e, d)
  PROVE  Fit(f, t, e, C, [w EXCEPT ![s] = d], Q)
BY DEF Fit

(* A query goes on, and keeps what it was made of. *)
LEMMA FitOfQueries ==
  ASSUME NEW f, NEW t, NEW e, NEW C, NEW w, NEW Q \in [Queries -> Asked],
         Fit(f, t, e, C, w, Q), NEW R \in [Queries -> Asked],
         \A q \in Queries : /\ R[q].version = Q[q].version /\ R[q].of = Q[q].of
                            /\ R[q] = Doc!NoQuery <=> Q[q] = Doc!NoQuery
  PROVE  Fit(f, t, e, C, w, R)
BY DEF Fit, CallFits, QueryFits

(* Calls of queries that fit are made. *)
LEMMA FitOfMore ==
  ASSUME NEW f, NEW t, NEW e, NEW C, NEW w, NEW Q, Fit(f, t, e, C, w, Q),
         NEW D, \A d \in D : d.kind = "query" /\ CallFits(e, Q, d)
  PROVE  Fit(f, t, e, C \cup D, w, Q)
BY DEF Fit, SyncFits

(* A sync is over: there is none. *)
LEMMA FitOfSettled ==
  ASSUME NEW f, NEW t, NEW e \in Entries, NEW C, NEW w, NEW Q, Fit(f, t, e, C, w, Q),
         NEW c \in C, c.kind = "sync",
         NEW d \in Entries, d.version # 0,
         d.text = e.text, d.version = e.version, d.published = e.published
  PROVE  Fit(f, t, d, C \ {c}, w, Q)
<1>1. \A b \in C \ {c} : b.kind # "sync"
  BY DEF Fit
<1>. QED  BY <1>1 DEF Fit, Numbered, SyncFits, CallFits, StoreFits, QueryFits

(* A version is published: the sync that goes is the only one. *)
LEMMA FitOfPublished ==
  ASSUME NEW f, NEW t, NEW e \in Entries, NEW C, NEW w \in [Doc!Sessions -> Stored], NEW Q,
         Fit(f, t, e, C, w, Q), e.version # 0, closes = 0
  PROVE  Fit(f, t, Doc!Published(e), C \cup Doc!SyncOf(e), w, Q)
<1>1. CASE ~Doc!MayPublish(e)
  BY <1>1 DEF Doc!Published, Doc!SyncOf
<1>2. CASE Doc!MayPublish(e)
  <2> DEFINE d == [e EXCEPT !.inFlight = TRUE, !.published = e.version]
             c == [Doc!NewCall EXCEPT !.kind = "sync", !.version = e.version,
                                      !.text = e.text, !.life = closes]
  <2>1. /\ d.text = e.text /\ d.version = e.version /\ d.published = e.version /\ d.inFlight
    BY DEF Entries
  <2>2. c.kind = "sync" /\ c.version = e.version /\ c.text = e.text /\ c.life = 0
    BY DEF Doc!NewCall
  <2>3. \A b \in C : b.kind # "sync"
    BY <1>2 DEF Fit, SyncFits, Doc!MayPublish
  <2>4. Doc!Published(e) = d /\ Doc!SyncOf(e) = {c}
    BY <1>2 DEF Doc!Published, Doc!SyncOf
  <2> HIDE DEF d, c
  <2>5. Numbered(f, t, d)
    BY <2>1 DEF Fit, Numbered, Entries
  <2>6. \A b \in C \cup {c} : SyncFits(f, d, b) /\ CallFits(d, Q, b)
    <3>1. SyncFits(f, d, c) /\ CallFits(d, Q, c)
      BY <2>1, <2>2 DEF SyncFits, CallFits, Fit, Numbered
    <3>2. \A b \in C : SyncFits(f, d, b) /\ CallFits(d, Q, b)
      BY <2>1, <2>3 DEF Fit, SyncFits, CallFits
    <3>. QED  BY <3>1, <3>2
  <2>7. \A s \in Doc!Sessions : StoreFits(f, d, w[s])
    <3> SUFFICES ASSUME NEW s \in Doc!Sessions PROVE StoreFits(f, d, w[s])
      OBVIOUS
    <3>1. StoreFits(f, e, w[s]) /\ e.published < e.version
      BY <1>2 DEF Fit, Doc!MayPublish, Entries
    <3>2. w[s].version \in Nat
      BY DEF Stored
    <3>. QED  BY <2>1, <3>1, <3>2 DEF StoreFits, Entries
  <2>8. \A q \in Queries : QueryFits(f, d, Q[q])
    BY <2>1 DEF Fit, QueryFits
  <2>. QED  BY <2>3, <2>2, <2>4, <2>5, <2>6, <2>7, <2>8 DEF Fit
<1>. QED  BY <1>1, <1>2

(* A snapshot is taken: a new version gets the text the editor shows. *)
LEMMA FitOfSnapshot ==
  ASSUME DocumentAssumption, DocTyped, NEW f, NEW Q, Fit(f, text, entry, calls, worker, Q),
         NEW t \in Doc!Texts, text <= t, NEW fresh \in BOOLEAN
  PROVE  /\ Doc!Snapshot(t, fresh).version # 0
         /\ \E g : Fit(g, t, Doc!Snapshot(t, fresh), calls, worker, Q)
<1> DEFINE e == Doc!Snapshot(t, fresh)
           n == entry.version + 1
           g == [i \in Nat |-> IF i = n THEN t ELSE f[i]]
<1>0. /\ entry \in Entries /\ entry.version \in Nat /\ entry.published \in Nat
      /\ n \in Nat /\ entry.published <= entry.version
      /\ text \in Int /\ t \in Int /\ entry.text \in Int
  BY DEF DocTyped, Entries, Fit, Numbered, SomeText, Doc!Texts, Doc!NoText, DocumentAssumption
<1>1. CASE e = entry /\ entry # Doc!NoEntry
  <2>1. Fit(f, t, entry, calls, worker, Q)
    BY <1>0, <1>1 DEF Fit, Numbered
  <2>. QED  BY <1>1, <2>1 DEF Fit, Numbered
<1>2. CASE e # entry \/ entry = Doc!NoEntry
  <2>1. /\ e.version = n /\ e.text = t /\ e.published = entry.published
        /\ e.inFlight = entry.inFlight
    <3>1. CASE entry = Doc!NoEntry
      <4>1. e = [Doc!NoEntry EXCEPT !.text = t, !.version = 1, !.timer = TRUE]
        BY <3>1 DEF Doc!Snapshot
      <4>2. n = 1 /\ entry.published = 0 /\ entry.inFlight = FALSE
        BY <3>1 DEF Doc!NoEntry
      <4>. QED  BY <4>1, <4>2 DEF Doc!NoEntry
    <3>2. CASE entry # Doc!NoEntry
      <4>1. e = [entry EXCEPT !.text = t, !.version = n, !.timer = TRUE]
        BY <1>2, <3>2 DEF Doc!Snapshot
      <4>. QED  BY <1>0, <4>1 DEF Entries
    <3>. QED  BY <3>1, <3>2
  <2> HIDE DEF e
  <2>2. g[n] = t /\ \A i \in 1..entry.version : g[i] = f[i]
    BY <1>0
  <2> HIDE DEF g
  <2>3. Numbered(g, t, e)
    <3>1. Rises(g, n)
      <4>0. ASSUME NEW i \in 1..n PROVE g[i] \in Doc!Texts
        <5>1. i = n \/ i \in 1..entry.version
          BY <1>0
        <5>. QED  BY <2>2, <5>1 DEF Fit, Numbered, Rises
      <4> SUFFICES ASSUME NEW i \in 1..n, NEW j \in 1..n, i <= j PROVE g[i] <= g[j]
        BY <4>0 DEF Rises
      <4>1. CASE j # n
        <5>1. i \in 1..entry.version /\ j \in 1..entry.version
          BY <1>0, <4>1
        <5>. QED  BY <2>2, <5>1 DEF Fit, Numbered, Rises
      <4>2. CASE j = n /\ i # n
        <5>1. i \in 1..entry.version /\ entry.version \in 1..entry.version /\ i <= entry.version
          BY <1>0, <4>2
        <5>2. f[i] <= entry.text /\ entry.text <= t
          <6>1. f[i] <= f[entry.version] /\ f[entry.version] = entry.text
            BY <5>1 DEF Fit, Numbered, Rises
          <6>2. entry.text <= text
            BY DEF Fit, Numbered
          <6>. QED  BY <1>0, <6>1, <6>2
        <5>3. f[i] <= t
          <6>1. f[i] \in Int
            BY <5>1 DEF Fit, Numbered, Rises, Doc!Texts
          <6>. QED  BY <1>0, <5>2, <6>1
        <5>. QED  BY <2>2, <4>2, <5>1, <5>3
      <4>3. CASE j = n /\ i = n
        BY <1>0, <2>2, <4>3
      <4>. QED  BY <4>1, <4>2, <4>3
    <3>. QED  BY <1>0, <2>1, <2>2, <3>1 DEF Numbered
  <2>4. \A c \in calls : SyncFits(g, e, c) /\ CallFits(e, Q, c)
    <3> SUFFICES ASSUME NEW c \in calls PROVE SyncFits(g, e, c) /\ CallFits(e, Q, c)
      OBVIOUS
    <3>1. SyncFits(f, entry, c) /\ CallFits(entry, Q, c)
      BY DEF Fit
    <3>2. c.version \in Nat
      BY DEF DocTyped, HostCalls
    <3>3. SyncFits(g, e, c)
      BY <1>0, <2>1, <2>2, <3>1, <3>2 DEF SyncFits
    <3>4. CallFits(e, Q, c)
      BY <1>0, <2>1, <3>1, <3>2 DEF CallFits
    <3>. QED  BY <3>3, <3>4
  <2>5. \A s \in Doc!Sessions : StoreFits(g, e, worker[s])
    <3> SUFFICES ASSUME NEW s \in Doc!Sessions PROVE StoreFits(g, e, worker[s])
      OBVIOUS
    <3>1. StoreFits(f, entry, worker[s]) /\ worker[s].version \in Nat
      BY DEF Fit, DocTyped, Stored
    <3>. QED  BY <1>0, <2>1, <2>2, <3>1 DEF StoreFits
  <2>6. \A q \in Queries : QueryFits(g, e, Q[q])
    <3> SUFFICES ASSUME NEW q \in Queries, Q[q] # Doc!NoQuery
                 PROVE  Q[q].version \in 1..n /\ Q[q].of = g[Q[q].version] /\ Q[q].of \in Doc!Texts
      BY <2>1 DEF QueryFits
    <3>1. Q[q].version \in 1..entry.version /\ Q[q].of = f[Q[q].version] /\ Q[q].of \in Doc!Texts
      BY DEF Fit, QueryFits
    <3>. QED  BY <1>0, <2>2, <3>1
  <2>7. Fit(g, t, e, calls, worker, Q)
    BY <2>3, <2>4, <2>5, <2>6 DEF Fit
  <2>. QED  BY <1>0, <2>1, <2>7 DEF e
<1>. QED  BY <1>1, <1>2

-----------------------------------------------------------------------------
(* Types. *)

LEMMA EntryTyped ==
  ASSUME NEW e \in Entries, NEW t \in SomeText, NEW n \in Nat
  PROVE  [e EXCEPT !.text = t, !.version = n, !.timer = TRUE] \in Entries
BY DEF Entries

LEMMA SnapshotsTyped ==
  ASSUME DocTyped, NEW t \in Doc!Texts, NEW fresh \in BOOLEAN
  PROVE  Doc!Snapshot(t, fresh) \in Entries
<1>1. t \in SomeText /\ entry \in Entries /\ entry.version + 1 \in Nat
  BY DEF SomeText, DocTyped, Entries
<1>2. Doc!NoEntry \in Entries
  BY DEF Doc!NoEntry, Entries, SomeText
<1>3. \/ Doc!Snapshot(t, fresh) = [Doc!NoEntry EXCEPT !.text = t, !.version = 1, !.timer = TRUE]
      \/ Doc!Snapshot(t, fresh) = [entry EXCEPT !.text = t, !.version = entry.version + 1,
                                                !.timer = TRUE]
      \/ Doc!Snapshot(t, fresh) = entry
  BY DEF Doc!Snapshot
<1>4. [Doc!NoEntry EXCEPT !.text = t, !.version = 1, !.timer = TRUE] \in Entries
  BY <1>1, <1>2, EntryTyped
<1>5. [entry EXCEPT !.text = t, !.version = entry.version + 1, !.timer = TRUE] \in Entries
  BY <1>1, EntryTyped
<1>. QED  BY <1>1, <1>3, <1>4, <1>5

LEMMA PublishedTyped ==
  ASSUME NEW e \in Entries, closes \in Nat
  PROVE  /\ Doc!Published(e) \in Entries
         /\ Doc!SyncOf(e) \subseteq HostCalls
         /\ \A c \in Doc!SyncOf(e) : c.stage = "new"
<1>1. Doc!Published(e) \in Entries
  BY DEF Doc!Published, Entries
<1>2. Doc!SyncOf(e) \subseteq HostCalls /\ \A c \in Doc!SyncOf(e) : c.stage = "new"
  <2> DEFINE c == [Doc!NewCall EXCEPT !.kind = "sync", !.version = e.version,
                                      !.text = e.text, !.life = closes]
  <2>1. c \in HostCalls /\ c.stage = "new"
    BY DEF Entries, Doc!NewCall, HostCalls, SomeText
  <2>2. Doc!SyncOf(e) \subseteq {c}
    BY DEF Doc!SyncOf
  <2>. QED  BY <2>1, <2>2
<1>. QED  BY <1>1, <1>2

(* The call of a query, with the version its promise resolved to. *)
LEMMA QueryCallTyped ==
  ASSUME NEW q \in Queries, NEW r \in Asked, NEW v \in Nat
  PROVE  /\ Doc!QueryCall(q, r, v) \in HostCalls
         /\ Doc!QueryCall(q, r, v).stage = "new" /\ Doc!QueryCall(q, r, v).kind = "query"
         /\ Doc!QueryCall(q, r, v).query = q /\ Doc!QueryCall(q, r, v).version = v
         /\ Doc!QueryCall(q, r, v).text = IF v = 0 \/ r.inline THEN r.of ELSE Doc!NoText
<1> DEFINE t == IF v = 0 \/ r.inline THEN r.of ELSE Doc!NoText
<1>1. t \in SomeText
  BY DEF Asked, SomeText
<1> HIDE DEF t
<1>2. Doc!QueryCall(q, r, v) = [Doc!NewCall EXCEPT !.kind = "query", !.query = q,
                                                   !.version = v, !.text = t]
  BY DEF Doc!QueryCall, t
<1>3. ASSUME NEW c, c = [Doc!NewCall EXCEPT !.kind = "query", !.query = q,
                                           !.version = v, !.text = t]
      PROVE  /\ c \in HostCalls /\ c.stage = "new" /\ c.kind = "query"
             /\ c.query = q /\ c.version = v /\ c.text = t
  BY <1>1, <1>3 DEF Doc!NewCall, HostCalls
<1>. QED  BY <1>2, <1>3 DEF t

LEMMA ResolvedTyped ==
  ASSUME DocTyped, NEW n \in Nat, NEW v \in Nat
  PROVE  /\ Doc!Resolved(Doc!Waiting(n), v) \subseteq HostCalls
         /\ \A c \in Doc!Resolved(Doc!Waiting(n), v) : c.stage = "new" /\ c.kind = "query"
BY QueryCallTyped DEF DocTyped, Doc!Resolved, Doc!Waiting

LEMMA ResolveTyped ==
  ASSUME DocTyped, NEW n, NEW v, Doc!Resolve(Doc!Waiting(n), v)
  PROVE  query' \in [Queries -> Asked]
<1>1. \A q \in Queries : [query[q] EXCEPT !.stage = "asked"] \in Asked
  BY DEF DocTyped, Asked
<1>. QED  BY <1>1 DEF DocTyped, Doc!Resolve

(* New calls and calls that are over leave the calls as they should be. *)
LEMMA CallsTyped ==
  ASSUME DocTyped, Bound, NEW D, D \subseteq HostCalls, \A d \in D : d.stage = "new",
         calls' \subseteq calls \cup D
  PROVE  calls' \subseteq HostCalls /\ Bound'
BY DEF DocTyped, Bound

(* A call that goes on does, if it has its session. *)
LEMMA BecomeTyped ==
  ASSUME DocTyped, Bound, NEW c \in calls, NEW d \in HostCalls,
         d.stage \in {"held", "sent"} => d.session \in Doc!Sessions, Doc!Become(c, d)
  PROVE  calls' \subseteq HostCalls /\ Bound'
BY DEF DocTyped, Bound, Doc!Become

LEMMA AnswersTyped ==
  ASSUME DocTyped, Bound, NEW c \in calls, NEW answer \in {"ok", "error"}, Doc!Answers(c, answer)
  PROVE  calls' \subseteq HostCalls /\ Bound'
<1>1. [c EXCEPT !.stage = "answered", !.answer = answer] \in HostCalls
  BY DEF DocTyped, HostCalls
<1>2. [c EXCEPT !.stage = "answered", !.answer = answer].stage = "answered"
  BY DEF DocTyped, HostCalls
<1>. QED  BY <1>1, <1>2, BecomeTyped DEF Doc!Answers

(* A call gets its session. *)
LEMMA HasTyped ==
  ASSUME DocTyped, Bound, NEW c \in calls, NEW s \in Doc!Sessions, Doc!Has(c, s)
  PROVE  calls' \subseteq HostCalls /\ Bound'
<1> DEFINE d == [c EXCEPT !.stage = IF c.text = Doc!NoText THEN "sent" ELSE "held",
                          !.session = s]
<1>1. d \in HostCalls /\ d.session = s
  BY DEF DocTyped, HostCalls
<1>2. Doc!Become(c, d)
  BY DEF Doc!Has
<1> HIDE DEF d
<1>. QED  BY <1>1, <1>2, BecomeTyped

LEMMA DiscardsTyped ==
  ASSUME DocTyped, NEW c, Doc!Discards(c)
  PROVE  active' \in Doc!Sessions \cup {Doc!None}
BY DEF DocTyped, Doc!Discards

(* What a worker makes of a call is a document. *)
LEMMA StoresTyped ==
  ASSUME DocumentAssumption, NEW c \in HostCalls, NEW d \in Stored
  PROVE  Doc!Synced(c, d) \in Stored /\ Doc!FromDisk(d) \in Stored /\ Doc!Loaded(c, d) \in Stored
<1>1. 0 \in SomeText
  BY DEF SomeText, Doc!Texts, DocumentAssumption
<1>2. Doc!FromDisk(d) \in Stored
  BY <1>1 DEF Doc!FromDisk, Stored
<1>3. Doc!Synced(c, d) \in Stored
  BY DEF Doc!Synced, Stored, HostCalls
<1>4. Doc!Loaded(c, d) \in Stored
  BY <1>2 DEF Doc!Loaded, Stored, HostCalls
<1>. QED  BY <1>2, <1>3, <1>4

LEMMA EditorTyped ==
  ASSUME DocumentAssumption, DocTyped, Bound,
         \/ Doc!Type \/ Doc!Change \/ Doc!Timer \/ Doc!WarmTimer \/ Doc!Close
         \/ \E q \in Queries : Doc!Query(q)
  PROVE  DocTyped' /\ Bound'
<1>0. text < MaxEdits => text + 1 \in Doc!Texts
  BY DEF DocumentAssumption, DocTyped, Doc!Texts
<1>1. CASE Doc!Type
  BY <1>0, <1>1 DEF Doc!Type, Doc!host, Doc!workers, DocTyped, Bound
<1>2. CASE Doc!Change
  <2>1. entry' \in Entries
    BY <1>0, <1>2, SnapshotsTyped DEF Doc!Change
  <2>. QED  BY <1>0, <1>2, <2>1 DEF Doc!Change, Doc!host, Doc!workers, DocTyped, Bound
<1>3. CASE Doc!Timer
  <2> DEFINE e == [entry EXCEPT !.timer = FALSE]
  <2>1. e \in Entries
    BY DEF DocTyped, Entries
  <2> HIDE DEF e
  <2>2. entry' \in Entries
    BY <1>3, <2>1, PublishedTyped DEF Doc!Timer, e, DocTyped
  <2>3. calls' \subseteq HostCalls /\ Bound'
    <3>1. Doc!SyncOf(entry) \subseteq HostCalls /\ \A c \in Doc!SyncOf(entry) : c.stage = "new"
      BY PublishedTyped DEF DocTyped
    <3>2. calls' = calls \cup Doc!SyncOf(entry)
      BY <1>3 DEF Doc!Timer
    <3>. QED  BY <3>1, <3>2, CallsTyped
  <2>. QED  BY <1>3, <2>2, <2>3 DEF Doc!Timer, Doc!host, Doc!workers, DocTyped
<1>4. CASE Doc!WarmTimer
  <2> DEFINE c == [Doc!NewCall EXCEPT !.kind = "prepare", !.version = entry.warm, !.life = closes]
  <2>1. c \in HostCalls /\ c.stage = "new"
    BY DEF DocTyped, Entries, Doc!NewCall, HostCalls, SomeText
  <2>2. calls' \subseteq calls \cup {c}
    BY <1>4 DEF Doc!WarmTimer
  <2> HIDE DEF c
  <2>3. calls' \subseteq HostCalls /\ Bound'
    <3> DEFINE D == {c}
    <3>1. D \subseteq HostCalls /\ \A d \in D : d.stage = "new"
      BY <2>1
    <3>2. calls' \subseteq calls \cup D
      BY <2>2
    <3> HIDE DEF D
    <3>. QED  BY <3>1, <3>2, CallsTyped
  <2>4. entry' \in Entries
    BY <1>4 DEF Doc!WarmTimer, DocTyped, Entries
  <2>. QED  BY <1>4, <2>3, <2>4 DEF Doc!WarmTimer, Doc!host, Doc!workers, DocTyped
<1>5. CASE Doc!Close
  <2> DEFINE c == [Doc!NewCall EXCEPT !.kind = "close", !.life = closes]
             R == Doc!Resolved(Doc!Waiting(entry.version), 0)
  <2>1. c \in HostCalls /\ c.stage = "new"
    BY DEF DocTyped, Doc!NewCall, HostCalls, SomeText
  <2>2. calls' = calls \cup R \cup {c} /\ Doc!Resolve(Doc!Waiting(entry.version), 0)
    BY <1>5 DEF Doc!Close
  <2> HIDE DEF c
  <2>3. entry.version \in Nat
    BY DEF DocTyped, Entries
  <2>4. R \subseteq HostCalls /\ \A d \in R : d.stage = "new"
    BY <2>3, ResolvedTyped
  <2>5. query' \in [Queries -> Asked]
    BY <2>2, ResolveTyped
  <2> HIDE DEF R
  <2>6. calls' \subseteq HostCalls /\ Bound'
    <3> DEFINE D == R \cup {c}
    <3>1. D \subseteq HostCalls /\ \A d \in D : d.stage = "new"
      BY <2>1, <2>4
    <3>2. calls' \subseteq calls \cup D
      BY <2>2 DEF R
    <3> HIDE DEF D
    <3>. QED  BY <3>1, <3>2, CallsTyped
  <2>7. entry' \in Entries /\ closes' \in Nat
    BY <1>5 DEF Doc!Close, DocTyped, Entries, Doc!NoEntry, SomeText
  <2>. QED  BY <1>5, <2>5, <2>6, <2>7 DEF Doc!Close, Doc!host, Doc!workers, DocTyped
<1>6. ASSUME NEW q \in Queries, Doc!Query(q) PROVE DocTyped' /\ Bound'
  <2>1. PICK fresh \in BOOLEAN, inline \in BOOLEAN :
          Doc!EnsureReady(q, fresh, inline) \/ Doc!EnsureWaits(q, fresh, inline)
    BY <1>6 DEF Doc!Query
  <2> DEFINE e == Doc!Snapshot(text, fresh)
  <2>2. e \in Entries
    BY SnapshotsTyped DEF DocTyped
  <2>3. query' \in [Queries -> Asked]
    <3>1. PICK stage \in {"asked", "waiting"} : Doc!Makes(q, fresh, inline, stage)
      BY <2>1 DEF Doc!EnsureReady, Doc!EnsureWaits
    <3> DEFINE r == [Doc!NoQuery EXCEPT !.stage = stage, !.version = e.version,
                         !.of = text, !.inline = inline, !.life = closes]
    <3> HIDE DEF e
    <3>2. r \in Asked
      BY <2>2 DEF DocTyped, Doc!NoQuery, Asked, SomeText, Entries
    <3>3. query' = [query EXCEPT ![q] = r]
      BY <3>1 DEF Doc!Makes, e
    <3>. QED  BY <3>2, <3>3 DEF DocTyped
  <2>4. UNCHANGED <<text, closes, active, started, tracker, worker, gone, failures>>
    BY <2>1 DEF Doc!EnsureReady, Doc!EnsureWaits, Doc!Makes, Doc!host, Doc!workers
  <2>5. entry' \in Entries /\ calls' \subseteq HostCalls /\ Bound'
    <3>1. CASE Doc!EnsureReady(q, fresh, inline)
      <4>1. e.version \in Nat /\ query'[q] \in Asked
        BY <2>2, <2>3 DEF Entries
      <4>2. Doc!QueryCall(q, query'[q], e.version) \in HostCalls
            /\ Doc!QueryCall(q, query'[q], e.version).stage = "new"
        BY <4>1, QueryCallTyped
      <4>3. entry' = e /\ calls' = calls \cup {Doc!QueryCall(q, query'[q], e.version)}
        BY <3>1 DEF Doc!EnsureReady
      <4> DEFINE D == {Doc!QueryCall(q, query'[q], e.version)}
      <4>4. D \subseteq HostCalls /\ \A d \in D : d.stage = "new"
        BY <4>2
      <4>5. calls' \subseteq calls \cup D
        BY <4>3
      <4> HIDE DEF e, D
      <4>. QED  BY <2>2, <4>3, <4>4, <4>5, CallsTyped
    <3>2. CASE Doc!EnsureWaits(q, fresh, inline)
      <4>1. [e EXCEPT !.timer = FALSE] \in Entries
        BY <2>2 DEF Entries
      <4>2. /\ entry' = IF e.inFlight THEN e ELSE Doc!Published([e EXCEPT !.timer = FALSE])
            /\ calls' = calls \cup Doc!SyncOf(e)
        BY <3>2 DEF Doc!EnsureWaits
      <4> HIDE DEF e
      <4>3. entry' \in Entries
        BY <2>2, <4>1, <4>2, PublishedTyped DEF DocTyped
      <4>4. Doc!SyncOf(e) \subseteq HostCalls /\ \A c \in Doc!SyncOf(e) : c.stage = "new"
        BY <2>2, PublishedTyped DEF DocTyped
      <4>. QED  BY <4>2, <4>3, <4>4, CallsTyped
    <3>. QED  BY <2>1, <3>1, <3>2
  <2>. QED  BY <2>3, <2>4, <2>5 DEF DocTyped
<1>. QED  BY <1>1, <1>2, <1>3, <1>4, <1>5, <1>6

LEMMA TakeTyped ==
  ASSUME DocumentAssumption, DocTyped, Bound, NEW c \in calls, Doc!Take(c)
  PROVE  DocTyped' /\ Bound'
<1>0. c \in HostCalls
  BY DEF DocTyped
<1>1. CASE Doc!Acquire(c)
  <2>1. active \in Doc!Sessions /\ Doc!Has(c, active)
    BY <1>1 DEF Doc!Acquire, DocTyped
  <2>2. calls' \subseteq HostCalls /\ Bound'
    BY <2>1, HasTyped
  <2>. QED  BY <1>1, <2>2 DEF Doc!Acquire, Doc!editor, Doc!host, Doc!workers, DocTyped
<1>2. CASE Doc!StartSession(c)
  <2>1. started' \in Doc!Sessions /\ started' \in 0..DocumentSessions /\ Doc!Has(c, started')
        /\ active' = started'
    BY <1>2 DEF Doc!StartSession, DocTyped, DocumentAssumption, Doc!Sessions
  <2>2. calls' \subseteq HostCalls /\ Bound'
    <3> DEFINE s == started'
    <3>1. s \in Doc!Sessions /\ Doc!Has(c, s)
      BY <2>1
    <3> HIDE DEF s
    <3>. QED  BY <3>1, HasTyped
  <2>3. worker' \in [Doc!Sessions -> Stored]
    <3> DEFINE d == IF tracker = Doc!Untracked THEN Doc!NoDocument
                    ELSE [text |-> tracker.text, generation |-> tracker.generation,
                          version |-> 0, origin |-> "replay"]
    <3>1. d \in Stored
      BY DEF DocTyped, Stored, Doc!NoDocument, SomeText
    <3>2. worker' = [worker EXCEPT ![started'] = d]
      BY <1>2 DEF Doc!StartSession
    <3>. QED  BY <3>1, <3>2 DEF DocTyped
  <2>. QED  BY <1>2, <2>1, <2>2, <2>3 DEF Doc!StartSession, Doc!editor, DocTyped
<1>3. CASE Doc!Refuse(c)
  <2>1. calls' \subseteq HostCalls /\ Bound'
    BY <1>3, AnswersTyped DEF Doc!Refuse
  <2>2. failures' \in Nat
    BY <1>3 DEF Doc!Refuse, DocTyped
  <2>. QED  BY <1>3, <2>1, <2>2 DEF Doc!Refuse, Doc!editor, Doc!host, DocTyped
<1>4. CASE Doc!Register(c)
  <2>1. tracker' \in [text : SomeText, generation : Nat]
    BY <1>0, <1>4 DEF Doc!Register, DocTyped, HostCalls
  <2>2. calls' \subseteq HostCalls /\ Bound'
    <3> DEFINE g == IF c.kind = "query" THEN tracker'.generation ELSE 0
               d == [c EXCEPT !.stage = "sent", !.generation = g]
    <3>1. g \in Nat
      BY <2>1
    <3>2. Doc!Become(c, d)
      BY <1>4 DEF Doc!Register
    <3> HIDE DEF g
    <3>3. d \in HostCalls /\ d.session \in Doc!Sessions
      BY <1>0, <1>4, <3>1 DEF HostCalls, Bound, Doc!Register
    <3>. QED  BY <3>2, <3>3, BecomeTyped
  <2>. QED  BY <1>4, <2>1, <2>2 DEF Doc!Register, Doc!editor, Doc!workers, DocTyped
<1>. QED  BY <1>1, <1>2, <1>3, <1>4 DEF Doc!Take

LEMMA ServeTyped ==
  ASSUME DocumentAssumption, DocTyped, Bound, Versioned, NEW c \in calls, Doc!Serve(c)
  PROVE  DocTyped' /\ Bound'
<1>0. c \in HostCalls
  BY DEF DocTyped
<1>1. ASSUME NEW d \in Stored, Doc!Serves(c, d)
      PROVE  worker' \in [Doc!Sessions -> Stored]
  BY <1>1 DEF Doc!Serves, DocTyped
<1>2. c.stage = "sent" => worker[c.session] \in Stored
  BY DEF Bound, DocTyped
<1>3. CASE Doc!WorkerSync(c)
  <2> DEFINE d == worker[c.session]
             stale == Doc!SyncIsStale(c, d)
  <2>1. Doc!Serves(c, IF stale THEN d ELSE Doc!Synced(c, d))
        /\ Doc!Answers(c, IF stale THEN "error" ELSE "ok")
    BY <1>3 DEF Doc!WorkerSync
  <2>2. (IF stale THEN d ELSE Doc!Synced(c, d)) \in Stored
    BY <1>0, <1>2, <1>3, StoresTyped DEF Doc!WorkerSync
  <2> HIDE DEF d, stale
  <2>3. worker' \in [Doc!Sessions -> Stored]
    BY <1>1, <2>1, <2>2
  <2>4. calls' \subseteq HostCalls /\ Bound'
    BY <2>1, AnswersTyped
  <2>. QED  BY <1>3, <2>1, <2>3, <2>4 DEF Doc!WorkerSync, Doc!Serves, Doc!host, DocTyped
<1>4. CASE Doc!WorkerLoad(c)
  <2> DEFINE l == Doc!Loaded(c, worker[c.session])
  <2>1. Doc!Serves(c, l) /\ calls' = calls \ {c}
    BY <1>4 DEF Doc!WorkerLoad
  <2>2. l \in Stored
    BY <1>0, <1>2, <1>4, StoresTyped DEF Doc!WorkerLoad
  <2>3. query' \in [Queries -> Asked]
    <3> DEFINE from == IF l.version # 0 THEN "version" ELSE l.origin
    <3>1. query' = query \/ query' = [query EXCEPT ![c.query].stage = "answered",
                                      ![c.query].served = l.text, ![c.query].from = from]
      BY <1>4 DEF Doc!WorkerLoad
    <3>2. CASE query' = query
      BY <3>2 DEF DocTyped
    <3>3. CASE query' = [query EXCEPT ![c.query].stage = "answered",
                                      ![c.query].served = l.text, ![c.query].from = from]
      <4> DEFINE r == [query[c.query] EXCEPT !.stage = "answered", !.served = l.text,
                                             !.from = from]
      <4>1. l.text \in SomeText
        BY <2>2 DEF Stored
      <4>2. l.origin # "sync" \/ l.version # 0
        <5>1. worker[c.session].origin = "sync" => worker[c.session].version # 0
          BY <1>4 DEF Versioned, Bound, Doc!WorkerLoad
        <5>. QED  BY <5>1 DEF Doc!Loaded, Doc!FromDisk
      <4>3. from \in {"none", "version", "replay", "inline", "disk"}
        BY <2>2, <4>2 DEF Stored
      <4> HIDE DEF l, from
      <4>4. c.query \in Queries => r \in Asked
        BY <4>1, <4>3 DEF DocTyped, Asked
      <4> HIDE DEF r
      <4>5. query' = IF c.query \in Queries THEN [query EXCEPT ![c.query] = r] ELSE query
        BY <3>3 DEF DocTyped, r
      <4>. QED  BY <4>4, <4>5 DEF DocTyped
    <3>. QED  BY <3>1, <3>2, <3>3
  <2> HIDE DEF l
  <2>4. worker' \in [Doc!Sessions -> Stored]
    BY <1>1, <2>1, <2>2
  <2>5. calls' \subseteq HostCalls /\ Bound'
    BY <2>1 DEF Bound, DocTyped
  <2>. QED  BY <2>1, <2>3, <2>4, <2>5 DEF Doc!Serves, Doc!host, DocTyped
<1>5. CASE Doc!WorkerRejects(c)
  <2> DEFINE d == worker[c.session]
             l == IF Doc!QueryIsStale(c, d) THEN d ELSE Doc!Loaded(c, d)
  <2>1. Doc!Serves(c, l) /\ Doc!Answers(c, "error")
    BY <1>5 DEF Doc!WorkerRejects
  <2>2. l \in Stored
    BY <1>0, <1>2, <1>5, StoresTyped DEF Doc!WorkerRejects
  <2> HIDE DEF l
  <2>3. worker' \in [Doc!Sessions -> Stored]
    BY <1>1, <2>1, <2>2
  <2>4. calls' \subseteq HostCalls /\ Bound'
    BY <2>1, AnswersTyped
  <2>. QED  BY <1>5, <2>1, <2>3, <2>4 DEF Doc!WorkerRejects, Doc!Serves, Doc!host, DocTyped
<1>6. CASE Doc!WorkerClose(c)
  <2>1. Doc!NoDocument \in Stored
    BY DEF Doc!NoDocument, Stored, SomeText
  <2>2. worker' \in [Doc!Sessions -> Stored]
    BY <1>1, <1>6, <2>1 DEF Doc!WorkerClose
  <2>3. calls' \subseteq HostCalls /\ Bound'
    BY <1>6, AnswersTyped DEF Doc!WorkerClose
  <2>. QED  BY <1>6, <2>2, <2>3 DEF Doc!WorkerClose, Doc!Serves, Doc!host, DocTyped
<1>7. CASE Doc!WorkerGone(c)
  <2>1. calls' \subseteq HostCalls /\ Bound'
    BY <1>7, AnswersTyped DEF Doc!WorkerGone
  <2>. QED  BY <1>7, <2>1 DEF Doc!WorkerGone, Doc!editor, Doc!host, Doc!workers, DocTyped
<1>8. CASE Doc!Lose(c)
  <2>1. calls' \subseteq HostCalls /\ Bound'
    BY <1>8, AnswersTyped DEF Doc!Lose
  <2>2. gone' \subseteq Doc!Sessions
    BY <1>8 DEF Doc!Lose, Bound, DocTyped
  <2>. QED  BY <1>8, <2>1, <2>2 DEF Doc!Lose, Doc!editor, Doc!host, DocTyped
<1>. QED  BY <1>3, <1>4, <1>5, <1>6, <1>7, <1>8 DEF Doc!Serve

(* A sync is over, acknowledged or not. *)
LEMMA SettlesTyped ==
  ASSUME DocTyped, Bound, NEW c \in calls, NEW e \in Entries, NEW v \in Nat,
         Doc!Settles(c, e, v)
  PROVE  DocTyped' /\ Bound'
<1> DEFINE next == [e EXCEPT !.inFlight = FALSE]
           R == Doc!Resolved(Doc!Waiting(c.version), v)
           S == IF next.timer THEN {} ELSE Doc!SyncOf(next)
           D == R \cup S
<1>1. /\ entry' = IF next.timer THEN next ELSE Doc!Published(next)
      /\ Doc!Resolve(Doc!Waiting(c.version), v) /\ Doc!Discards(c)
      /\ calls' = (calls \ {c}) \cup R \cup S
      /\ UNCHANGED <<text, closes, started, tracker, worker, gone, failures>>
  BY DEF Doc!Settles, Doc!workers
<1>2. next \in Entries
  BY DEF Entries
<1>3. c.version \in Nat /\ closes \in Nat
  BY DEF DocTyped, HostCalls
<1> HIDE DEF next
<1>4. entry' \in Entries
  BY <1>1, <1>2, <1>3, PublishedTyped
<1>5. S \subseteq HostCalls /\ \A d \in S : d.stage = "new"
  BY <1>2, <1>3, PublishedTyped
<1>6. R \subseteq HostCalls /\ \A d \in R : d.stage = "new"
  BY <1>3, ResolvedTyped
<1> HIDE DEF R, S
<1>7. D \subseteq HostCalls /\ \A d \in D : d.stage = "new"
  BY <1>5, <1>6
<1>8. calls' \subseteq calls \cup D
  BY <1>1
<1> HIDE DEF D
<1>9. calls' \subseteq HostCalls /\ Bound'
  BY <1>7, <1>8, CallsTyped
<1>10. query' \in [Queries -> Asked] /\ active' \in Doc!Sessions \cup {Doc!None}
  BY <1>1, ResolveTyped, DiscardsTyped
<1>. QED  BY <1>1, <1>4, <1>9, <1>10 DEF DocTyped

LEMMA EndTyped ==
  ASSUME DocumentAssumption, DocTyped, Bound, NEW c \in calls, Doc!End(c)
  PROVE  DocTyped' /\ Bound'
<1>0. c \in HostCalls
  BY DEF DocTyped
<1>1. ASSUME calls' = calls \ {c} PROVE calls' \subseteq HostCalls /\ Bound'
  BY <1>1 DEF DocTyped, Bound
<1>2. CASE Doc!SyncForgotten(c) \/ Doc!PrepareFails(c)
  <2>1. calls' \subseteq HostCalls /\ Bound'
    BY <1>1, <1>2 DEF Doc!SyncForgotten, Doc!PrepareFails
  <2>2. active' \in Doc!Sessions \cup {Doc!None}
    BY <1>2, DiscardsTyped DEF Doc!SyncForgotten, Doc!PrepareFails
  <2>. QED  BY <1>2, <2>1, <2>2 DEF Doc!SyncForgotten, Doc!PrepareFails, Doc!editor,
                                    Doc!workers, DocTyped
<1>3. CASE Doc!SyncReady(c)
  <2> DEFINE e == [entry EXCEPT !.ready = c.version, !.warm = c.version]
  <2>1. e \in Entries /\ c.version \in Nat
    BY <1>0 DEF DocTyped, Entries, HostCalls
  <2>2. Doc!Settles(c, e, c.version)
    BY <1>3 DEF Doc!SyncReady
  <2> HIDE DEF e
  <2>. QED  BY <2>1, <2>2, SettlesTyped
<1>4. CASE Doc!SyncFailed(c)
  <2>1. entry \in Entries /\ Doc!Settles(c, entry, 0)
    BY <1>4 DEF DocTyped, Doc!SyncFailed
  <2>. QED  BY <2>1, SettlesTyped
<1>5. CASE Doc!QueryFails(c)
  <2>1. calls' \subseteq HostCalls /\ Bound'
    BY <1>1, <1>5 DEF Doc!QueryFails
  <2>2. active' \in Doc!Sessions \cup {Doc!None}
    BY <1>5, DiscardsTyped DEF Doc!QueryFails
  <2>3. query' \in [Queries -> Asked]
    <3> DEFINE d == [query[c.query] EXCEPT !.stage = "failed"]
    <3>1. c.query \in Queries => d \in Asked
      BY DEF DocTyped, Asked
    <3>2. query' = IF c.query \in Queries THEN [query EXCEPT ![c.query] = d] ELSE query
      BY <1>5 DEF Doc!QueryFails, DocTyped
    <3> HIDE DEF d
    <3>. QED  BY <3>1, <3>2 DEF DocTyped
  <2>. QED  BY <1>5, <2>1, <2>2, <2>3 DEF Doc!QueryFails, Doc!workers, DocTyped
<1>6. CASE Doc!PrepareAgain(c)
  <2> DEFINE d == [c EXCEPT !.stage = "new", !.session = Doc!None, !.answer = "none",
                            !.retried = TRUE]
  <2>1. d \in HostCalls /\ d.stage = "new"
    BY <1>0 DEF HostCalls
  <2>2. Doc!Become(c, d) /\ Doc!Discards(c)
    BY <1>6 DEF Doc!PrepareAgain
  <2> HIDE DEF d
  <2>3. calls' \subseteq HostCalls /\ Bound'
    BY <2>1, <2>2, BecomeTyped
  <2>4. active' \in Doc!Sessions \cup {Doc!None}
    BY <2>2, DiscardsTyped
  <2>. QED  BY <1>6, <2>3, <2>4 DEF Doc!PrepareAgain, Doc!editor, Doc!workers, DocTyped
<1>7. CASE Doc!CloseEnds(c)
  <2>1. calls' \subseteq HostCalls /\ Bound'
    BY <1>1, <1>7 DEF Doc!CloseEnds
  <2>2. active' \in Doc!Sessions \cup {Doc!None}
    BY <1>7, DiscardsTyped DEF Doc!CloseEnds
  <2>3. tracker' \in [text : SomeText, generation : Nat]
    BY <1>7 DEF Doc!CloseEnds, DocTyped, Doc!Untracked, SomeText
  <2>. QED  BY <1>7, <2>1, <2>2, <2>3 DEF Doc!CloseEnds, Doc!editor, Doc!workers, DocTyped
<1>. QED  BY <1>2, <1>3, <1>4, <1>5, <1>6, <1>7 DEF Doc!End

LEMMA LoadTyped ==
  ASSUME DocumentAssumption, DocTyped, Bound, NEW s \in Doc!Sessions, Doc!LoadDependency(s)
  PROVE  DocTyped' /\ Bound'
<1>1. Doc!FromDisk(worker[s]) \in Stored
  <2>1. 0 \in SomeText /\ worker[s] \in Stored
    BY DEF SomeText, Doc!Texts, DocumentAssumption, DocTyped
  <2>. QED  BY <2>1 DEF Doc!FromDisk, Stored
<1>2. worker' = [worker EXCEPT ![s] = Doc!FromDisk(worker[s])]
  BY DEF Doc!LoadDependency
<1>. QED  BY <1>1, <1>2 DEF Doc!LoadDependency, Doc!editor, Doc!host, DocTyped, Bound

-----------------------------------------------------------------------------
(* What a sync stored has a version, as the sync has. *)

LEMMA PublishedVersioned ==
  ASSUME NEW e \in Entries
  PROVE  \A c \in Doc!SyncOf(e) : c.version # 0
<1> SUFFICES ASSUME Doc!MayPublish(e), NEW c, 
                    c = [Doc!NewCall EXCEPT !.kind = "sync", !.version = e.version,
                                            !.text = e.text, !.life = closes]
             PROVE  c.version # 0
  BY DEF Doc!SyncOf
<1>1. c.version = e.version
  BY DEF Doc!NewCall
<1>. QED  BY <1>1 DEF Doc!MayPublish, Entries

(* Every call of the host was one, or is a new one. *)
Grows ==
  \A d \in calls' : \/ d.kind # "sync" \/ d.version # 0
                    \/ \E c \in calls : SameCall(c, d)

LEMMA BecomeGrows ==
  ASSUME NEW c \in calls, NEW d, SameCall(c, d), Doc!Become(c, d)
  PROVE  Grows
BY DEF Grows, Doc!Become, SameCall

LEMMA AnswersGrow ==
  ASSUME NEW c \in calls, c \in HostCalls, NEW answer, Doc!Answers(c, answer)
  PROVE  Grows
<1>1. SameCall(c, [c EXCEPT !.stage = "answered", !.answer = answer])
  BY DEF HostCalls, SameCall
<1>. QED  BY <1>1, BecomeGrows DEF Doc!Answers

LEMMA TakeGrows ==
  ASSUME DocTyped, NEW c \in calls, Doc!Take(c)
  PROVE  Grows
<1>0. c \in HostCalls
  BY DEF DocTyped
<1>1. ASSUME NEW s, Doc!Has(c, s) PROVE Grows
  <2> DEFINE d == [c EXCEPT !.stage = IF c.text = Doc!NoText THEN "sent" ELSE "held",
                            !.session = s]
  <2>1. SameCall(c, d)
    BY <1>0 DEF HostCalls, SameCall
  <2>2. Doc!Become(c, d)
    BY <1>1 DEF Doc!Has
  <2> HIDE DEF d
  <2>. QED  BY <2>1, <2>2, BecomeGrows
<1>2. CASE Doc!Acquire(c) \/ Doc!StartSession(c)
  BY <1>1, <1>2 DEF Doc!Acquire, Doc!StartSession
<1>3. CASE Doc!Refuse(c)
  BY <1>0, <1>3, AnswersGrow DEF Doc!Refuse
<1>4. CASE Doc!Register(c)
  <2> DEFINE d == [c EXCEPT !.stage = "sent",
                            !.generation = IF c.kind = "query" THEN tracker'.generation ELSE 0]
  <2>1. SameCall(c, d)
    BY <1>0 DEF HostCalls, SameCall
  <2>2. Doc!Become(c, d)
    BY <1>4 DEF Doc!Register
  <2> HIDE DEF d
  <2>. QED  BY <2>1, <2>2, BecomeGrows
<1>. QED  BY <1>2, <1>3, <1>4 DEF Doc!Take

LEMMA ServeGrows ==
  ASSUME DocTyped, NEW c \in calls, Doc!Serve(c)
  PROVE  Grows
<1>0. c \in HostCalls
  BY DEF DocTyped
<1>1. CASE Doc!WorkerLoad(c)
  BY <1>1 DEF Doc!WorkerLoad, Grows, SameCall
<1>2. CASE \E answer : Doc!Answers(c, answer)
  BY <1>0, <1>2, AnswersGrow
<1>. QED  BY <1>1, <1>2 DEF Doc!Serve, Doc!WorkerSync, Doc!WorkerRejects, Doc!WorkerClose,
                            Doc!WorkerGone, Doc!Lose

LEMMA EndGrows ==
  ASSUME DocTyped, NEW c \in calls, Doc!End(c)
  PROVE  Grows
<1>0. c \in HostCalls
  BY DEF DocTyped
<1>1. ASSUME NEW e \in Entries, NEW v \in Nat, Doc!Settles(c, e, v) PROVE Grows
  <2> DEFINE next == [e EXCEPT !.inFlight = FALSE]
             R == Doc!Resolved(Doc!Waiting(c.version), v)
             S == IF next.timer THEN {} ELSE Doc!SyncOf(next)
  <2>1. calls' = (calls \ {c}) \cup R \cup S
    BY <1>1 DEF Doc!Settles
  <2>2. next \in Entries
    BY DEF Entries
  <2> HIDE DEF next
  <2>3. \A d \in S : d.version # 0
    BY <2>2, PublishedVersioned
  <2>4. \A d \in R : d.kind = "query"
    <3>1. c.version \in Nat
      BY <1>0 DEF HostCalls
    <3>. QED  BY <3>1, ResolvedTyped
  <2> HIDE DEF R, S
  <2>. QED  BY <2>1, <2>3, <2>4 DEF Grows, SameCall
<1>2. CASE Doc!SyncReady(c)
  <2> DEFINE e == [entry EXCEPT !.ready = c.version, !.warm = c.version]
  <2>1. e \in Entries /\ c.version \in Nat
    BY <1>0 DEF DocTyped, Entries, HostCalls
  <2>2. Doc!Settles(c, e, c.version)
    BY <1>2 DEF Doc!SyncReady
  <2> HIDE DEF e
  <2>. QED  BY <1>1, <2>1, <2>2
<1>3. CASE Doc!SyncFailed(c)
  <2>1. entry \in Entries /\ Doc!Settles(c, entry, 0)
    BY <1>3 DEF DocTyped, Doc!SyncFailed
  <2>. QED  BY <1>1, <2>1
<1>4. CASE Doc!PrepareAgain(c)
  <2> DEFINE d == [c EXCEPT !.stage = "new", !.session = Doc!None, !.answer = "none",
                            !.retried = TRUE]
  <2>1. SameCall(c, d)
    BY <1>0 DEF HostCalls, SameCall
  <2>2. Doc!Become(c, d)
    BY <1>4 DEF Doc!PrepareAgain
  <2> HIDE DEF d
  <2>. QED  BY <2>1, <2>2, BecomeGrows
<1>5. CASE calls' = calls \ {c}
  BY <1>5 DEF Grows, SameCall
<1>. QED  BY <1>2, <1>3, <1>4, <1>5 DEF Doc!End, Doc!SyncForgotten, Doc!QueryFails,
                                        Doc!PrepareFails, Doc!CloseEnds

LEMMA EditorGrows ==
  ASSUME DocTyped,
         \/ Doc!Type \/ Doc!Change \/ Doc!Timer \/ Doc!WarmTimer \/ Doc!Close
         \/ \E q \in Queries : Doc!Query(q)
  PROVE  Grows /\ worker' = worker
<1>0. entry \in Entries /\ entry.version \in Nat /\ text \in Doc!Texts
  BY DEF DocTyped, Entries
<1>1. CASE Doc!Type \/ Doc!Change
  BY <1>1 DEF Doc!Type, Doc!Change, Grows, SameCall, Doc!host, Doc!workers
<1>2. CASE Doc!Timer
  <2>1. \A c \in Doc!SyncOf(entry) : c.version # 0
    BY <1>0, PublishedVersioned
  <2>. QED  BY <1>2, <2>1 DEF Doc!Timer, Grows, SameCall, Doc!workers
<1>3. CASE Doc!WarmTimer
  <2> DEFINE c == [Doc!NewCall EXCEPT !.kind = "prepare", !.version = entry.warm, !.life = closes]
  <2>1. c.kind = "prepare"
    BY DEF Doc!NewCall
  <2>2. calls' \subseteq calls \cup {c} /\ worker' = worker
    BY <1>3 DEF Doc!WarmTimer, Doc!workers
  <2> HIDE DEF c
  <2>. QED  BY <2>1, <2>2 DEF Grows, SameCall
<1>4. CASE Doc!Close
  <2> DEFINE c == [Doc!NewCall EXCEPT !.kind = "close", !.life = closes]
             R == Doc!Resolved(Doc!Waiting(entry.version), 0)
  <2>1. c.kind = "close"
    BY DEF Doc!NewCall
  <2>2. calls' = calls \cup R \cup {c} /\ worker' = worker
    BY <1>4 DEF Doc!Close, Doc!workers
  <2>3. \A d \in R : d.kind = "query"
    BY <1>0, ResolvedTyped
  <2> HIDE DEF c, R
  <2>. QED  BY <2>1, <2>2, <2>3 DEF Grows, SameCall
<1>5. ASSUME NEW q \in Queries, Doc!Query(q) PROVE Grows /\ worker' = worker
  <2>1. PICK fresh \in BOOLEAN, inline \in BOOLEAN :
          Doc!EnsureReady(q, fresh, inline) \/ Doc!EnsureWaits(q, fresh, inline)
    BY <1>5 DEF Doc!Query
  <2> DEFINE e == Doc!Snapshot(text, fresh)
  <2>2. e \in Entries
    BY <1>0, SnapshotsTyped
  <2>3. worker' = worker
    BY <2>1 DEF Doc!EnsureReady, Doc!EnsureWaits, Doc!Makes, Doc!workers
  <2>4. CASE Doc!EnsureReady(q, fresh, inline)
    <3> DEFINE c == Doc!QueryCall(q, query'[q], e.version)
    <3>1. c.kind = "query"
      BY DEF Doc!QueryCall, Doc!NewCall
    <3>2. calls' = calls \cup {c}
      BY <2>4 DEF Doc!EnsureReady
    <3> HIDE DEF c
    <3>. QED  BY <2>3, <3>1, <3>2 DEF Grows, SameCall
  <2>5. CASE Doc!EnsureWaits(q, fresh, inline)
    <3>1. calls' = calls \cup Doc!SyncOf(e)
      BY <2>5 DEF Doc!EnsureWaits
    <3> HIDE DEF e
    <3>2. \A c \in Doc!SyncOf(e) : c.version # 0
      BY <2>2, PublishedVersioned
    <3>. QED  BY <2>3, <3>1, <3>2 DEF Grows, SameCall
  <2>. QED  BY <2>1, <2>4, <2>5
<1>. QED  BY <1>1, <1>2, <1>3, <1>4, <1>5

(* What a worker stores. *)
VersionedDoc(d) == d.origin = "sync" => d.version # 0

LEMMA StoresVersioned ==
  ASSUME NEW c, NEW d, VersionedDoc(d)
  PROVE  /\ VersionedDoc(Doc!FromDisk(d)) /\ VersionedDoc(Doc!Loaded(c, d))
         /\ c.version # 0 => VersionedDoc(Doc!Synced(c, d))
BY DEF VersionedDoc, Doc!FromDisk, Doc!Loaded, Doc!Synced

LEMMA DocVersioned ==
  ASSUME DocTyped, Bound, Versioned, Doc!Next
  PROVE  Versioned'
<1>1. ASSUME Grows, \A s \in Doc!Sessions : VersionedDoc(worker'[s])
      PROVE  Versioned'
  BY <1>1 DEF Versioned, Grows, SameCall, VersionedDoc
<1>2. \A s \in Doc!Sessions : VersionedDoc(worker[s])
  BY DEF Versioned, VersionedDoc
<1>3. ASSUME NEW s \in Doc!Sessions, NEW d, VersionedDoc(d),
             worker' = [worker EXCEPT ![s] = d]
      PROVE  \A t \in Doc!Sessions : VersionedDoc(worker'[t])
  BY <1>2, <1>3 DEF DocTyped
<1>4. CASE \/ Doc!Type \/ Doc!Change \/ Doc!Timer \/ Doc!WarmTimer \/ Doc!Close
           \/ \E q \in Queries : Doc!Query(q)
  BY <1>1, <1>2, <1>4, EditorGrows
<1>5. ASSUME NEW c \in calls, Doc!Take(c) PROVE Versioned'
  <2>1. CASE Doc!StartSession(c)
    <3> DEFINE d == IF tracker = Doc!Untracked THEN Doc!NoDocument
                    ELSE [text |-> tracker.text, generation |-> tracker.generation,
                          version |-> 0, origin |-> "replay"]
    <3>1. worker' = [worker EXCEPT ![started'] = d]
      BY <2>1 DEF Doc!StartSession
    <3>2. VersionedDoc(d)
      BY DEF VersionedDoc, Doc!NoDocument
    <3> HIDE DEF d
    <3>3. \A s \in Doc!Sessions : VersionedDoc(worker'[s])
      BY <1>2, <3>1, <3>2 DEF DocTyped
    <3>. QED  BY <1>1, <1>5, <3>3, TakeGrows
  <2>2. CASE worker' = worker
    BY <1>1, <1>2, <1>5, <2>2, TakeGrows
  <2>. QED  BY <1>5, <2>1, <2>2 DEF Doc!Take, Doc!Acquire, Doc!Refuse, Doc!Register, Doc!workers
<1>6. ASSUME NEW c \in calls, Doc!Serve(c) PROVE Versioned'
  <2>1. CASE worker' = worker
    BY <1>1, <1>2, <1>6, <2>1, ServeGrows
  <2>2. CASE c.stage = "sent" /\ \E d : worker' = [worker EXCEPT ![c.session] = d] /\ VersionedDoc(d)
    <3>1. c.session \in Doc!Sessions
      BY <2>2 DEF Bound
    <3>. QED  BY <1>1, <1>3, <1>6, <2>2, <3>1, ServeGrows
  <2>3. ASSUME c.stage = "sent"
        PROVE  VersionedDoc(worker[c.session]) /\ (c.kind = "sync" => c.version # 0)
    BY <1>2, <2>3 DEF Bound, Versioned
  <2>4. VersionedDoc(Doc!NoDocument)
    BY DEF VersionedDoc, Doc!NoDocument
  <2>5. CASE Doc!WorkerSync(c)
    <3> DEFINE d == IF Doc!SyncIsStale(c, worker[c.session]) THEN worker[c.session]
                    ELSE Doc!Synced(c, worker[c.session])
    <3>1. c.stage = "sent" /\ worker' = [worker EXCEPT ![c.session] = d]
      BY <2>5 DEF Doc!WorkerSync, Doc!Serves
    <3>2. VersionedDoc(d)
      BY <2>3, <2>5, <3>1, StoresVersioned DEF Doc!WorkerSync
    <3>. QED  BY <2>2, <3>1, <3>2
  <2>6. CASE Doc!WorkerLoad(c)
    <3>1. c.stage = "sent"
          /\ worker' = [worker EXCEPT ![c.session] = Doc!Loaded(c, worker[c.session])]
      BY <2>6 DEF Doc!WorkerLoad, Doc!Serves
    <3>. QED  BY <2>2, <2>3, <3>1, StoresVersioned
  <2>7. CASE Doc!WorkerRejects(c)
    <3> DEFINE d == IF Doc!QueryIsStale(c, worker[c.session]) THEN worker[c.session]
                    ELSE Doc!Loaded(c, worker[c.session])
    <3>1. c.stage = "sent" /\ worker' = [worker EXCEPT ![c.session] = d]
      BY <2>7 DEF Doc!WorkerRejects, Doc!Serves
    <3>2. VersionedDoc(d)
      BY <2>3, <3>1, StoresVersioned
    <3>. QED  BY <2>2, <3>1, <3>2
  <2>8. CASE Doc!WorkerClose(c)
    BY <2>2, <2>4, <2>8 DEF Doc!WorkerClose, Doc!Serves
  <2>9. CASE Doc!WorkerGone(c) \/ Doc!Lose(c)
    BY <2>1, <2>9 DEF Doc!WorkerGone, Doc!Lose, Doc!workers
  <2>. QED  BY <1>6, <2>5, <2>6, <2>7, <2>8, <2>9 DEF Doc!Serve
<1>7. ASSUME NEW c \in calls, Doc!End(c) PROVE Versioned'
  <2>1. worker' = worker
    BY <1>7 DEF Doc!End, Doc!SyncForgotten, Doc!SyncReady, Doc!SyncFailed, Doc!Settles,
                Doc!QueryFails, Doc!PrepareAgain, Doc!PrepareFails, Doc!CloseEnds, Doc!workers
  <2>. QED  BY <1>1, <1>2, <1>7, <2>1, EndGrows
<1>8. ASSUME NEW s \in Doc!Sessions, Doc!LoadDependency(s) PROVE Versioned'
  <2>1. worker' = [worker EXCEPT ![s] = Doc!FromDisk(worker[s])] /\ calls' = calls
    BY <1>8 DEF Doc!LoadDependency
  <2>2. VersionedDoc(Doc!FromDisk(worker[s]))
    BY <1>2, StoresVersioned
  <2>3. Grows
    BY <2>1 DEF Grows, SameCall
  <2>. QED  BY <1>1, <1>3, <2>1, <2>2, <2>3
<1>. QED  BY <1>4, <1>5, <1>6, <1>7, <1>8 DEF Doc!Next

-----------------------------------------------------------------------------
(* While the queue has not closed the document, every step keeps the numbers  *)
(* of its texts.                                                              *)

LEMMA SnapshotOpen ==
  ASSUME DocumentAssumption, DocTyped, NEW f, Fit(f, text, entry, calls, worker, query),
         NEW q \in Queries, query[q] = Doc!NoQuery, NEW fresh \in BOOLEAN, NEW r \in Asked,
         entry.text \notin {text, Doc!NoText} => fresh,
         r.version = Doc!Snapshot(text, fresh).version, r.of = text, r # Doc!NoQuery
  PROVE  /\ Doc!Snapshot(text, fresh).version # 0
         /\ \E g : Fit(g, text, Doc!Snapshot(text, fresh), calls, worker,
                       [query EXCEPT ![q] = r])
<1> DEFINE e == Doc!Snapshot(text, fresh)
           Q == [query EXCEPT ![q] = r]
<1>1. text \in Doc!Texts /\ text <= text
  BY DEF DocTyped, Doc!Texts, DocumentAssumption
<1>2. e \in Entries /\ e.version # 0
  BY <1>1, SnapshotsTyped, FitOfSnapshot
<1>3. PICK g : Fit(g, text, e, calls, worker, query)
  BY <1>1, FitOfSnapshot
<1>4. e.text = text
  <2>1. CASE entry = Doc!NoEntry
    BY <2>1 DEF Doc!Snapshot, Doc!NoEntry
  <2>2. CASE entry # Doc!NoEntry /\ fresh
    <3>1. e = [entry EXCEPT !.text = text, !.version = @ + 1, !.timer = TRUE]
      BY <2>2 DEF Doc!Snapshot
    <3>. QED  BY <3>1 DEF DocTyped, Entries
  <2>3. CASE entry # Doc!NoEntry /\ ~fresh
    <3>1. e = entry
      BY <2>3 DEF Doc!Snapshot
    <3>2. entry.text # Doc!NoText
      BY <1>2, <3>1 DEF Fit, Numbered, Doc!Texts, Doc!NoText, DocumentAssumption
    <3>. QED  BY <2>3, <3>1, <3>2
  <2>. QED  BY <2>1, <2>2, <2>3
<1> HIDE DEF e
<1>5. \A p \in Queries : Q[p] = IF p = q THEN r ELSE query[p]
  BY DEF DocTyped
<1>6. \A p \in Queries : QueryFits(g, e, Q[p])
  <2>1. r.version \in 1..e.version /\ r.of = g[r.version] /\ r.of \in Doc!Texts
    <3>1. e.version \in Nat /\ r.version = e.version
      BY <1>2 DEF Entries, e
    <3>2. g[e.version] = text
      BY <1>2, <1>3, <1>4 DEF Fit, Numbered
    <3>. QED  BY <1>1, <1>2, <3>1, <3>2
  <2>2. \A p \in Queries : QueryFits(g, e, query[p])
    BY <1>3 DEF Fit
  <2> HIDE DEF Q
  <2>. QED  BY <1>5, <2>1, <2>2 DEF QueryFits
<1>7. \A c \in calls : SyncFits(g, e, c) /\ CallFits(e, Q, c)
  <2> SUFFICES ASSUME NEW c \in calls PROVE SyncFits(g, e, c) /\ CallFits(e, Q, c)
    OBVIOUS
  <2>1. SyncFits(g, e, c) /\ CallFits(e, query, c)
    BY <1>3 DEF Fit
  <2> HIDE DEF Q
  <2>. QED  BY <1>5, <2>1 DEF CallFits
<1> HIDE DEF Q
<1>8. Fit(g, text, e, calls, worker, Q)
  BY <1>3, <1>6, <1>7 DEF Fit
<1>. QED  BY <1>2, <1>8 DEF e, Q

(* A query goes to the host with its version, or with its text. *)
LEMMA AskedFits ==
  ASSUME NEW e \in Entries, NEW Q \in [Queries -> Asked], NEW q \in Queries,
         Q[q] # Doc!NoQuery, NEW v \in Nat, v <= e.version,
         v = 0 \/ v >= Q[q].version, Q[q].of # Doc!NoText
  PROVE  Doc!QueryCall(q, Q[q], v).kind = "query" /\ CallFits(e, Q, Doc!QueryCall(q, Q[q], v))
<1>1. Q[q] \in Asked
  OBVIOUS
<1>2. /\ Doc!QueryCall(q, Q[q], v).kind = "query"
      /\ Doc!QueryCall(q, Q[q], v).query = q /\ Doc!QueryCall(q, Q[q], v).version = v
      /\ Doc!QueryCall(q, Q[q], v).text = IF v = 0 \/ Q[q].inline THEN Q[q].of ELSE Doc!NoText
  BY <1>1, QueryCallTyped
<1>. QED  BY <1>2 DEF CallFits

LEMMA EditorOpen ==
  ASSUME DocumentAssumption, DocTyped, Open, closes' = 0,
         \/ Doc!Type \/ Doc!Change \/ Doc!Timer \/ Doc!WarmTimer \/ Doc!Close
         \/ \E q \in Queries : Doc!Query(q)
  PROVE  Open'
<1>0. closes = 0
  <2>1. CASE Doc!Type \/ Doc!Change \/ Doc!Timer \/ Doc!WarmTimer
    BY <2>1 DEF Doc!Type, Doc!Change, Doc!Timer, Doc!WarmTimer
  <2>2. CASE Doc!Close
    BY <2>2 DEF Doc!Close, DocTyped
  <2>3. ASSUME NEW q \in Queries, Doc!Query(q) PROVE closes = 0
    BY <2>3 DEF Doc!Query, Doc!EnsureReady, Doc!EnsureWaits, Doc!Makes
  <2>. QED  BY <2>1, <2>2, <2>3
<1>1. PICK f : Fit(f, text, entry, calls, worker, query)
  BY <1>0 DEF Open
<1>2. /\ text \in Doc!Texts /\ text \in Int /\ entry \in Entries /\ entry.version \in Nat
      /\ worker \in [Doc!Sessions -> Stored] /\ query \in [Queries -> Asked]
  BY DEF DocTyped, Entries, Doc!Texts
<1>3. CASE Doc!Type
  <2>1. text' = text + 1 /\ UNCHANGED <<entry, calls, worker, query>>
    BY <1>3 DEF Doc!Type, Doc!workers
  <2>2. entry.text \in Int
    BY <1>2 DEF Entries, SomeText, Doc!Texts, Doc!NoText, DocumentAssumption
  <2>3. Fit(f, text', entry, calls, worker, query)
    BY <1>1, <1>2, <2>1, <2>2 DEF Fit, Numbered
  <2>. QED  BY <2>1, <2>3 DEF Open
<1>4. CASE Doc!Change
  <2> DEFINE t == text'
  <2>1. t = text + 1 /\ t \in Doc!Texts /\ text <= t
    BY <1>2, <1>4 DEF Doc!Change, Doc!Texts, DocumentAssumption
  <2>2. entry' = Doc!Snapshot(t, TRUE) /\ UNCHANGED <<calls, worker, query>>
    BY <1>4 DEF Doc!Change, Doc!workers
  <2> HIDE DEF t
  <2>3. PICK g : Fit(g, t, Doc!Snapshot(t, TRUE), calls, worker, query)
    BY <1>1, <2>1, FitOfSnapshot
  <2>. QED  BY <2>2, <2>3 DEF Open, t
<1>5. CASE Doc!Timer
  <2> DEFINE e == [entry EXCEPT !.timer = FALSE]
  <2>0. entry.version # 0
    BY <1>1, <1>5 DEF Doc!Timer, Fit, Numbered, Doc!NoEntry
  <2>1. /\ e \in Entries /\ e.version = entry.version /\ e.text = entry.text
        /\ e.published = entry.published /\ e.inFlight = entry.inFlight
    BY <1>2 DEF Entries
  <2>2. Doc!SyncOf(entry) = Doc!SyncOf(e)
    BY <2>1 DEF Doc!SyncOf, Doc!MayPublish
  <2>3. entry' = Doc!Published(e) /\ calls' = calls \cup Doc!SyncOf(entry)
        /\ UNCHANGED <<text, worker, query>>
    BY <1>5 DEF Doc!Timer, Doc!workers
  <2> HIDE DEF e
  <2>4. Fit(f, text, e, calls, worker, query)
    BY <1>1, <1>2, <2>0, <2>1, FitOfEntry
  <2>5. Fit(f, text, Doc!Published(e), calls \cup Doc!SyncOf(e), worker, query)
    BY <1>0, <1>2, <2>0, <2>1, <2>4, FitOfPublished
  <2>. QED  BY <2>2, <2>3, <2>5 DEF Open
<1>6. CASE Doc!WarmTimer
  <2> DEFINE e == [entry EXCEPT !.warm = 0]
             c == [Doc!NewCall EXCEPT !.kind = "prepare", !.version = entry.warm, !.life = closes]
  <2>0. entry.version # 0
    BY <1>1, <1>6 DEF Doc!WarmTimer, Fit, Numbered, Doc!NoEntry
  <2>1. /\ e \in Entries /\ e.version = entry.version /\ e.text = entry.text
        /\ e.published = entry.published /\ e.inFlight = entry.inFlight
    BY <1>2 DEF Entries
  <2>2. c.kind = "prepare"
    BY DEF Doc!NewCall
  <2>3. entry' = e /\ calls' \subseteq calls \cup {c} /\ UNCHANGED <<text, worker, query>>
    BY <1>6 DEF Doc!WarmTimer, Doc!workers
  <2> HIDE DEF e, c
  <2>4. Fit(f, text, e, calls, worker, query)
    BY <1>1, <1>2, <2>0, <2>1, FitOfEntry
  <2>5. Fit(f, text, e, calls', worker, query)
    BY <2>2, <2>3, <2>4, FitOfFewer
  <2>. QED  BY <2>3, <2>5 DEF Open
<1>7. CASE Doc!Close
  BY <1>0, <1>7 DEF Doc!Close
<1>8. ASSUME NEW q \in Queries, Doc!Query(q) PROVE Open'
  <2>1. PICK fresh \in BOOLEAN, inline \in BOOLEAN :
          Doc!EnsureReady(q, fresh, inline) \/ Doc!EnsureWaits(q, fresh, inline)
    BY <1>8 DEF Doc!Query
  <2>2. PICK stage \in {"asked", "waiting"} : Doc!Makes(q, fresh, inline, stage)
    BY <2>1 DEF Doc!EnsureReady, Doc!EnsureWaits
  <2> DEFINE e == Doc!Snapshot(text, fresh)
             r == [Doc!NoQuery EXCEPT !.stage = stage, !.version = e.version,
                         !.of = text, !.inline = inline, !.life = closes]
             Q == [query EXCEPT ![q] = r]
  <2>3. e \in Entries /\ e.version \in Nat
    BY <1>2, SnapshotsTyped DEF Entries
  <2>4. query' = Q /\ query[q] = Doc!NoQuery /\ (entry.text \notin {text, Doc!NoText} => fresh)
        /\ UNCHANGED <<text, worker>>
    BY <2>2 DEF Doc!Makes, Doc!workers
  <2>5. r \in Asked /\ r.version = e.version /\ r.of = text /\ r # Doc!NoQuery
    <3> HIDE DEF e
    <3>1. text \in SomeText /\ closes \in Nat
      BY <1>0, <1>2 DEF SomeText
    <3>2. r.stage = stage /\ Doc!NoQuery.stage = "none"
      BY DEF Doc!NoQuery
    <3>3. r # Doc!NoQuery
      BY <3>2
    <3>. QED  BY <2>3, <3>1, <3>3 DEF Doc!NoQuery, Asked, SomeText
  <2> HIDE DEF r
  <2>6. e.version # 0 /\ \E g : Fit(g, text, e, calls, worker, Q)
    BY <1>1, <2>4, <2>5, SnapshotOpen
  <2>7. PICK g : Fit(g, text, e, calls, worker, Q)
    BY <2>6
  <2>8. Q \in [Queries -> Asked] /\ Q[q] = r
    BY <1>2, <2>5
  <2> HIDE DEF e, Q
  <2>9. CASE Doc!EnsureReady(q, fresh, inline)
    <3> DEFINE D == {Doc!QueryCall(q, Q[q], e.version)}
    <3>1. entry' = e /\ calls' = calls \cup D
      BY <2>4, <2>9 DEF Doc!EnsureReady, e
    <3>2. r.of # Doc!NoText
      BY <1>2, <2>5 DEF Doc!Texts, Doc!NoText, DocumentAssumption
    <3>3. \A d \in D : d.kind = "query" /\ CallFits(e, Q, d)
      BY <2>3, <2>5, <2>8, <3>2, AskedFits
    <3> HIDE DEF D
    <3>4. Fit(g, text, e, calls \cup D, worker, Q)
      BY <2>7, <3>3, FitOfMore
    <3>. QED  BY <2>4, <3>1, <3>4 DEF Open
  <2>10. CASE Doc!EnsureWaits(q, fresh, inline)
    <3> DEFINE d == [e EXCEPT !.timer = FALSE]
    <3>1. /\ entry' = IF e.inFlight THEN e ELSE Doc!Published(d)
          /\ calls' = calls \cup Doc!SyncOf(e)
      BY <2>10 DEF Doc!EnsureWaits, e
    <3>2. /\ d \in Entries /\ d.version = e.version /\ d.text = e.text
          /\ d.published = e.published /\ d.inFlight = e.inFlight
      BY <2>3 DEF Entries
    <3>3. Doc!SyncOf(e) = Doc!SyncOf(d)
      BY <3>2 DEF Doc!SyncOf, Doc!MayPublish
    <3> HIDE DEF d
    <3>4. CASE e.inFlight
      <4>1. Doc!SyncOf(e) = {}
        BY <3>4 DEF Doc!SyncOf, Doc!MayPublish
      <4>. QED  BY <2>4, <2>7, <3>1, <3>4, <4>1 DEF Open
    <3>5. CASE ~e.inFlight
      <4>1. Fit(g, text, d, calls, worker, Q)
        BY <2>3, <2>6, <2>7, <3>2, FitOfEntry
      <4>2. Fit(g, text, Doc!Published(d), calls \cup Doc!SyncOf(d), worker, Q)
        BY <1>0, <1>2, <2>6, <3>2, <4>1, FitOfPublished
      <4>. QED  BY <2>4, <3>1, <3>3, <3>5, <4>2 DEF Open
    <3>. QED  BY <3>4, <3>5
  <2>. QED  BY <2>1, <2>9, <2>10
<1>. QED  BY <1>3, <1>4, <1>5, <1>6, <1>7, <1>8

(* The calls in the host go on as the same calls. *)
LEMMA BecomeOpen ==
  ASSUME Open, NEW c \in calls, NEW d, SameCall(c, d), Doc!Become(c, d),
         NEW f, closes = 0, Fit(f, text, entry, calls, worker, query),
         UNCHANGED <<text, entry, query>>, worker' = worker
  PROVE  Open'
<1>1. Fit(f, text, entry, (calls \ {c}) \cup {d}, worker, query)
  BY FitOfCall
<1>. QED  BY <1>1 DEF Open, Doc!Become

LEMMA TakeOpen ==
  ASSUME DocTyped, Open, NEW c \in calls, Doc!Take(c), closes' = 0
  PROVE  Open'
<1>0. c \in HostCalls /\ closes = 0 /\ UNCHANGED <<text, entry, query>>
  BY DEF DocTyped, Doc!Take, Doc!Acquire, Doc!StartSession, Doc!Refuse, Doc!Register, Doc!editor
<1>1. PICK f : Fit(f, text, entry, calls, worker, query)
  BY <1>0 DEF Open
<1>2. PICK d : SameCall(c, d) /\ Doc!Become(c, d)
  <2>1. ASSUME NEW s, Doc!Has(c, s) PROVE \E d : SameCall(c, d) /\ Doc!Become(c, d)
    <3>1. SameCall(c, [c EXCEPT !.stage = IF c.text = Doc!NoText THEN "sent" ELSE "held",
                                !.session = s])
      BY <1>0 DEF HostCalls, SameCall
    <3>. QED  BY <2>1, <3>1 DEF Doc!Has
  <2>2. ASSUME Doc!Answers(c, "error") PROVE \E d : SameCall(c, d) /\ Doc!Become(c, d)
    <3>1. SameCall(c, [c EXCEPT !.stage = "answered", !.answer = "error"])
      BY <1>0 DEF HostCalls, SameCall
    <3>. QED  BY <2>2, <3>1 DEF Doc!Answers
  <2>3. ASSUME NEW g, Doc!Become(c, [c EXCEPT !.stage = "sent", !.generation = g])
        PROVE  \E d : SameCall(c, d) /\ Doc!Become(c, d)
    <3>1. SameCall(c, [c EXCEPT !.stage = "sent", !.generation = g])
      BY <1>0 DEF HostCalls, SameCall
    <3>. QED  BY <2>3, <3>1
  <2>. QED  BY <2>1, <2>2, <2>3 DEF Doc!Take, Doc!Acquire, Doc!StartSession, Doc!Refuse, Doc!Register
<1>3. CASE worker' = worker
  BY <1>0, <1>1, <1>2, <1>3, BecomeOpen
<1>4. CASE Doc!StartSession(c)
  <2> DEFINE d0 == IF tracker = Doc!Untracked THEN Doc!NoDocument
                   ELSE [text |-> tracker.text, generation |-> tracker.generation,
                         version |-> 0, origin |-> "replay"]
  <2>1. worker' = [worker EXCEPT ![started'] = d0]
    BY <1>4 DEF Doc!StartSession
  <2>2. StoreFits(f, entry, d0)
    BY DEF StoreFits, Doc!NoDocument
  <2> HIDE DEF d0
  <2>3. \A s \in Doc!Sessions : StoreFits(f, entry, worker'[s])
    BY <1>1, <2>1, <2>2 DEF Fit, DocTyped
  <2>4. Fit(f, text, entry, (calls \ {c}) \cup {d}, worker, query)
    BY <1>1, <1>2, FitOfCall
  <2>5. Fit(f, text, entry, calls', worker', query)
    BY <1>2, <2>3, <2>4 DEF Fit, Doc!Become
  <2>. QED  BY <1>0, <2>5 DEF Open
<1>. QED  BY <1>3, <1>4 DEF Doc!Take, Doc!Acquire, Doc!Refuse, Doc!Register, Doc!workers

(* What the workers store comes from the calls. *)
LEMMA StoreFitsOf ==
  ASSUME NEW f, NEW e \in Entries, NEW c, NEW d, StoreFits(f, e, d)
  PROVE  /\ StoreFits(f, e, Doc!FromDisk(d)) /\ StoreFits(f, e, Doc!Loaded(c, d))
         /\ c.kind = "sync" /\ SyncFits(f, e, c) => StoreFits(f, e, Doc!Synced(c, d))
<1>1. StoreFits(f, e, Doc!FromDisk(d))
  BY DEF StoreFits, Doc!FromDisk
<1>2. StoreFits(f, e, Doc!Loaded(c, d))
  BY <1>1 DEF StoreFits, Doc!Loaded
<1>3. ASSUME c.kind = "sync", SyncFits(f, e, c) PROVE StoreFits(f, e, Doc!Synced(c, d))
  BY <1>3 DEF StoreFits, SyncFits, Doc!Synced, Entries
<1>. QED  BY <1>1, <1>2, <1>3

LEMMA ServeOpen ==
  ASSUME DocTyped, Bound, Open, NEW c \in calls, Doc!Serve(c), closes' = 0
  PROVE  Open'
<1>0. c \in HostCalls /\ closes = 0 /\ UNCHANGED <<text, entry>> /\ entry \in Entries
      /\ query \in [Queries -> Asked] /\ worker \in [Doc!Sessions -> Stored]
  <2>1. UNCHANGED <<text, entry, closes>>
    BY DEF Doc!Serve, Doc!WorkerSync, Doc!WorkerLoad, Doc!WorkerRejects, Doc!WorkerClose,
           Doc!WorkerGone, Doc!Lose, Doc!Serves, Doc!editor
  <2>. QED  BY <2>1 DEF DocTyped
<1>1. PICK f : Fit(f, text, entry, calls, worker, query)
  BY <1>0 DEF Open
<1>2. ASSUME NEW answer, Doc!Answers(c, answer)
      PROVE  Fit(f, text, entry, calls', worker, query)
  <2>1. SameCall(c, [c EXCEPT !.stage = "answered", !.answer = answer])
    BY <1>0 DEF HostCalls, SameCall
  <2>2. Doc!Become(c, [c EXCEPT !.stage = "answered", !.answer = answer])
    BY <1>2 DEF Doc!Answers
  <2>. QED  BY <1>1, <2>1, <2>2, FitOfCall DEF Doc!Become
<1>3. c.stage = "sent" => c.session \in Doc!Sessions /\ StoreFits(f, entry, worker[c.session])
  BY <1>1 DEF Bound, Fit
<1>4. CASE Doc!WorkerSync(c)
  <2> DEFINE d == IF Doc!SyncIsStale(c, worker[c.session]) THEN worker[c.session]
                  ELSE Doc!Synced(c, worker[c.session])
  <2>1. c.stage = "sent" /\ c.kind = "sync" /\ worker' = [worker EXCEPT ![c.session] = d]
        /\ query' = query /\ \E answer : Doc!Answers(c, answer)
    BY <1>4 DEF Doc!WorkerSync, Doc!Serves
  <2>2. SyncFits(f, entry, c)
    BY <1>1 DEF Fit
  <2>3. StoreFits(f, entry, d)
    BY <1>0, <1>3, <2>1, <2>2, StoreFitsOf
  <2> HIDE DEF d
  <2>4. Fit(f, text, entry, calls', worker', query)
    BY <1>0, <1>2, <1>3, <2>1, <2>3, FitOfStore
  <2>. QED  BY <1>0, <2>1, <2>4 DEF Open
<1>5. CASE Doc!WorkerRejects(c)
  <2> DEFINE d == IF Doc!QueryIsStale(c, worker[c.session]) THEN worker[c.session]
                  ELSE Doc!Loaded(c, worker[c.session])
  <2>1. c.stage = "sent" /\ worker' = [worker EXCEPT ![c.session] = d]
        /\ query' = query /\ \E answer : Doc!Answers(c, answer)
    BY <1>5 DEF Doc!WorkerRejects, Doc!Serves
  <2>2. StoreFits(f, entry, d)
    BY <1>0, <1>3, <2>1, StoreFitsOf
  <2> HIDE DEF d
  <2>3. Fit(f, text, entry, calls', worker', query)
    BY <1>0, <1>2, <1>3, <2>1, <2>2, FitOfStore
  <2>. QED  BY <1>0, <2>1, <2>3 DEF Open
<1>6. CASE Doc!WorkerClose(c)
  <2>1. c.stage = "sent" /\ worker' = [worker EXCEPT ![c.session] = Doc!NoDocument]
        /\ query' = query /\ \E answer : Doc!Answers(c, answer)
    BY <1>6 DEF Doc!WorkerClose, Doc!Serves
  <2>2. StoreFits(f, entry, Doc!NoDocument)
    BY DEF StoreFits, Doc!NoDocument
  <2>3. Fit(f, text, entry, calls', worker', query)
    BY <1>0, <1>2, <1>3, <2>1, <2>2, FitOfStore
  <2>. QED  BY <1>0, <2>1, <2>3 DEF Open
<1>7. CASE Doc!WorkerGone(c) \/ Doc!Lose(c)
  <2>1. UNCHANGED <<worker, query>> /\ \E answer : Doc!Answers(c, answer)
    BY <1>7 DEF Doc!WorkerGone, Doc!Lose, Doc!editor, Doc!workers
  <2>. QED  BY <1>0, <1>2, <2>1 DEF Open
<1>8. CASE Doc!WorkerLoad(c)
  <2> DEFINE l == Doc!Loaded(c, worker[c.session])
             from == IF l.version # 0 THEN "version" ELSE l.origin
             r == [query[c.query] EXCEPT !.stage = "answered", !.served = l.text, !.from = from]
  <2>1. c.stage = "sent" /\ worker' = [worker EXCEPT ![c.session] = l] /\ calls' = calls \ {c}
        /\ c.kind \in {"query", "prepare"}
    BY <1>8 DEF Doc!WorkerLoad, Doc!Serves
  <2>2. StoreFits(f, entry, l)
    BY <1>0, <1>3, <2>1, StoreFitsOf
  <2>3. c.kind = "query" => c.query \in Queries /\ query[c.query] # Doc!NoQuery
    BY <1>1 DEF Fit, CallFits
  <2>4. query' = IF c.kind = "query" THEN [query EXCEPT ![c.query] = r] ELSE query
    BY <1>0, <1>8, <2>1 DEF Doc!WorkerLoad
  <2> HIDE DEF l, from
  <2>5. Fit(f, text, entry, calls', worker, query)
    BY <1>1, <2>1, FitOfFewer
  <2>6. Fit(f, text, entry, calls', worker', query)
    BY <1>0, <1>3, <2>1, <2>2, <2>5, FitOfStore
  <2>7. \A q \in Queries : QueryFits(f, entry, query'[q])
    <3>1. c.kind = "query" => r.version = query[c.query].version /\ r.of = query[c.query].of
      BY <1>0, <2>3 DEF Asked
    <3> HIDE DEF r
    <3>. QED  BY <1>0, <1>1, <2>3, <2>4, <3>1 DEF Fit, QueryFits
  <2>8. \A b \in calls' : CallFits(entry, query', b)
    <3> SUFFICES ASSUME NEW b \in calls', b.kind = "query", c.kind = "query",
                        b.query = c.query
                 PROVE  CallFits(entry, query', b)
      BY <1>0, <2>3, <2>4, <2>6 DEF Fit, CallFits
    <3>1. r.version = query[c.query].version /\ r.of = query[c.query].of /\ r.stage = "answered"
      BY <1>0, <2>3 DEF Asked
    <3>2. r # Doc!NoQuery
      BY <3>1 DEF Doc!NoQuery
    <3> HIDE DEF r
    <3>3. query'[c.query] = r
      BY <1>0, <2>3, <2>4
    <3>. QED  BY <2>6, <3>1, <3>2, <3>3 DEF Fit, CallFits
  <2>. QED  BY <1>0, <2>6, <2>7, <2>8 DEF Open, Fit
<1>. QED  BY <1>4, <1>5, <1>6, <1>7, <1>8 DEF Doc!Serve

(* A sync is over: the queries that waited for it go to the host with its     *)
(* version or with none, and what changed meanwhile is published.             *)
LEMMA SettlesOpen ==
  ASSUME DocumentAssumption, DocTyped, Open, NEW c \in calls, NEW e \in Entries, NEW v \in Nat,
         Doc!Settles(c, e, v), closes' = 0, v \in {0, c.version},
         e.version = entry.version, e.text = entry.text, e.published = entry.published
  PROVE  Open'
<1> DEFINE next == [e EXCEPT !.inFlight = FALSE]
           W == Doc!Waiting(c.version)
           R == Doc!Resolved(W, v)
           S == IF next.timer THEN {} ELSE Doc!SyncOf(next)
<1>1. /\ entry' = IF next.timer THEN next ELSE Doc!Published(next)
      /\ Doc!Resolve(W, v) /\ c.kind = "sync"
      /\ calls' = (calls \ {c}) \cup R \cup S
      /\ UNCHANGED <<text, closes, worker>>
  BY DEF Doc!Settles, Doc!workers
<1>2. PICK f : Fit(f, text, entry, calls, worker, query)
  BY <1>1 DEF Open
<1>3. /\ next \in Entries /\ next.version = entry.version /\ next.text = entry.text
      /\ next.published = entry.published
  BY DEF Entries
<1>4. /\ entry \in Entries /\ worker \in [Doc!Sessions -> Stored] /\ query \in [Queries -> Asked]
      /\ c.version \in Nat /\ entry.version \in Nat /\ entry.published \in Nat
  BY DEF DocTyped, HostCalls, Entries
<1> HIDE DEF next
<1>5. c.version # 0 /\ c.version = entry.published /\ entry.published <= entry.version
  BY <1>1, <1>2 DEF Fit, SyncFits, Numbered
<1>6. next.version # 0
  BY <1>3, <1>4, <1>5
<1>7. Fit(f, text, next, calls \ {c}, worker, query)
  BY <1>1, <1>2, <1>3, <1>4, <1>6, FitOfSettled
<1>8. query' \in [Queries -> Asked]
  BY <1>1, ResolveTyped
<1>9. \A q \in Queries : /\ query'[q].version = query[q].version /\ query'[q].of = query[q].of
                         /\ query'[q] = Doc!NoQuery <=> query[q] = Doc!NoQuery
  <2> SUFFICES ASSUME NEW q \in Queries
               PROVE  /\ query'[q].version = query[q].version /\ query'[q].of = query[q].of
                      /\ query'[q] = Doc!NoQuery <=> query[q] = Doc!NoQuery
    OBVIOUS
  <2>1. CASE q \in W
    <3>1. query'[q] = [query[q] EXCEPT !.stage = "asked"] /\ query[q].stage = "waiting"
      BY <1>1, <2>1 DEF Doc!Resolve, Doc!Waiting
    <3>2. query[q] \in Asked
      BY <1>4
    <3>3. /\ query'[q].version = query[q].version /\ query'[q].of = query[q].of
          /\ query'[q].stage = "asked"
      BY <3>1, <3>2 DEF Asked
    <3>4. Doc!NoQuery.stage = "none"
      BY DEF Doc!NoQuery
    <3>. QED  BY <3>1, <3>3, <3>4
  <2>2. CASE q \notin W
    BY <1>1, <2>2 DEF Doc!Resolve
  <2>. QED  BY <2>1, <2>2
<1>10. Fit(f, text, next, calls \ {c}, worker, query')
  BY <1>4, <1>7, <1>8, <1>9, FitOfQueries
<1>11. \A d \in R : d.kind = "query" /\ CallFits(next, query', d)
  <2> SUFFICES ASSUME NEW q \in W
               PROVE  /\ Doc!QueryCall(q, query[q], v).kind = "query"
                      /\ CallFits(next, query', Doc!QueryCall(q, query[q], v))
    BY DEF Doc!Resolved
  <2>1. q \in Queries /\ query[q].stage = "waiting" /\ query[q].version <= c.version
    BY DEF Doc!Waiting
  <2>2. query[q] # Doc!NoQuery /\ Doc!NoQuery.stage = "none"
    BY <2>1 DEF Doc!NoQuery
  <2>3. query[q].of # Doc!NoText
    BY <1>2, <2>1, <2>2 DEF Fit, QueryFits, Doc!Texts, Doc!NoText, DocumentAssumption
  <2>4. v <= next.version /\ (v = 0 \/ v >= query[q].version)
    <3>1. query[q].version \in Nat
      BY <1>4, <2>1 DEF Asked
    <3>. QED  BY <1>3, <1>4, <1>5, <2>1, <3>1
  <2>5. /\ Doc!QueryCall(q, query[q], v).kind = "query"
        /\ CallFits(next, query, Doc!QueryCall(q, query[q], v))
    BY <1>3, <1>4, <2>1, <2>2, <2>3, <2>4, AskedFits
  <2>. QED  BY <1>9, <2>1, <2>5 DEF CallFits
<1> HIDE DEF R
<1>12. Fit(f, text, next, (calls \ {c}) \cup R, worker, query')
  BY <1>10, <1>11, FitOfMore
<1>13. CASE next.timer
  BY <1>1, <1>12, <1>13 DEF Open
<1>14. CASE ~next.timer
  <2>1. Fit(f, text, Doc!Published(next), ((calls \ {c}) \cup R) \cup Doc!SyncOf(next),
            worker, query')
    BY <1>1, <1>3, <1>4, <1>6, <1>12, FitOfPublished
  <2>. QED  BY <1>1, <1>14, <2>1 DEF Open
<1>. QED  BY <1>13, <1>14

LEMMA EndOpen ==
  ASSUME DocumentAssumption, DocTyped, Open, NEW c \in calls, Doc!End(c), closes' = 0
  PROVE  Open'
<1>0. c \in HostCalls /\ entry \in Entries /\ query \in [Queries -> Asked]
  BY DEF DocTyped
<1>1. closes = 0
  BY DEF Doc!End, Doc!SyncForgotten, Doc!SyncReady, Doc!SyncFailed, Doc!Settles,
         Doc!QueryFails, Doc!PrepareAgain, Doc!PrepareFails, Doc!CloseEnds, Doc!editor
<1>2. PICK f : Fit(f, text, entry, calls, worker, query)
  BY <1>1 DEF Open
<1>3. CASE Doc!SyncForgotten(c)
  BY <1>1, <1>2, <1>3 DEF Doc!SyncForgotten, Fit, SyncFits
<1>4. CASE Doc!SyncReady(c)
  <2> DEFINE e == [entry EXCEPT !.ready = c.version, !.warm = c.version]
  <2>1. /\ e \in Entries /\ c.version \in Nat /\ e.version = entry.version
        /\ e.text = entry.text /\ e.published = entry.published
    BY <1>0 DEF Entries, HostCalls
  <2>2. Doc!Settles(c, e, c.version)
    BY <1>4 DEF Doc!SyncReady
  <2> HIDE DEF e
  <2>. QED  BY <2>1, <2>2, SettlesOpen
<1>5. CASE Doc!SyncFailed(c)
  <2>1. Doc!Settles(c, entry, 0)
    BY <1>5 DEF Doc!SyncFailed
  <2>. QED  BY <1>0, <2>1, SettlesOpen
<1>6. CASE Doc!QueryFails(c)
  <2> DEFINE r == [query[c.query] EXCEPT !.stage = "failed"]
  <2>1. c.kind = "query" /\ query' = [query EXCEPT ![c.query] = r] /\ calls' = calls \ {c}
        /\ UNCHANGED <<text, entry, worker>>
    BY <1>0, <1>6 DEF Doc!QueryFails, Doc!Ends, Doc!workers
  <2>2. c.query \in Queries /\ query[c.query] # Doc!NoQuery
    BY <1>2, <2>1 DEF Fit, CallFits
  <2>3. /\ r \in Asked /\ r.version = query[c.query].version /\ r.of = query[c.query].of
        /\ r.stage = "failed"
    BY <1>0, <2>2 DEF Asked
  <2>4. r # Doc!NoQuery
    BY <2>3 DEF Doc!NoQuery
  <2> HIDE DEF r
  <2> DEFINE Q == query'
  <2>5. Q \in [Queries -> Asked]
    BY <1>0, <2>1, <2>3
  <2>6. \A q \in Queries : /\ Q[q].version = query[q].version /\ Q[q].of = query[q].of
                           /\ Q[q] = Doc!NoQuery <=> query[q] = Doc!NoQuery
    BY <1>0, <2>1, <2>2, <2>3, <2>4
  <2> HIDE DEF Q
  <2>7. Fit(f, text, entry, calls, worker, Q)
    BY <1>0, <1>2, <2>5, <2>6, FitOfQueries
  <2>8. Fit(f, text, entry, calls', worker, Q)
    BY <2>1, <2>7, FitOfFewer
  <2>. QED  BY <2>1, <2>8 DEF Open, Q
<1>7. CASE Doc!PrepareAgain(c)
  <2> DEFINE d == [c EXCEPT !.stage = "new", !.session = Doc!None, !.answer = "none",
                            !.retried = TRUE]
  <2>1. SameCall(c, d)
    BY <1>0 DEF HostCalls, SameCall
  <2>2. Doc!Become(c, d) /\ UNCHANGED <<text, entry, query, worker>>
    BY <1>7 DEF Doc!PrepareAgain, Doc!editor, Doc!workers
  <2> HIDE DEF d
  <2>. QED  BY <1>1, <1>2, <2>1, <2>2, BecomeOpen
<1>8. CASE Doc!PrepareFails(c) \/ Doc!CloseEnds(c)
  <2>1. calls' = calls \ {c} /\ UNCHANGED <<text, entry, query, worker>>
    BY <1>8 DEF Doc!PrepareFails, Doc!CloseEnds, Doc!editor, Doc!workers
  <2>2. Fit(f, text, entry, calls', worker, query)
    BY <1>2, <2>1, FitOfFewer
  <2>. QED  BY <2>1, <2>2 DEF Open
<1>. QED  BY <1>3, <1>4, <1>5, <1>6, <1>7, <1>8 DEF Doc!End

LEMMA LoadOpen ==
  ASSUME DocTyped, Open, NEW s \in Doc!Sessions, Doc!LoadDependency(s), closes' = 0
  PROVE  Open'
<1>1. closes = 0 /\ UNCHANGED <<text, entry, calls, query>>
      /\ worker' = [worker EXCEPT ![s] = Doc!FromDisk(worker[s])]
  BY DEF Doc!LoadDependency, Doc!editor
<1>2. PICK f : Fit(f, text, entry, calls, worker, query)
  BY <1>1 DEF Open
<1>3. StoreFits(f, entry, Doc!FromDisk(worker[s]))
  BY <1>2, StoreFitsOf DEF Fit, DocTyped
<1>4. Fit(f, text, entry, calls, worker', query)
  BY <1>1, <1>2, <1>3, FitOfStore DEF DocTyped
<1>. QED  BY <1>1, <1>4 DEF Open

-----------------------------------------------------------------------------
(* No answer that was given is taken back or given to another question.        *)
KeepsAnswers ==
  \A q \in Queries : query'[q].stage = "answered" => query'[q] = query[q]

LEMMA ProtectedByKeeping ==
  ASSUME KeepsAnswers, Doc!VersionsProtect, closes' = 0 => closes = 0
  PROVE  Doc!VersionsProtect'
BY DEF KeepsAnswers, Doc!VersionsProtect, Doc!Answered

LEMMA ResolveKeeps ==
  ASSUME DocTyped, NEW n, NEW v, Doc!Resolve(Doc!Waiting(n), v)
  PROVE  KeepsAnswers
<1> SUFFICES ASSUME NEW q \in Queries, query'[q].stage = "answered"
             PROVE  query'[q] = query[q]
  BY DEF KeepsAnswers
<1>1. query[q] \in Asked
  BY DEF DocTyped
<1>2. [query[q] EXCEPT !.stage = "asked"].stage = "asked"
  BY <1>1 DEF Asked
<1>. QED  BY <1>2 DEF Doc!Resolve

LEMMA EditorKeeps ==
  ASSUME DocTyped,
         \/ Doc!Type \/ Doc!Change \/ Doc!Timer \/ Doc!WarmTimer \/ Doc!Close
         \/ \E q \in Queries : Doc!Query(q)
  PROVE  KeepsAnswers /\ (closes' = 0 => closes = 0)
<1>1. CASE Doc!Type \/ Doc!Change \/ Doc!Timer \/ Doc!WarmTimer
  BY <1>1 DEF Doc!Type, Doc!Change, Doc!Timer, Doc!WarmTimer, KeepsAnswers
<1>2. CASE Doc!Close
  <2>1. Doc!Resolve(Doc!Waiting(entry.version), 0) /\ closes' = closes + 1 /\ closes \in Nat
    BY <1>2 DEF Doc!Close, DocTyped
  <2>. QED  BY <2>1, ResolveKeeps
<1>3. ASSUME NEW q \in Queries, Doc!Query(q) PROVE KeepsAnswers /\ closes' = closes
  <2>1. PICK fresh \in BOOLEAN, inline \in BOOLEAN, stage \in {"asked", "waiting"} :
          Doc!Makes(q, fresh, inline, stage)
    BY <1>3 DEF Doc!Query, Doc!EnsureReady, Doc!EnsureWaits
  <2> DEFINE r == [Doc!NoQuery EXCEPT !.stage = stage, !.version = Doc!Snapshot(text, fresh).version,
                                      !.of = text, !.inline = inline, !.life = closes]
  <2>2. query' = [query EXCEPT ![q] = r] /\ closes' = closes
    BY <2>1 DEF Doc!Makes
  <2>3. r.stage = stage
    BY DEF Doc!NoQuery
  <2> HIDE DEF r
  <2>. QED  BY <2>2, <2>3 DEF KeepsAnswers, DocTyped
<1>. QED  BY <1>1, <1>2, <1>3

LEMMA EndKeeps ==
  ASSUME DocTyped, NEW c \in calls, Doc!End(c)
  PROVE  KeepsAnswers /\ closes' = closes
<1>1. CASE Doc!SyncReady(c) \/ Doc!SyncFailed(c)
  <2>1. \E v : Doc!Resolve(Doc!Waiting(c.version), v)
    BY <1>1 DEF Doc!SyncReady, Doc!SyncFailed, Doc!Settles
  <2>. QED  BY <1>1, <2>1, ResolveKeeps DEF Doc!SyncReady, Doc!SyncFailed, Doc!Settles
<1>2. CASE Doc!QueryFails(c)
  <2> DEFINE r == [query[c.query] EXCEPT !.stage = "failed"]
  <2>1. query' = [query EXCEPT ![c.query] = r] /\ closes' = closes
    BY <1>2 DEF Doc!QueryFails
  <2>2. c.query \in Queries => r.stage = "failed"
    BY DEF DocTyped, Asked
  <2> HIDE DEF r
  <2>. QED  BY <2>1, <2>2 DEF KeepsAnswers, DocTyped
<1>3. CASE query' = query /\ closes' = closes
  BY <1>3 DEF KeepsAnswers
<1>. QED  BY <1>1, <1>2, <1>3 DEF Doc!End, Doc!SyncForgotten, Doc!PrepareAgain,
                                  Doc!PrepareFails, Doc!CloseEnds, Doc!editor

(* What a query is answered from while its document is open: its own text, or *)
(* the version it asked for, or one without a number.                          *)
LEMMA LoadedIsCurrent ==
  ASSUME DocTyped, NEW f, NEW c \in calls, c.kind = "query",
         Fit(f, text, entry, calls, worker, query),
         NEW d \in Stored, StoreFits(f, entry, d), ~Doc!QueryIsStale(c, d),
         Doc!Loaded(c, d).text < query[c.query].of
  PROVE  Doc!Loaded(c, d).version = 0 /\ Doc!Loaded(c, d).origin \in {"replay", "disk"}
<1>1. /\ c.query \in Queries /\ query[c.query] # Doc!NoQuery
      /\ IF c.text = Doc!NoText THEN c.version >= query[c.query].version
         ELSE c.text = query[c.query].of
  BY DEF Fit, CallFits
<1>2. /\ query[c.query].version \in 1..entry.version
      /\ query[c.query].of = f[query[c.query].version] /\ query[c.query].of \in Doc!Texts
  BY <1>1 DEF Fit, QueryFits
<1>3. c \in HostCalls /\ entry \in Entries
  BY DEF DocTyped
<1>4. entry.version \in Nat /\ entry.published \in Nat /\ entry.published <= entry.version
  BY <1>3 DEF Entries, Fit, Numbered
<1>5. c.version \in Nat /\ d.version \in Nat
  BY <1>3 DEF HostCalls, Stored
<1>6. CASE c.text # Doc!NoText
  <2>1. Doc!Loaded(c, d).text = c.text
    BY <1>6 DEF Doc!Loaded
  <2>. QED  BY <1>1, <1>2, <1>6, <2>1 DEF Doc!Texts
<1>7. CASE c.text = Doc!NoText
  <2>1. Doc!Loaded(c, d) = Doc!FromDisk(d)
    BY <1>7 DEF Doc!Loaded
  <2>2. CASE Doc!FromDisk(d).version = 0
    <3>1. Doc!FromDisk(d).origin \in {"sync", "replay", "disk"}
      BY DEF Doc!FromDisk, Doc!IsOverlay
    <3>2. Doc!FromDisk(d).origin # "sync"
      BY <1>3, <2>2, StoreFitsOf DEF StoreFits
    <3>. QED  BY <2>1, <2>2, <3>1, <3>2
  <2>3. CASE Doc!FromDisk(d).version # 0
    <3>1. Doc!FromDisk(d) = d /\ d.version # 0
      BY <2>3 DEF Doc!FromDisk
    <3>2. c.version = d.version
      BY <1>1, <1>2, <1>4, <1>5, <1>7, <3>1 DEF Doc!QueryIsStale
    <3>3. d.version <= entry.published /\ d.text = f[d.version]
      BY <3>1 DEF StoreFits
    <3> DEFINE i == query[c.query].version
               j == d.version
    <3>4. i \in 1..entry.version /\ j \in 1..entry.version /\ i <= j
      BY <1>1, <1>2, <1>4, <1>5, <1>7, <3>1, <3>2, <3>3
    <3> HIDE DEF i, j
    <3>5. f[i] <= f[j] /\ f[i] \in Doc!Texts /\ f[j] \in Doc!Texts
      BY <3>4 DEF Fit, Numbered, Rises
    <3>6. f[j] < f[i]
      BY <1>2, <2>1, <3>1, <3>3 DEF i, j
    <3>. QED  BY <3>5, <3>6 DEF Doc!Texts
  <2>. QED  BY <2>2, <2>3
<1>. QED  BY <1>6, <1>7

LEMMA ServeProtects ==
  ASSUME DocTyped, Bound, Open, Doc!VersionsProtect, NEW c \in calls, Doc!Serve(c)
  PROVE  Doc!VersionsProtect'
<1>1. CASE query' = query /\ closes' = closes
  BY <1>1, ProtectedByKeeping DEF KeepsAnswers
<1>2. CASE Doc!WorkerLoad(c) /\ c.kind = "query" /\ closes' = 0
  <2> DEFINE d == worker[c.session]
             l == Doc!Loaded(c, d)
             from == IF l.version # 0 THEN "version" ELSE l.origin
             r == [query[c.query] EXCEPT !.stage = "answered", !.served = l.text, !.from = from]
  <2>1. /\ c.stage = "sent" /\ closes = 0 /\ ~Doc!QueryIsStale(c, d)
        /\ query \in [Queries -> Asked]
    BY <1>2 DEF Doc!WorkerLoad, Doc!Serves, Doc!Fits, DocTyped
  <2>2. PICK f : Fit(f, text, entry, calls, worker, query)
    BY <2>1 DEF Open
  <2>3. c.query \in Queries
    BY <1>2, <2>2 DEF Fit, CallFits
  <2>4. query' = [query EXCEPT ![c.query] = r]
    BY <1>2, <2>1 DEF Doc!WorkerLoad
  <2>5. d \in Stored /\ StoreFits(f, entry, d)
    BY <2>1, <2>2 DEF Bound, Fit, DocTyped
  <2>6. l.text < query[c.query].of => l.version = 0 /\ l.origin \in {"replay", "disk"}
    BY <1>2, <2>1, <2>2, <2>5, LoadedIsCurrent
  <2> HIDE DEF d, l
  <2>7. r.of = query[c.query].of /\ r.served = l.text /\ r.from = from
    BY <2>1, <2>3 DEF Asked
  <2> HIDE DEF r
  <2> SUFFICES ASSUME NEW q \in Queries, query'[q].stage = "answered",
                      query'[q].served < query'[q].of
               PROVE  query'[q].from \in {"replay", "disk"}
    BY DEF Doc!VersionsProtect, Doc!Answered
  <2>8. CASE q = c.query
    <3>1. query'[q] = r
      BY <2>1, <2>4, <2>8
    <3>. QED  BY <2>6, <2>7, <3>1
  <2>9. CASE q # c.query
    <3>1. query'[q] = query[q]
      BY <2>1, <2>4, <2>9
    <3>. QED  BY <2>1, <3>1 DEF Doc!VersionsProtect, Doc!Answered
  <2>. QED  BY <2>8, <2>9
<1>3. CASE closes' # 0
  BY <1>3 DEF Doc!VersionsProtect
<1>. QED  BY <1>1, <1>2, <1>3 DEF Doc!Serve, Doc!WorkerSync, Doc!WorkerLoad, Doc!WorkerRejects,
             Doc!WorkerClose, Doc!WorkerGone, Doc!Lose, Doc!Serves, Doc!editor

-----------------------------------------------------------------------------
(* The invariant. *)

LEMMA DocInitInvariant ==
  ASSUME DocumentAssumption, Doc!Init
  PROVE  DocInv
<1>1. DocTyped
  BY DEF DocumentAssumption, Doc!Init, DocTyped, Doc!Texts, SomeText, Entries, Asked, HostCalls, Stored,
         Doc!NoEntry, Doc!NoQuery, Doc!NoDocument, Doc!Untracked, Doc!NoText, Doc!None,
         Doc!Sessions
<1>2. Bound /\ Versioned /\ Doc!VersionsProtect
  BY DEF Doc!Init, Bound, Versioned, Doc!VersionsProtect, Doc!Answered, Doc!NoDocument,
         Doc!NoQuery
<1>3. Fit([i \in Nat |-> 0], text, entry, calls, worker, query)
  <2>1. Numbered([i \in Nat |-> 0], text, entry)
    BY DEF DocumentAssumption, Doc!Init, Numbered, Rises, Doc!NoEntry, Doc!NoText
  <2>2. \A s \in Doc!Sessions : StoreFits([i \in Nat |-> 0], entry, worker[s])
    BY DEF Doc!Init, StoreFits, Doc!NoDocument
  <2>3. \A q \in Queries : QueryFits([i \in Nat |-> 0], entry, query[q])
    BY DEF Doc!Init, QueryFits
  <2>. QED  BY <2>1, <2>2, <2>3 DEF Doc!Init, Fit
<1>. QED  BY <1>1, <1>2, <1>3 DEF DocInv, Open

LEMMA DocStepInvariant ==
  ASSUME DocumentAssumption, DocInv, [Doc!Next]_(Doc!vars)
  PROVE  DocInv'
<1> USE DEF DocInv
<1>1. CASE \/ Doc!Type \/ Doc!Change \/ Doc!Timer \/ Doc!WarmTimer \/ Doc!Close
           \/ \E q \in Queries : Doc!Query(q)
  <2>1. Versioned'
    BY <1>1, DocVersioned DEF Doc!Next
  <2>2. DocTyped' /\ Bound' /\ KeepsAnswers /\ (closes' = 0 => closes = 0)
    BY <1>1, EditorTyped, EditorKeeps
  <2>3. Open'
    <3>1. CASE closes' = 0
      BY <1>1, <3>1, EditorOpen
    <3>2. CASE closes' # 0
      BY <3>2 DEF Open
    <3>. QED  BY <3>1, <3>2
  <2>. QED  BY <2>1, <2>2, <2>3, ProtectedByKeeping
<1>2. ASSUME NEW c \in calls, Doc!Take(c) PROVE DocInv'
  <2>1. Versioned'
    BY <1>2, DocVersioned DEF Doc!Next
  <2>2. DocTyped' /\ Bound'
    BY <1>2, TakeTyped
  <2>3. KeepsAnswers /\ closes' = closes
    BY <1>2 DEF Doc!Take, Doc!Acquire, Doc!StartSession, Doc!Refuse, Doc!Register, Doc!editor,
                KeepsAnswers
  <2>4. Open'
    <3>1. CASE closes' = 0
      BY <1>2, <3>1, TakeOpen
    <3>2. CASE closes' # 0
      BY <3>2 DEF Open
    <3>. QED  BY <3>1, <3>2
  <2>. QED  BY <2>1, <2>2, <2>3, <2>4, ProtectedByKeeping
<1>3. ASSUME NEW c \in calls, Doc!Serve(c) PROVE DocInv'
  <2>1. Versioned'
    BY <1>3, DocVersioned DEF Doc!Next
  <2>2. DocTyped' /\ Bound'
    BY <1>3, ServeTyped
  <2>3. Open'
    <3>1. CASE closes' = 0
      BY <1>3, <3>1, ServeOpen
    <3>2. CASE closes' # 0
      BY <3>2 DEF Open
    <3>. QED  BY <3>1, <3>2
  <2>. QED  BY <1>3, <2>1, <2>2, <2>3, ServeProtects
<1>4. ASSUME NEW c \in calls, Doc!End(c) PROVE DocInv'
  <2>1. Versioned'
    BY <1>4, DocVersioned DEF Doc!Next
  <2>2. DocTyped' /\ Bound' /\ KeepsAnswers /\ closes' = closes
    BY <1>4, EndTyped, EndKeeps
  <2>3. Open'
    <3>1. CASE closes' = 0
      BY <1>4, <3>1, EndOpen
    <3>2. CASE closes' # 0
      BY <3>2 DEF Open
    <3>. QED  BY <3>1, <3>2
  <2>. QED  BY <2>1, <2>2, <2>3, ProtectedByKeeping
<1>5. ASSUME NEW s \in Doc!Sessions, Doc!LoadDependency(s) PROVE DocInv'
  <2>1. Versioned'
    BY <1>5, DocVersioned DEF Doc!Next
  <2>2. DocTyped' /\ Bound'
    BY <1>5, LoadTyped
  <2>3. KeepsAnswers /\ closes' = closes
    BY <1>5 DEF Doc!LoadDependency, Doc!editor, KeepsAnswers
  <2>4. Open'
    <3>1. CASE closes' = 0
      BY <1>5, <3>1, LoadOpen
    <3>2. CASE closes' # 0
      BY <3>2 DEF Open
    <3>. QED  BY <3>1, <3>2
  <2>. QED  BY <2>1, <2>2, <2>3, <2>4, ProtectedByKeeping
<1>6. CASE UNCHANGED Doc!vars
  BY <1>6 DEF Doc!vars, Doc!editor, Doc!host, Doc!workers, DocTyped, Bound, Versioned, Open,
              Doc!VersionsProtect, Doc!Answered
<1>. QED  BY <1>1, <1>2, <1>3, <1>4, <1>5, <1>6 DEF Doc!Next

LEMMA DocInvariant == Doc!Spec => []DocInv
<1>1. Doc!Init => DocInv
  BY DocInitInvariant, DocumentAssumption
<1>2. DocInv /\ [Doc!Next]_(Doc!vars) => DocInv'
  BY DocStepInvariant, DocumentAssumption
<1>. QED  BY <1>1, <1>2, PTL DEF Doc!Spec

(* Nothing comes to a worker after what followed it. *)
LEMMA FitsInOrder ==
  ASSUME DocTyped, Bound, Open
  PROVE  Doc!SyncsComeInOrder
<1> SUFFICES ASSUME closes = 0, NEW c \in calls, c.kind = "sync", c.stage = "sent"
             PROVE  ~Doc!SyncIsStale(c, worker[c.session])
  BY DEF Doc!SyncsComeInOrder
<1>1. PICK f : Fit(f, text, entry, calls, worker, query)
  BY DEF Open
<1>2. c.session \in Doc!Sessions /\ worker[c.session] \in Stored
  BY DEF Bound, DocTyped
<1>3. SyncFits(f, entry, c) /\ StoreFits(f, entry, worker[c.session])
  BY <1>1, <1>2 DEF Fit
<1>4. entry \in Entries /\ entry.published \in Nat
  BY DEF DocTyped, Entries
<1>. QED  BY <1>2, <1>3, <1>4 DEF SyncFits, StoreFits, Doc!SyncIsStale, Stored

(* The document's parts keep their types: the entry of the queue, the calls   *)
(* with a session wherever one is to reach a worker, the store of each worker. *)
THEOREM DocumentTypeCorrect == Doc!Spec => []Doc!TypeOK
<1>1. DocInv => Doc!TypeOK
  BY DEF DocInv, DocTyped, Doc!TypeOK, SomeText, Entries, Asked, HostCalls, Stored
<1>. QED  BY <1>1, DocInvariant, PTL

(* A query that lost the race with an edit is not answered from what was      *)
(* before it was asked, for any number of queries, edits, sessions and lost    *)
(* calls: ensureReady waits for the version, and the worker refuses another;   *)
(* only a store that was replayed or read from the file has none to compare.   *)
THEOREM OldTextsAreExcused == Doc!Spec => []VersionsProtect
<1>1. DocInv => VersionsProtect
  BY DEF DocInv, VersionsProtect
<1>. QED  BY <1>1, DocInvariant, PTL

(* The threads of the host overtake each other, and yet no sync reaches a     *)
(* worker that has seen a later one, since the queue has one sync under way    *)
(* per document; with a stale one the worker would fail the session.           *)
THEOREM SyncsNeverCross == Doc!Spec => []SyncsComeInOrder
<1>1. DocInv => SyncsComeInOrder
  BY FitsInOrder DEF DocInv, SyncsComeInOrder
<1>. QED  BY <1>1, DocInvariant, PTL
=============================================================================
