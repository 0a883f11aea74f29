------------------------- MODULE IndexManager_proofs -------------------------
(* Theorems about IndexManager, for every set of roots, paths and callers,    *)
(* every batch size and number of generations, with and without a journal     *)
(* that fails: the maintenance fence holds, no task the scheduler took        *)
(* vanishes, and what is published is never behind what was asked for.        *)
EXTENDS IndexManager, IndexQueue_proofs

-----------------------------------------------------------------------------
(* The scheduler value.                                                      *)

(* What every value of the scheduler satisfies. *)
Ordered(s) ==
  /\ s \in Schedulers
  /\ SlotsHeld(s)
  /\ \A t \in PendingTasks(s) : Built(t) /\ t.generation \in 1..s.generation

(* The continuations that keep the number of the task they continue. *)
KeepsNumber(t) == t.reason \in DeepReasons \cup DiscoveryReasons

(* What a scheduling call promises of the result r it leaves of s, beyond     *)
(* GoodResult: what it hands back was replaced by newer work, and what it     *)
(* adds is newer than anything numbered so far and cancels nothing that is    *)
(* still pending.                                                             *)
Steady(s, r) ==
  /\ GoodResult(s, r)
  /\ Ordered(r.scheduler)
  /\ ~r.scheduled => r.superseded = {}
  /\ \A old \in r.superseded : \E new \in PendingTasks(r.scheduler) :
       /\ new.generation > old.generation
       /\ TasksCanCoalesce(new, old) \/ Replaces(new, old)
  /\ \A n \in PendingTasks(r.scheduler) \ PendingTasks(s) :
       /\ n.generation > s.generation \/ KeepsNumber(n)
       /\ \A u \in PendingTasks(r.scheduler) : CancelsActive(n, u) => KeepsNumber(u)

(* Tasks of one root and reason share a slot. *)
LEMMA SameReasonSameSlot ==
  ASSUME NEW a, NEW b, Built(a), Built(b), a.root = b.root, a.reason = b.reason
  PROVE  TasksCanCoalesce(a, b)
<1>1. a.kind = b.kind /\ a.priority = b.priority
  BY DEF Built
<1>2. TaskAdmission(a) = TaskAdmission(b)
  BY <1>1 DEF TaskAdmission, ChangedPathsAdmission
<1>3. QED
  BY <1>1, <1>2 DEF TasksCanCoalesce

(* A task of changed paths cancels tasks of its own reason only. *)
LEMMA CancelsOwnReason ==
  ASSUME NEW n, NEW u, CancelsActive(n, u), n.kind = "changed-paths"
  PROVE  u.kind = "changed-paths" /\ u.reason = n.reason /\ u.root = n.root
BY DEF CancelsActive, TaskSupersedesActive, TaskKindReplacesPending

(* What makes a result steady: the one task it can add. *)
LEMMA SteadyByOne ==
  ASSUME NEW s, Ordered(s), NEW r, GoodResult(s, r), NewerReplacement(s, r),
         SlotsHeld(r.scheduler), ~r.scheduled => r.superseded = {},
         NEW new, Built(new), new.generation > s.generation \/ KeepsNumber(new),
         PendingTasks(r.scheduler) \subseteq PendingTasks(s) \cup {new},
         \A u \in PendingTasks(r.scheduler) \ {new} : CancelsActive(new, u) => KeepsNumber(u)
  PROVE  Steady(s, r)
<1>1. /\ r.scheduler \in Schedulers
      /\ s.generation \in Nat /\ r.scheduler.generation \in Nat
      /\ r.scheduler.generation >= s.generation
  BY DEF GoodResult, Schedulers, Ordered
<1>2. \A t \in PendingTasks(s) : Built(t) /\ t.generation \in 1..s.generation
  BY DEF Ordered
<1>3. \A t \in PendingTasks(r.scheduler) : t.generation \in 1..r.scheduler.generation
  <2> SUFFICES ASSUME NEW t \in PendingTasks(r.scheduler)
               PROVE  t.generation \in 1..r.scheduler.generation
    OBVIOUS
  <2>1. CASE t \in PendingTasks(s)
    BY <1>1, <1>2, <2>1
  <2>2. CASE t \notin PendingTasks(s)
    BY <2>2 DEF GoodResult
  <2>3. QED
    BY <2>1, <2>2
<1>4. Ordered(r.scheduler)
  BY <1>1, <1>2, <1>3 DEF Ordered
<1>5. \A old \in r.superseded : \E n \in PendingTasks(r.scheduler) :
        /\ n.generation > old.generation
        /\ TasksCanCoalesce(n, old) \/ Replaces(n, old)
  BY <1>2 DEF NewerReplacement
<1>6. ASSUME NEW n \in PendingTasks(r.scheduler) \ PendingTasks(s),
             NEW u \in PendingTasks(r.scheduler), CancelsActive(n, u)
      PROVE  KeepsNumber(u)
  <2>1. n = new
    BY <1>6
  <2>2. u # new
    <3>1. n.generation > u.generation
      BY <1>6 DEF CancelsActive
    <3>2. n.generation \in Int
      BY <1>3, <1>6
    <3>3. QED
      BY <2>1, <3>1, <3>2
  <2>3. QED
    BY <1>6, <2>1, <2>2
<1>7. \A n \in PendingTasks(r.scheduler) \ PendingTasks(s) :
        n.generation > s.generation \/ KeepsNumber(n)
  OBVIOUS
<1>8. QED
  BY <1>4, <1>5, <1>6, <1>7 DEF Steady

(* schedule_with_result. *)
LEMMA ScheduleSteady ==
  ASSUME NEW s, Ordered(s), NEW t \in Tasks, Built(t)
  PROVE  Steady(s, ScheduleWithResult(s, t))
<1> DEFINE r == ScheduleWithResult(s, t)
<1>1. s \in Schedulers /\ SlotsHeld(s) /\ s.generation \in Nat
  BY DEF Ordered, Schedulers
<1>2. s.tasks \in Seq(Tasks) /\ s.delayed \in Seq(Delayed)
  BY <1>1 DEF Schedulers
<1>3. GoodResult(s, r) /\ NewerReplacement(s, r) /\ SlotsHeld(r.scheduler)
  BY <1>1, ScheduleProperties, ScheduleKeepsSlots
<1> DEFINE late == {x.task : x \in Elements(s.delayed)}
<1>4. PendingTasks(s) = Elements(s.tasks) \cup late
  BY PendingParts
<1>5. \A u \in late : KeepsNumber(u)
  BY <1>1 DEF SlotsHeld, DeepContinuation, KeepsNumber, Elements, ValuesAt
<1>6. \A u \in PendingTasks(s) : Built(u) /\ u \in Tasks
  BY <1>1, PendingType DEF Ordered
<1>7. ASSUME r = Result(s, {}, FALSE)
      PROVE  Steady(s, r)
  <2>1. r.scheduler = s /\ r.superseded = {}
    BY <1>7 DEF Result
  <2> HIDE DEF r
  <2>2. QED
    BY <1>3, <2>1 DEF Steady
<1>8. ASSUME NEW i \in DOMAIN s.tasks, TasksCanCoalesce(s.tasks[i], t), t.kind = "changed-paths",
             r = ScheduleCoalesced(s, t, i)
      PROVE  Steady(s, r)
  <2> DEFINE e   == s.tasks[i]
             num == Numbered(s, t)
             new == Coalesced(e, num)
             q   == [s.tasks EXCEPT ![i] = new]
  <2>1. e \in Tasks /\ e \in PendingTasks(s) /\ Built(e)
    <3>1. e \in Elements(s.tasks)
      BY <1>8 DEF Elements, ValuesAt
    <3>2. QED
      BY <1>4, <1>6, <3>1
  <2>2. /\ num \in Tasks /\ num.generation = s.generation + 1
        /\ TasksCanCoalesce(num, t) /\ num.priority = t.priority
    <3>1. num.priority = t.priority
      BY DEF Numbered, Tasks
    <3>2. QED
      BY <1>1, <3>1, StampedProperties, NumberedSlot
  <2>3. TasksCanCoalesce(e, num)
    BY <1>8, <2>2 DEF TasksCanCoalesce
  <2>4. new \in Tasks /\ new.generation = s.generation + 1 /\ TasksCanCoalesce(new, e)
    BY <2>1, <2>2, <2>3, CoalescedProperties
  <2>5. e.reason = t.reason /\ e.priority = t.priority /\ e.priority \in Int
    BY <1>8, <2>1 DEF TasksCanCoalesce, Built, Tasks, Priorities, Background, ForegroundNavigation
  <2>6. new.priority = e.priority
    <3>1. CASE LatestWins(num)
      BY <2>2, <2>5, <3>1 DEF Coalesced
    <3>2. CASE ~LatestWins(num)
      <4>1. new.priority = Larger(e.priority, num.priority)
        BY <2>1, <3>2 DEF Coalesced, Tasks
      <4>2. QED
        BY <2>2, <2>5, <4>1 DEF Larger
    <3>3. QED
      BY <3>1, <3>2
  <2>7. Built(new) /\ new.kind = "changed-paths" /\ new.root = e.root /\ new.reason = e.reason
    BY <1>8, <2>1, <2>4, <2>6 DEF Built, TasksCanCoalesce
  <2>8. /\ r.scheduler.tasks = q /\ r.scheduler.delayed = s.delayed
        /\ r.scheduled = TRUE
    <3> HIDE DEF new, e
    <3>1. r = Result([s EXCEPT !.generation = s.generation + 1, !.tasks = q], {e}, TRUE)
      BY <1>1, <1>8 DEF ScheduleCoalesced, Schedulers, new, e
    <3> HIDE DEF r, q
    <3>2. QED
      BY <1>1, <3>1 DEF Result, Schedulers
  <2> HIDE DEF r, new, num
  <2>9. Elements(q) \subseteq {s.tasks[j] : j \in DOMAIN s.tasks \ {i}} \cup {new}
    BY DEF Elements, ValuesAt
  <2>10. PendingTasks(r.scheduler) \subseteq {s.tasks[j] : j \in DOMAIN s.tasks \ {i}} \cup {new} \cup late
    <3>1. PendingTasks(r.scheduler) = Elements(q) \cup late
      BY <2>8, PendingParts
    <3> HIDE DEF q, late
    <3>2. QED
      BY <2>9, <3>1
  <2>11. ASSUME NEW u \in PendingTasks(r.scheduler) \ {new}, CancelsActive(new, u)
         PROVE  KeepsNumber(u)
    <3>1. CASE u \in late
      BY <1>5, <3>1
    <3>2. ASSUME NEW j \in DOMAIN s.tasks \ {i}, u = s.tasks[j]
          PROVE  KeepsNumber(u)
      <4>1. Built(u)
        BY <1>4, <1>6, <3>2 DEF Elements, ValuesAt
      <4>2. u.kind = "changed-paths" /\ u.reason = new.reason /\ u.root = new.root
        BY <2>7, <2>11, CancelsOwnReason
      <4>3. TasksCanCoalesce(u, e)
        BY <2>1, <2>7, <4>1, <4>2, SameReasonSameSlot
      <4>4. u.reason \in DeepReasons
        <5> SUFFICES ASSUME u.reason \notin DeepReasons
                     PROVE  FALSE
          OBVIOUS
        <5>1. Apart(u, e)
          BY <1>1, <3>2 DEF SlotsHeld, OnePerSlot
        <5>2. QED
          BY <4>2, <4>3, <5>1 DEF Apart
      <4>5. QED
        BY <4>4 DEF KeepsNumber
    <3>3. QED
      BY <2>10, <3>1, <3>2
  <2>12. PendingTasks(r.scheduler) \subseteq PendingTasks(s) \cup {new}
    BY <1>4, <2>10 DEF Elements, ValuesAt
  <2>13. new.generation > s.generation
    BY <1>1, <2>4
  <2>14. QED
    BY <1>3, <2>7, <2>8, <2>11, <2>12, <2>13, SteadyByOne
<1>9. ASSUME r = ScheduleAppended(s, t),
             t.kind = "changed-paths" => \A i \in DOMAIN s.tasks : ~TasksCanCoalesce(s.tasks[i], t)
      PROVE  Steady(s, r)
  <2> DEFINE new  == Stamped(s, t)
             kept == {i \in DOMAIN s.tasks : ~Replaces(new, s.tasks[i])}
             k    == Keep(s.tasks, kept)
             q    == Append(k, new)
  <2>1. /\ new \in Tasks /\ new.root = t.root /\ new.kind = t.kind /\ new.reason = t.reason
        /\ new.priority = t.priority
    <3>1. new.priority = t.priority
      BY DEF Stamped, Numbered, Tasks
    <3>2. QED
      BY <1>1, <3>1, StampedProperties, NumberedSlot DEF TasksCanCoalesce
  <2>2. Built(new)
    BY <2>1 DEF Built
  <2>3. new.generation > s.generation \/ KeepsNumber(new)
    <3>1. CASE PreservesContinuationGeneration(t)
      BY <2>1, <3>1 DEF PreservesContinuationGeneration, KeepsNumber
    <3>2. CASE ~PreservesContinuationGeneration(t)
      <4>1. new = Numbered(s, t)
        BY <3>2 DEF Stamped
      <4>2. Numbered(s, t).generation = s.generation + 1
        BY <1>1, StampedProperties
      <4>3. QED
        BY <1>1, <4>1, <4>2
    <3>3. QED
      BY <3>1, <3>2
  <2>4. /\ r.scheduler.tasks = q /\ r.scheduler.delayed = s.delayed
        /\ r.scheduled = TRUE
    <3> HIDE DEF new
    <3>1. PICK gone : r = Result([s EXCEPT !.generation = Larger(s.generation, new.generation),
                                          !.tasks = q], gone, TRUE)
      BY <1>1, <1>9 DEF ScheduleAppended, Schedulers, new
    <3> HIDE DEF r, q
    <3>2. QED
      BY <1>1, <3>1 DEF Result, Schedulers
  <2>5. kept \in SUBSET DOMAIN s.tasks /\ \A i \in kept : ~Replaces(new, s.tasks[i])
    OBVIOUS
  <2> HIDE DEF r, new, kept
  <2>6. k \in Seq(Tasks) /\ Elements(k) = ValuesAt(s.tasks, kept)
    BY <1>2, <2>5, KeepProperties
  <2> HIDE DEF k
  <2>7. Elements(q) = ValuesAt(s.tasks, kept) \cup {new}
    BY <2>1, <2>6, AppendElements
  <2> HIDE DEF q
  <2>8. PendingTasks(r.scheduler) = ValuesAt(s.tasks, kept) \cup {new} \cup late
    BY <2>4, <2>7, PendingParts
  <2> HIDE DEF late
  <2>9. ASSUME NEW u \in PendingTasks(r.scheduler) \ {new}, CancelsActive(new, u)
        PROVE  KeepsNumber(u)
    <3>1. CASE u \in late
      BY <1>5, <3>1
    <3>2. ASSUME NEW j \in kept, u = s.tasks[j]
          PROVE  FALSE
      <4>1. Built(u) /\ u \in PendingTasks(s)
        BY <1>4, <1>6, <2>5, <3>2 DEF Elements, ValuesAt
      <4>2. CASE new.kind # "changed-paths"
        <5>1. Replaces(new, u)
          BY <2>9, <4>2 DEF CancelsActive, TaskSupersedesActive, Replaces
        <5>2. QED
          BY <2>5, <3>2, <5>1
      <4>3. CASE new.kind = "changed-paths"
        <5>1. u.reason = new.reason /\ u.root = new.root
          BY <2>9, <4>3, CancelsOwnReason
        <5>2. TasksCanCoalesce(u, t)
          BY <2>1, <4>1, <5>1, SameReasonSameSlot
        <5>3. QED
          BY <1>9, <2>1, <2>5, <3>2, <4>3, <5>2
      <4>4. QED
        BY <4>2, <4>3
    <3>3. QED
      BY <2>8, <3>1, <3>2 DEF ValuesAt
  <2>10. PendingTasks(r.scheduler) \subseteq PendingTasks(s) \cup {new}
    BY <1>4, <2>5, <2>8 DEF Elements, ValuesAt
  <2>11. QED
    BY <1>3, <2>2, <2>3, <2>4, <2>9, <2>10, SteadyByOne
<1> HIDE DEF r
<1>10. QED
  BY <1>1, <1>7, <1>8, <1>9, ScheduleCases DEF r

(* schedule_background_retry of a deep continuation. *)
LEMMA RetrySteady ==
  ASSUME NEW s, Ordered(s), NEW t \in Tasks, Built(t), DeepContinuation(t)
  PROVE  Steady(s, ScheduleBackgroundRetry(s, t))
<1> DEFINE r == ScheduleBackgroundRetry(s, t)
<1>1. s \in Schedulers /\ SlotsHeld(s) /\ s.delayed \in Seq(Delayed)
  BY DEF Ordered, Schedulers
<1>2. GoodResult(s, r) /\ NewerReplacement(s, r) /\ SlotsHeld(r.scheduler)
  BY <1>1, RetryProperties, RetryKeepsSlots
<1>3. \A i \in DOMAIN s.delayed : /\ s.delayed[i] \in Delayed
                                  /\ DeepContinuation(s.delayed[i].task)
                                  /\ Built(s.delayed[i].task)
  <2>1. \A i \in DOMAIN s.delayed : s.delayed[i].task \in PendingTasks(s)
    BY DEF PendingTasks
  <2>2. QED
    BY <1>1, <2>1, LenProperties, ElementOfSeq DEF SlotsHeld, Ordered
<1>4. PICK c \in Schedulers, delay \in Nat :
        /\ c.tasks = s.tasks /\ c.delayed = s.delayed /\ c.generation = s.generation
        /\ \/ r = Result(c, {}, FALSE)
           \/ \E i \in DOMAIN s.delayed : /\ TasksCanCoalesce(s.delayed[i].task, t)
                                          /\ r = RetryCoalesced(c, t, i, delay)
           \/ r = RetryAppended(c, t, delay)
  BY <1>1, RetryCases
<1> HIDE DEF r
(* What the delayed queue gets is a deep continuation, and cancels no other. *)
<1>5. ASSUME NEW new, new.kind = "changed-paths", new.reason \in DeepReasons, new.priority = Background,
             ~r.scheduled => r.superseded = {},
             PendingTasks(r.scheduler) \subseteq PendingTasks(s) \cup {new}
      PROVE  Steady(s, r)
  <2>1. Built(new) /\ KeepsNumber(new)
    BY <1>5 DEF Built, ReasonKind, ReasonPriority, DeepReasons, KeepsNumber
  <2>2. \A u \in PendingTasks(r.scheduler) \ {new} : CancelsActive(new, u) => KeepsNumber(u)
    BY <1>5, <2>1, CancelsOwnReason DEF KeepsNumber
  <2>3. QED
    BY <1>2, <1>5, <2>1, <2>2, SteadyByOne
<1>6. t.kind = "changed-paths" /\ t.reason \in DeepReasons /\ t.priority = Background
  BY DEF DeepContinuation, Built, ReasonPriority, DeepReasons
<1>7. ASSUME r = Result(c, {}, FALSE)
      PROVE  Steady(s, r)
  <2>1. r.superseded = {} /\ PendingTasks(r.scheduler) = PendingTasks(s)
    BY <1>4, <1>7 DEF Result, PendingTasks
  <2>2. QED
    BY <1>5, <1>6, <2>1
<1>8. ASSUME NEW i \in DOMAIN s.delayed, TasksCanCoalesce(s.delayed[i].task, t),
             r = RetryCoalesced(c, t, i, delay)
      PROVE  Steady(s, r)
  <2> DEFINE e   == s.delayed[i].task
             num == Numbered(c, t)
             new == Coalesced(e, num)
             v   == [task |-> new, wait |-> delay]
             q   == [s.delayed EXCEPT ![i] = v]
  <2>1. r.scheduler.tasks = s.tasks /\ r.scheduler.delayed = q /\ r.scheduled = TRUE
    <3> DEFINE x == [c EXCEPT !.generation = c.generation + 1, !.delayed = q]
    <3>1. r = Result(x, {e}, TRUE)
      BY <1>4, <1>8 DEF RetryCoalesced, Schedulers
    <3> HIDE DEF q, e
    <3>2. x.tasks = s.tasks /\ x.delayed = q
      BY <1>4 DEF Schedulers
    <3>3. QED
      BY <3>1, <3>2 DEF Result
  <2>2. e \in Tasks /\ DeepContinuation(e) /\ Built(e) /\ TasksCanCoalesce(e, t)
    BY <1>3, <1>8 DEF Delayed
  <2>3. num \in Tasks /\ num.priority = t.priority /\ TasksCanCoalesce(num, t)
    <3>1. num.priority = t.priority
      BY DEF Numbered, Tasks
    <3>2. QED
      BY <3>1, StampedProperties, NumberedSlot
  <2>4. TasksCanCoalesce(new, e)
    <3>1. TasksCanCoalesce(e, num)
      BY <2>2, <2>3 DEF TasksCanCoalesce
    <3>2. QED
      BY <2>2, <2>3, <3>1, CoalescedProperties
  <2>5. e.priority = Background
    BY <2>2 DEF DeepContinuation, Built, ReasonPriority, DeepReasons
  <2>6. new.priority = Background
    <3>1. CASE LatestWins(num)
      BY <1>6, <2>3, <3>1 DEF Coalesced
    <3>2. CASE ~LatestWins(num)
      <4>1. new.priority = Larger(e.priority, num.priority)
        BY <2>2, <3>2 DEF Coalesced, Tasks
      <4>2. QED
        BY <1>6, <2>3, <2>5, <4>1 DEF Larger
    <3>3. QED
      BY <3>1, <3>2
  <2>7. new.kind = "changed-paths" /\ new.reason \in DeepReasons
    BY <2>2, <2>4 DEF TasksCanCoalesce, DeepContinuation
  <2> HIDE DEF new
  <2>8. PendingTasks(r.scheduler) \subseteq PendingTasks(s) \cup {new}
    <3>1. \A k \in DOMAIN q : \/ k \in DOMAIN s.delayed /\ q[k].task = s.delayed[k].task
                              \/ q[k].task = new
      OBVIOUS
    <3> HIDE DEF q
    <3>2. QED
      BY <2>1, <3>1 DEF PendingTasks
  <2>9. QED
    BY <1>5, <2>1, <2>6, <2>7, <2>8
<1>9. ASSUME r = RetryAppended(c, t, delay)
      PROVE  Steady(s, r)
  <2> DEFINE new == Stamped(c, t)
             v   == [task |-> new, wait |-> delay]
             q   == Append(s.delayed, v)
  <2>1. r.scheduler.tasks = s.tasks /\ r.scheduler.delayed = q /\ r.scheduled = TRUE
    <3> DEFINE x == [c EXCEPT !.generation = Larger(c.generation, new.generation), !.delayed = q]
    <3>1. r = Result(x, {}, TRUE)
      BY <1>4, <1>9 DEF RetryAppended, Schedulers
    <3> HIDE DEF q, new
    <3>2. x.tasks = s.tasks /\ x.delayed = q
      BY <1>4 DEF Schedulers
    <3>3. QED
      BY <3>1, <3>2 DEF Result
  <2>2. new.kind = t.kind /\ new.reason = t.reason /\ new.priority = t.priority
    <3>1. new.priority = t.priority
      BY DEF Stamped, Numbered, Tasks
    <3>2. QED
      BY <3>1, NumberedSlot DEF TasksCanCoalesce
  <2>3. v \in Delayed
    BY StampedProperties DEF Delayed
  <2>4. \A k \in DOMAIN q : (k \in DOMAIN s.delayed /\ q[k] = s.delayed[k]) \/ q[k] = v
    BY <1>1, <2>3, AppendProperties, LenProperties
  <2>5. v.task = new
    OBVIOUS
  <2> HIDE DEF new, v, q
  <2>6. PendingTasks(r.scheduler) \subseteq PendingTasks(s) \cup {new}
    BY <2>1, <2>4, <2>5 DEF PendingTasks
  <2>7. QED
    BY <1>5, <1>6, <2>1, <2>2, <2>6
<1>10. QED
  BY <1>4, <1>7, <1>8, <1>9 DEF r

(* The calls a result schedules. *)
BuiltCalls == {c \in PlanCalls : Built(c.task)}

(* A call that builds a task keeps the order of the queue, whichever way it asks for it. *)
LEMMA CallSteady ==
  ASSUME NEW s, Ordered(s), NEW call \in BuiltCalls
  PROVE  Steady(s, CallResult(s, call))
<1> DEFINE t == call.task
<1>1. /\ call \in Calls /\ t \in Tasks /\ Built(t)
      /\ call.how = "retry" => DeepContinuation(t)
  BY DEF BuiltCalls, PlanCalls, Calls
<1>2. s \in Schedulers
  BY DEF Ordered
<1>3. CASE call.how = "schedule"
  BY <1>1, <1>3, ScheduleSteady DEF CallResult
<1>4. CASE call.how = "progress"
  <2> DEFINE c == ClearBackgroundRetry(s, t.root, t.reason)
  <2>1. CallResult(s, call) = ScheduleWithResult(c, t)
    BY <1>4 DEF CallResult
  <2>2. c = [s EXCEPT !.attempts = [s.attempts EXCEPT ![<<t.root, t.reason>>] = 0]]
    BY DEF ClearBackgroundRetry
  <2>3. [s.attempts EXCEPT ![<<t.root, t.reason>>] = 0] \in [Roots \X Reasons -> Nat]
    BY <1>2 DEF Schedulers
  <2> HIDE DEF c, t
  <2>4. /\ c \in Schedulers /\ c.generation = s.generation /\ c.burst = s.burst
        /\ c.tasks = s.tasks /\ c.delayed = s.delayed
    BY <1>2, <2>2, <2>3 DEF Schedulers
  <2>5. PendingTasks(c) = PendingTasks(s)
    BY <2>4 DEF PendingTasks
  <2>6. Ordered(c)
    BY <2>4, <2>5 DEF Ordered, SlotsHeld
  <2>7. Steady(c, ScheduleWithResult(c, t))
    BY <1>1, <2>6, ScheduleSteady
  <2>8. GoodResult(s, CallResult(s, call))
    BY <1>1, <1>2, CallProperties
  <2>9. QED
    BY <2>1, <2>4, <2>5, <2>7, <2>8 DEF Steady
<1>5. CASE call.how = "retry"
  BY <1>1, <1>5, RetrySteady DEF CallResult
<1>6. CASE call.how = "resume"
  <2>1. CASE CallResult(s, call) = Result(s, {}, FALSE)
    <3>1. GoodResult(s, CallResult(s, call))
      BY <1>1, <1>2, CallProperties
    <3>2. CallResult(s, call).scheduler = s /\ CallResult(s, call).superseded = {}
      BY <2>1 DEF Result
    <3>3. QED
      BY <3>1, <3>2 DEF Steady
  <2>2. CASE CallResult(s, call) = ScheduleWithResult(s, t)
    BY <1>1, <2>2, ScheduleSteady
  <2>3. QED
    BY <1>6, <2>1, <2>2 DEF CallResult
<1>7. QED
  BY <1>1, <1>3, <1>4, <1>5, <1>6 DEF Calls

-----------------------------------------------------------------------------
(* What the locals and the shared values look like.                          *)

Entries == [task : Tasks, cancelled : BOOLEAN,
            result : {"none", "ready", "reloaded", "failed", "superseded", "dropped"}]

BatchTasks == {batch[i].task : i \in DOMAIN batch}

(* The tasks of the batch are built and numbered as the pending ones were. *)
BatchOK ==
  /\ batch \in Seq(Entries)
  /\ \A i \in DOMAIN batch : /\ Built(batch[i].task)
                             /\ batch[i].task.generation \in 1..sched.generation

Running   == {"registered", "starting", "checking", "working", "ran"}
AtATask   == {"starting", "checking", "working", "marking"}
AfterMark == {"following", "reporting", "queued", "publishing"}

RunnerRecords == [pc : {"idle", "drained"} \cup Running \cup {"marking"} \cup AfterMark,
                  at : Nat, unplanned : SUBSET Nat, calls : Seq(BuiltCalls),
                  touched : SUBSET Roots, replaced : SUBSET Tasks, pending : SUBSET Tasks]

(* Where the runner is says whether there is a batch, whether its tokens are  *)
(* registered, and whether it holds tasks it has to report.                   *)
RunnerOK ==
  /\ runner \in RunnerRecords
  /\ runner.unplanned \subseteq DOMAIN batch
  /\ runner.pc \in AtATask => runner.at \in DOMAIN batch
  /\ runner.pc = "idle" <=> batch = <<>>
  /\ runner.replaced # {} => runner.pc = "following"
  /\ registered \in BOOLEAN
  /\ registered <=> runner.pc \in Running

(* A task that was run has a result. *)
ResultsKnown ==
  \A i \in DOMAIN batch :
    \/ runner.pc \in {"drained", "registered"}
    \/ runner.pc \in {"starting", "checking", "working"} /\ i >= runner.at
    \/ batch[i].result # "none"

CallersOK ==
  /\ caller \in [Callers -> [pc : {"idle", "lookup", "cancel", "replaced", "snapshot", "queued"},
                             request : SUBSET Tasks, latest : SUBSET Tasks,
                             replaced : SUBSET Tasks, pending : SUBSET Tasks]]
  /\ \A c \in Callers :
       /\ caller[c].pc = "idle" => caller[c] = IdleCaller
       /\ caller[c].pc # "idle" => \E t \in Tasks : caller[c].request = {t}
       /\ caller[c].replaced # {} => caller[c].pc \in {"lookup", "cancel", "replaced"}

FenceOK ==
  /\ fence \in [pc : {"idle", "drain", "cancel", "store", "operate"},
                root : SUBSET Roots, drained : SUBSET Tasks]
  /\ fence.root = {} <=> fence.pc = "idle"
  /\ fence.drained # {} => fence.pc \in {"cancel", "store"}
  /\ blocked = fence.root

RowIds == Nat \X (Kinds \cup {"discovery"})
GoodRows(r) == \A id \in DOMAIN r : id \in RowIds /\ r[id] \in Rows

HistoryOK == unreported \subseteq Tasks /\ outdated \subseteq Tasks /\ published \subseteq Tasks

Core ==
  /\ Ordered(sched)
  /\ BatchOK
  /\ RunnerOK
  /\ ResultsKnown
  /\ CallersOK
  /\ FenceOK
  /\ GoodRows(rows)
  /\ HistoryOK

-----------------------------------------------------------------------------
(* Rows.                                                                     *)

(* The row of a task is one the status store can hold. *)
LEMMA RowIdType ==
  ASSUME NEW t \in Tasks
  PROVE  RowId(t) \in RowIds
<1>1. t.generation \in Nat /\ t.kind \in Kinds
  BY DEF Tasks
<1>2. StatusKind(t) \in Kinds \cup {"discovery"}
  BY <1>1 DEF StatusKind
<1>3. QED
  BY <1>1, <1>2 DEF RowId, RowIds

(* Writing one row keeps the table typed ... *)
LEMMA WithRowType ==
  ASSUME NEW r, GoodRows(r), NEW t \in Tasks, NEW state \in Rows
  PROVE  GoodRows(WithRow(r, RowId(t), state))
<1>1. RowId(t) \in RowIds
  BY RowIdType
<1> DEFINE id == RowId(t)
<1> HIDE DEF id
<1>2. id \in RowIds
  BY <1>1 DEF id
<1>3. GoodRows(WithRow(r, id, state))
  BY <1>2 DEF GoodRows, WithRow
<1>4. QED
  BY <1>3 DEF id

(* ... and so does writing the rows of several tasks. *)
LEMMA WithRowsType ==
  ASSUME NEW r, GoodRows(r), NEW tasks \in SUBSET Tasks, NEW state \in Rows
  PROVE  GoodRows(WithRows(r, tasks, state))
<1> DEFINE ids == {RowId(t) : t \in tasks}
<1>1. ids \subseteq RowIds
  BY RowIdType
<1>2. WithRows(r, tasks, state) = [i \in DOMAIN r \cup ids |-> IF i \in ids THEN state ELSE r[i]]
  BY DEF WithRows
<1> HIDE DEF ids
<1>3. QED
  BY <1>1, <1>2 DEF GoodRows

(* The rows PublishResults leaves. *)
LEMMA PublishType ==
  ASSUME Core, NEW R, Publish(R), runner.pc = "publishing"
  PROVE  /\ GoodRows(rows')
         /\ published \subseteq published'
         /\ published' \subseteq published \cup BatchTasks
         /\ \A i \in DOMAIN batch : batch[i].task \in published' \ published =>
              \E j \in DOMAIN batch : /\ batch[j].task = batch[i].task
                                      /\ batch[j].result \notin {"dropped", "superseded"}
<1> DEFINE I   == {i \in DOMAIN batch : batch[i].result # "dropped" /\ batch[i].task.root \in R}
           ids == {ResultId(batch[i]) : i \in I}
<1>1. /\ rows' = [id \in DOMAIN rows \cup ids |->
                    IF id \in ids
                    THEN ResultState(batch[CHOOSE i \in I : ResultId(batch[i]) = id])
                    ELSE rows[id]]
      /\ published' = published \cup
           {batch[i].task : i \in {j \in I : batch[j].result # "superseded"}}
  BY DEF Publish
<1>2. ASSUME NEW i \in I
      PROVE  ResultId(batch[i]) \in RowIds /\ ResultState(batch[i]) \in Rows
  <2>1. batch[i] \in Entries
    BY LenProperties, ElementOfSeq DEF Core, BatchOK
  <2>2. batch[i].task \in Tasks /\ batch[i].result \in {"ready", "reloaded", "failed", "superseded"}
    BY <2>1 DEF Core, ResultsKnown, Entries
  <2>3. ResultState(batch[i]) \in Rows
    BY <2>2 DEF ResultState, Rows
  <2>4. RowId(batch[i].task) \in RowIds
    BY <2>2, RowIdType
  <2>5. <<batch[i].task.generation, batch[i].task.kind>> \in RowIds
    BY <2>2 DEF RowIds, Tasks
  <2>6. QED
    BY <2>3, <2>4, <2>5 DEF ResultId
<1>3. \A id \in ids : /\ id \in RowIds
                      /\ (CHOOSE i \in I : ResultId(batch[i]) = id) \in I
  BY <1>2
<1>4. \A id \in ids : ResultState(batch[CHOOSE i \in I : ResultId(batch[i]) = id]) \in Rows
  BY <1>2, <1>3
<1>5. GoodRows(rows')
  <2> HIDE DEF I, ids
  <2>1. GoodRows(rows)
    BY DEF Core
  <2>2. QED
    BY <1>1, <1>3, <1>4, <2>1 DEF GoodRows
<1>6. published' \subseteq published \cup BatchTasks
  BY <1>1 DEF BatchTasks
<1>7. QED
  BY <1>1, <1>5, <1>6

-----------------------------------------------------------------------------
(* Every step keeps Core: first what steps have in common.                    *)

(* What every later step takes from Core, in the form the leaves use it. *)
LEMMA CoreFacts ==
  ASSUME Core
  PROVE  /\ sched \in Schedulers /\ sched.generation \in Nat
         /\ PendingTasks(sched) \subseteq Tasks
         /\ DOMAIN batch = 1..Len(batch) /\ Len(batch) \in Nat
         /\ batch = [i \in DOMAIN batch |-> batch[i]]
         /\ \A i \in DOMAIN batch : batch[i] \in Entries /\ batch[i].task \in Tasks
         /\ BatchTasks \subseteq Tasks
         /\ runner.pc # "idle" => 1 \in DOMAIN batch
<1>1. sched \in Schedulers
  BY DEF Core, Ordered
<1>2. sched.generation \in Nat /\ PendingTasks(sched) \subseteq Tasks
  BY <1>1, PendingType DEF Schedulers
<1>3. batch \in Seq(Entries)
  BY DEF Core, BatchOK
<1>4. /\ DOMAIN batch = 1..Len(batch) /\ Len(batch) \in Nat
      /\ \A i \in DOMAIN batch : batch[i] \in Entries
  BY <1>3, LenProperties, ElementOfSeq
<1>5. \A i \in DOMAIN batch : batch[i].task \in Tasks
  BY <1>4 DEF Entries
<1>6. batch = [i \in DOMAIN batch |-> batch[i]]
  BY <1>3
<1>7. runner.pc # "idle" => 1 \in DOMAIN batch
  <2>1. runner.pc # "idle" => Len(batch) # 0
    BY <1>3, EmptySeq DEF Core, RunnerOK, RunnerRecords
  <2>2. QED
    BY <1>4, <2>1
<1>8. QED
  BY <1>1, <1>2, <1>4, <1>5, <1>6, <1>7 DEF BatchTasks

(* A step that changes what is known of the tasks of the batch, not the tasks.*)
Retouched ==
  /\ batch' = [i \in DOMAIN batch |-> batch'[i]]
  /\ \A i \in DOMAIN batch : batch'[i] \in Entries /\ batch'[i].task = batch[i].task

(* A step that only touches results, marks and the scheduler keeps the batch of the runner in order. *)
LEMMA BatchStays ==
  ASSUME Core, Retouched, sched'.generation \in Nat, sched'.generation >= sched.generation
  PROVE  /\ BatchOK'
         /\ DOMAIN batch' = DOMAIN batch /\ Len(batch') = Len(batch)
         /\ batch' = <<>> <=> batch = <<>>
         /\ BatchTasks' = BatchTasks
<1>1. DOMAIN batch = 1..Len(batch) /\ Len(batch) \in Nat /\ sched.generation \in Nat
  BY CoreFacts
<1>2. DOMAIN batch' = DOMAIN batch
  BY DEF Retouched
<1>3. batch' \in [1..Len(batch) -> Entries]
  BY <1>1 DEF Retouched
<1>4. batch' \in Seq(Entries)
  BY <1>1, <1>3, SeqDef
<1>5. Len(batch') = Len(batch)
  BY <1>1, <1>2, <1>4, LenProperties
<1>6. batch' = <<>> <=> batch = <<>>
  BY <1>4, <1>5, EmptySeq DEF Core, BatchOK
<1>7. BatchTasks' = BatchTasks
  BY <1>2 DEF BatchTasks, Retouched
<1>8. \A i \in DOMAIN batch' : /\ Built(batch'[i].task)
                               /\ batch'[i].task.generation \in 1..sched'.generation
  <2> SUFFICES ASSUME NEW i \in DOMAIN batch
               PROVE  /\ Built(batch[i].task)
                      /\ batch[i].task.generation \in 1..sched'.generation
    BY <1>2 DEF Retouched
  <2>1. Built(batch[i].task) /\ batch[i].task.generation \in 1..sched.generation
    BY DEF Core, BatchOK
  <2>2. QED
    BY <1>1, <2>1
<1>9. BatchOK'
  BY <1>4, <1>8 DEF BatchOK
<1>10. QED
  BY <1>2, <1>5, <1>6, <1>7, <1>9

(* Leaving the batch alone is the weakest way of touching it. *)
LEMMA UnchangedRetouches ==
  ASSUME Core, batch' = batch
  PROVE  Retouched
BY CoreFacts DEF Retouched

(* Cancelling tokens: no result changes and no token is taken back. *)
LEMMA CancelAtRetouches ==
  ASSUME Core, NEW I, CancelAt(I)
  PROVE  /\ Retouched
         /\ \A i \in DOMAIN batch : /\ batch'[i].result = batch[i].result
                                    /\ batch[i].cancelled => batch'[i].cancelled
                                    /\ registered /\ i \in I => batch'[i].cancelled
<1>1. \A i \in DOMAIN batch : batch[i] \in Entries
  BY CoreFacts
<1>2. /\ DOMAIN batch' = DOMAIN batch
      /\ \A i \in DOMAIN batch :
           batch'[i] = IF registered /\ i \in I THEN [batch[i] EXCEPT !.cancelled = TRUE] ELSE batch[i]
      /\ batch' = [i \in DOMAIN batch |-> batch'[i]]
  BY DEF CancelAt
<1>3. \A i \in DOMAIN batch : /\ batch'[i] \in Entries /\ batch'[i].task = batch[i].task
                              /\ batch'[i].result = batch[i].result
                              /\ batch[i].cancelled => batch'[i].cancelled
                              /\ registered /\ i \in I => batch'[i].cancelled
  <2> SUFFICES ASSUME NEW i \in DOMAIN batch
               PROVE  /\ batch'[i] \in Entries /\ batch'[i].task = batch[i].task
                      /\ batch'[i].result = batch[i].result
                      /\ batch[i].cancelled => batch'[i].cancelled
                      /\ registered /\ i \in I => batch'[i].cancelled
    OBVIOUS
  <2>1. CASE registered /\ i \in I
    <3>1. batch'[i] = [batch[i] EXCEPT !.cancelled = TRUE]
      BY <1>2, <2>1
    <3>2. batch'[i].cancelled = TRUE
      BY <1>1, <3>1 DEF Entries
    <3>3. QED
      BY <1>1, <3>1, <3>2 DEF Entries
  <2>2. CASE ~(registered /\ i \in I)
    <3>1. batch'[i] = batch[i]
      BY <1>2, <2>2
    <3>2. QED
      BY <1>1, <2>2, <3>1
  <2>3. QED
    BY <2>1, <2>2
<1>4. QED
  BY <1>2, <1>3 DEF Retouched

(* The result of the current task. *)
Results == {"ready", "reloaded", "failed", "superseded", "dropped"}

(* Finishing a task changes its own entry and its result only. *)
LEMMA FinishRetouches ==
  ASSUME Core, runner.pc \in {"starting", "checking", "working"}, NEW result \in Results, Finish(result)
  PROVE  /\ Retouched
         /\ \A i \in DOMAIN batch :
              /\ batch'[i].cancelled = batch[i].cancelled
              /\ batch'[i].result = IF i = runner.at THEN result ELSE batch[i].result
<1>1. \A i \in DOMAIN batch : batch[i] \in Entries
  BY CoreFacts
<1>2. /\ DOMAIN batch' = DOMAIN batch
      /\ \A i \in DOMAIN batch :
           batch'[i] = IF i = runner.at THEN [batch[i] EXCEPT !.result = result] ELSE batch[i]
      /\ batch' = [i \in DOMAIN batch |-> batch'[i]]
  BY DEF Finish
<1>3. \A i \in DOMAIN batch : /\ batch'[i] \in Entries /\ batch'[i].task = batch[i].task
                              /\ batch'[i].cancelled = batch[i].cancelled
                              /\ batch'[i].result = IF i = runner.at THEN result ELSE batch[i].result
  BY <1>1, <1>2 DEF Entries, Results
<1>4. QED
  BY <1>2, <1>3 DEF Retouched

(* A scheduling call. *)
LEMMA ScheduledStep ==
  ASSUME Core, NEW r, Steady(sched, r), Scheduled(r), batch' = batch, published' = published
  PROVE  Ordered(sched') /\ BatchOK' /\ HistoryOK'
<1>1. sched' = r.scheduler /\ Ordered(sched')
  BY DEF Scheduled, Steady
<1>2. sched'.generation \in Nat /\ sched'.generation >= sched.generation
  BY <1>1 DEF Steady, GoodResult, Ordered, Schedulers
<1>3. BatchOK'
  BY <1>2, UnchangedRetouches, BatchStays
<1>4. unreported' \subseteq Tasks
  <2>1. PendingTasks(r.scheduler) \subseteq Tasks
    BY <1>1, PendingType DEF Ordered
  <2>2. QED
    BY <2>1 DEF Scheduled, Core, HistoryOK
<1>5. outdated' \subseteq Tasks
  <2>1. Unmarked \subseteq Tasks
    BY CoreFacts DEF Unmarked
  <2>2. QED
    BY <2>1 DEF Scheduled, Core, HistoryOK
<1>6. QED
  BY <1>1, <1>3, <1>4, <1>5 DEF Core, HistoryOK

-----------------------------------------------------------------------------
(* Callers.                                                                  *)

CallerRecords == [pc : {"idle", "lookup", "cancel", "replaced", "snapshot", "queued"},
                  request : SUBSET Tasks, latest : SUBSET Tasks,
                  replaced : SUBSET Tasks, pending : SUBSET Tasks]

GoodCaller(v) ==
  /\ v \in CallerRecords
  /\ v.pc = "idle" => v = IdleCaller
  /\ v.pc # "idle" => \E t \in Tasks : v.request = {t}
  /\ v.replaced # {} => v.pc \in {"lookup", "cancel", "replaced"}

(* The callers, one by one. *)
LEMMA CallersRestated ==
  CallersOK <=> /\ caller \in [Callers -> CallerRecords]
                /\ \A c \in Callers : GoodCaller(caller[c])
BY DEF CallersOK, GoodCaller, CallerRecords

(* A caller that moves to a good record leaves the other callers good. *)
LEMMA CallerMoves ==
  ASSUME Core, NEW c \in Callers, NEW v, GoodCaller(v), caller' = [caller EXCEPT ![c] = v]
  PROVE  CallersOK'
<1>1. /\ caller \in [Callers -> CallerRecords]
      /\ \A d \in Callers : GoodCaller(caller[d])
  BY CallersRestated DEF Core
<1>2. v \in CallerRecords
  BY DEF GoodCaller
<1>3. /\ caller' \in [Callers -> CallerRecords]
      /\ \A d \in Callers : GoodCaller(caller'[d])
  BY <1>1, <1>2
<1>4. QED
  BY <1>3 DEF CallersOK, GoodCaller, CallerRecords

(* What callers ask for is built. *)
LEMMA RequestsAreBuilt ==
  ASSUME NEW root \in Roots, NEW t \in Requests(root)
  PROVE  t \in Tasks /\ Built(t)
<1>1. CASE t \in WorkspaceRequests(root)
  <2>1. {} \in SUBSET Paths /\ 0 \in Nat
    OBVIOUS
  <2>2. t \in Tasks
    BY <1>1, <2>1, BuiltTasks DEF WorkspaceRequests
  <2>3. Built(t)
    BY <1>1, BuiltShape DEF WorkspaceRequests
  <2>4. QED
    BY <2>2, <2>3
<1>2. CASE t \in PathRequests(root)
  <2>1. t \in Tasks
    BY <1>2, PathRequestType
  <2>2. CASE \E paths \in SomeOf(Paths) : t = WatcherTask(root, paths)
    BY <2>1, <2>2, BuiltShape
  <2>3. CASE \E reason \in DOMAIN HintPriority : t \in HintRequests(root, reason)
    <3>1. PICK reason \in DOMAIN HintPriority : t \in HintRequests(root, reason)
      BY <2>3
    <3>2. PICK path \in Paths : t = HintTask(root, {path}, reason)
      BY <3>1 DEF HintRequests
    <3>3. QED
      BY <2>1, <3>2, BuiltShape
  <2>4. QED
    BY <1>2, <2>1, <2>2, <2>3 DEF PathRequests
<1>3. QED
  BY <1>1, <1>2 DEF Requests

(* A call on the scheduler, and what the caller keeps of it. *)
LEMMA ScheduleCalls ==
  ASSUME Core, NEW c \in Callers, Schedule(c)
  PROVE  \E r, t : /\ Steady(sched, r) /\ Scheduled(r)
                   /\ caller[c] = IdleCaller
                   /\ \/ caller' = [caller EXCEPT ![c] = IdleCaller] /\ r.superseded = {}
                      \/ /\ caller' = [caller EXCEPT ![c] =
                              [IdleCaller EXCEPT !.pc = "lookup", !.request = {t},
                                                 !.replaced = r.superseded]]
                         /\ t \in Tasks
<1>0. PICK root \in Roots : \E t \in Requests(root) :
        LET r == ScheduleWithResult(sched, t)
        IN  /\ Scheduled(r)
            /\ caller' = [caller EXCEPT ![c] =
                 IF t.kind = "changed-paths" /\ ~r.scheduled THEN IdleCaller
                 ELSE [IdleCaller EXCEPT !.pc = "lookup", !.request = {t}, !.replaced = r.superseded]]
  BY DEF Schedule
<1>1. PICK t \in Requests(root) :
        LET r == ScheduleWithResult(sched, t)
        IN  /\ Scheduled(r)
            /\ caller' = [caller EXCEPT ![c] =
                 IF t.kind = "changed-paths" /\ ~r.scheduled THEN IdleCaller
                 ELSE [IdleCaller EXCEPT !.pc = "lookup", !.request = {t}, !.replaced = r.superseded]]
  BY <1>0
<1>2. t \in Tasks /\ Built(t)
  BY RequestsAreBuilt
<1> DEFINE r == ScheduleWithResult(sched, t)
<1>3. Steady(sched, r)
  BY <1>2, ScheduleSteady DEF Core
<1>4. ~r.scheduled => r.superseded = {}
  BY <1>3 DEF Steady
<1>5. caller[c] = IdleCaller
  BY DEF Schedule, Core, CallersOK
<1> HIDE DEF r
<1>6. QED
  BY <1>1, <1>2, <1>3, <1>4, <1>5 DEF r

(* A caller asks for work under the lock of the scheduler. *)
LEMMA ScheduleCore ==
  ASSUME Core, NEW c \in Callers, Schedule(c)
  PROVE  Core'
<1>1. PICK r, t : /\ Steady(sched, r) /\ Scheduled(r)
                  /\ \/ caller' = [caller EXCEPT ![c] = IdleCaller]
                     \/ /\ caller' = [caller EXCEPT ![c] =
                             [IdleCaller EXCEPT !.pc = "lookup", !.request = {t},
                                                !.replaced = r.superseded]]
                        /\ t \in Tasks
  BY ScheduleCalls
<1>2. UNCHANGED <<blocked, batch, registered, rows, runner, fence, published>>
  BY DEF Schedule
<1>3. Ordered(sched') /\ BatchOK' /\ HistoryOK'
  BY <1>1, <1>2, ScheduledStep
<1>4. r.superseded \in SUBSET Tasks
  BY <1>1 DEF Steady, GoodResult
<1>5. GoodCaller(IdleCaller)
  BY DEF GoodCaller, CallerRecords, IdleCaller
<1>6. t \in Tasks => GoodCaller([IdleCaller EXCEPT !.pc = "lookup", !.request = {t},
                                                   !.replaced = r.superseded])
  BY <1>4 DEF GoodCaller, CallerRecords, IdleCaller
<1>7. CallersOK'
  BY <1>1, <1>5, <1>6, CallerMoves
<1>8. RunnerOK' /\ ResultsKnown' /\ FenceOK' /\ GoodRows(rows')
  BY <1>2 DEF Core, RunnerOK, RunnerRecords, ResultsKnown, FenceOK
<1>9. QED
  BY <1>3, <1>7, <1>8 DEF Core

(* The steps of a caller after its call: it reads the pending tasks, cancels  *)
(* tokens and writes rows.                                                    *)
LEMMA LookupCore ==
  ASSUME Core, NEW c \in Callers, Lookup(c)
  PROVE  Core'
<1> DEFINE same == {t \in PendingTasks(sched) : \E asked \in caller[c].request : SameWork(t, asked)}
           v    == [caller[c] EXCEPT !.pc = IF same = {} THEN "replaced" ELSE "cancel",
                                     !.latest = IF same = {} THEN {} ELSE {Latest(same)}]
<1>1. GoodCaller(caller[c]) /\ caller[c].pc = "lookup"
  BY CallersRestated DEF Core, Lookup
<1>2. caller' = [caller EXCEPT ![c] = v]
  BY DEF Lookup
<1>3. same # {} => Latest(same) \in Tasks
  <2>1. same \subseteq Tasks /\ \A t \in same : t.generation \in 1..sched.generation
    BY CoreFacts DEF Core, Ordered
  <2>2. sched.generation \in Nat
    BY CoreFacts
  <2> HIDE DEF same
  <2>3. ASSUME same # {}
        PROVE  \E t \in same : \A u \in same : u.generation <= t.generation
    <3> DEFINE G == {t.generation : t \in same}
    <3>1. G \in SUBSET (1..sched.generation) /\ G # {}
      BY <2>1, <2>3
    <3> HIDE DEF G
    <3>2. PICK g \in G : \A h \in G : h <= g
      BY <2>2, <3>1, LastProperties
    <3>3. QED
      BY <3>2 DEF G
  <2>4. QED
    BY <2>1, <2>3 DEF Latest
<1> HIDE DEF same
<1>4. GoodCaller(v)
  BY <1>1, <1>3 DEF GoodCaller, CallerRecords
<1>5. CallersOK'
  BY <1>2, <1>4, CallerMoves
<1>6. UNCHANGED <<sched, blocked, batch, registered, rows, runner, fence, history>>
  BY DEF Lookup
<1>7. QED
  BY <1>5, <1>6 DEF Core, BatchOK, RunnerOK, RunnerRecords, ResultsKnown, FenceOK, HistoryOK, history

(* A caller cancels the tokens of the tasks its request replaced. *)
LEMMA CancelCore ==
  ASSUME Core, NEW c \in Callers, Cancel(c)
  PROVE  Core'
<1> DEFINE v == [caller[c] EXCEPT !.pc = "replaced"]
<1>1. GoodCaller(caller[c]) /\ caller[c].pc = "cancel"
  BY CallersRestated DEF Core, Cancel
<1>2. caller' = [caller EXCEPT ![c] = v]
  BY DEF Cancel
<1>3. GoodCaller(v)
  BY <1>1 DEF GoodCaller, CallerRecords
<1>4. CallersOK'
  BY <1>2, <1>3, CallerMoves
<1>5. PICK I : CancelAt(I)
  BY DEF Cancel
<1>6. Retouched /\ \A i \in DOMAIN batch : batch'[i].result = batch[i].result
  BY <1>5, CancelAtRetouches
<1>7. UNCHANGED <<sched, blocked, registered, rows, runner, fence, history>>
  BY DEF Cancel
<1>8. /\ BatchOK' /\ DOMAIN batch' = DOMAIN batch /\ Len(batch') = Len(batch)
      /\ batch' = <<>> <=> batch = <<>>
  BY <1>6, <1>7, CoreFacts, BatchStays
<1>9. RunnerOK' /\ ResultsKnown'
  BY <1>6, <1>7, <1>8 DEF Core, RunnerOK, RunnerRecords, ResultsKnown
<1>10. QED
  BY <1>4, <1>7, <1>8, <1>9 DEF Core, FenceOK, HistoryOK, history

(* A caller stores the replaced rows, or fails to. *)
LEMMA StoreReplacedCore ==
  ASSUME Core, NEW c \in Callers, StoreReplaced(c) \/ StoreReplacedFails(c)
  PROVE  Core'
<1>1. GoodCaller(caller[c]) /\ caller[c].pc = "replaced"
  BY CallersRestated DEF Core, StoreReplaced, StoreReplacedFails
<1>2. ReplacedState(c) \in Rows /\ caller[c].replaced \in SUBSET Tasks
  BY <1>1 DEF ReplacedState, Rows, GoodCaller, CallerRecords
<1>3. \E some \in SUBSET caller[c].replaced : rows' = WithRows(rows, some, ReplacedState(c))
  BY DEF StoreReplaced, StoreReplacedFails
<1>4. GoodRows(rows')
  BY <1>2, <1>3, WithRowsType DEF Core
<1>5. \E v : GoodCaller(v) /\ caller' = [caller EXCEPT ![c] = v]
  <2> DEFINE v == [caller[c] EXCEPT !.pc = "snapshot", !.replaced = {}]
  <2>1. GoodCaller(v) /\ GoodCaller(IdleCaller)
    BY <1>1 DEF GoodCaller, CallerRecords, IdleCaller
  <2>2. caller' = [caller EXCEPT ![c] = v] \/ caller' = [caller EXCEPT ![c] = IdleCaller]
    BY DEF StoreReplaced, StoreReplacedFails
  <2>3. QED
    BY <2>1, <2>2
<1>6. CallersOK'
  BY <1>5, CallerMoves
<1>7. /\ UNCHANGED <<sched, blocked, batch, registered, runner, fence, outdated, published>>
      /\ unreported' \subseteq unreported
  BY DEF StoreReplaced, StoreReplacedFails, Reported
<1>8. QED
  BY <1>4, <1>6, <1>7 DEF Core, BatchOK, RunnerOK, RunnerRecords, ResultsKnown, FenceOK, HistoryOK

(* A caller takes its snapshot of the queue and stores the queued rows. *)
LEMMA SnapshotCore ==
  ASSUME Core, NEW c \in Callers, Snapshot(c) \/ StoreQueued(c)
  PROVE  Core'
<1>1. GoodCaller(caller[c]) /\ caller[c].pc \in {"snapshot", "queued"}
  BY CallersRestated DEF Core, Snapshot, StoreQueued
<1>2. GoodRows(rows')
  <2>1. rows' = rows \/ rows' = WithRows(rows, caller[c].pending, "queued")
    BY DEF Snapshot, StoreQueued
  <2>2. caller[c].pending \in SUBSET Tasks /\ "queued" \in Rows
    BY <1>1 DEF GoodCaller, CallerRecords, Rows
  <2>3. QED
    BY <2>1, <2>2, WithRowsType DEF Core
<1>3. \E v : GoodCaller(v) /\ caller' = [caller EXCEPT ![c] = v]
  <2> DEFINE waiting == {t \in PendingTasks(sched) : \E asked \in caller[c].request : t.root = asked.root}
             v       == [caller[c] EXCEPT !.pc = "queued", !.pending = waiting]
  <2>1. \/ caller' = [caller EXCEPT ![c] = v] /\ caller[c].pc = "snapshot"
        \/ caller' = [caller EXCEPT ![c] = IdleCaller]
    BY DEF Snapshot, StoreQueued
  <2>2. waiting \in SUBSET Tasks
    BY CoreFacts
  <2> HIDE DEF waiting
  <2>3. caller[c].pc = "snapshot" => GoodCaller(v)
    BY <1>1, <2>2 DEF GoodCaller, CallerRecords
  <2>4. GoodCaller(IdleCaller)
    BY DEF GoodCaller, CallerRecords, IdleCaller
  <2>5. QED
    BY <2>1, <2>3, <2>4
<1>4. CallersOK'
  BY <1>3, CallerMoves
<1>5. UNCHANGED <<sched, blocked, batch, registered, runner, fence, history>>
  BY DEF Snapshot, StoreQueued
<1>6. QED
  BY <1>2, <1>4, <1>5 DEF Core, BatchOK, RunnerOK, RunnerRecords, ResultsKnown, FenceOK, HistoryOK, history

(* Every step of a caller keeps Core. *)
LEMMA CallerCore ==
  ASSUME Core, NEW c \in Callers, CallerStep(c)
  PROVE  Core'
BY ScheduleCore, LookupCore, CancelCore, StoreReplacedCore, SnapshotCore DEF CallerStep

-----------------------------------------------------------------------------
(* The fence.                                                                *)

(* The maintenance fence blocks its root ... *)
LEMMA BlockRootCore ==
  ASSUME Core, NEW root \in Maintained, BlockRoot(root)
  PROVE  Core'
<1>1. root \in Roots
  BY ManagerAssumption
<1>2. /\ fence.pc = "idle" /\ fence' = [fence EXCEPT !.pc = "drain", !.root = {root}]
      /\ blocked' = blocked \cup {root} /\ blocked = {}
  BY DEF BlockRoot, Core, FenceOK
<1>3. FenceOK'
  BY <1>1, <1>2 DEF Core, FenceOK
<1>4. UNCHANGED <<sched, batch, registered, rows, runner, caller, history>>
  BY DEF BlockRoot
<1>5. QED
  BY <1>3, <1>4 DEF Core, BatchOK, RunnerOK, RunnerRecords, ResultsKnown, CallersOK, HistoryOK, history

(* Draining a root leaves fewer tasks, and those as they were. *)
LEMMA DrainRootOrdered ==
  ASSUME NEW s, Ordered(s), NEW root \in Roots
  PROVE  /\ Ordered(DrainTasksForRoot(s, root))
         /\ DrainTasksForRoot(s, root).generation = s.generation
         /\ PendingTasks(DrainTasksForRoot(s, root)) = {t \in PendingTasks(s) : t.root # root}
<1> DEFINE d == DrainTasksForRoot(s, root)
<1>1. /\ d \in Schedulers /\ d.generation = s.generation
      /\ PendingTasks(d) = {t \in PendingTasks(s) : t.root # root}
      /\ SlotsHeld(d)
  BY DrainRootProperties, DrainRootKeepsSlots DEF Ordered
<1> HIDE DEF d
<1>2. QED
  BY <1>1 DEF Ordered, d

(* ... takes the waiting tasks of the root out of the scheduler ... *)
LEMMA DrainRootCore ==
  ASSUME Core, NEW root \in Maintained, DrainRoot(root)
  PROVE  Core'
<1>1. root \in Roots
  BY ManagerAssumption
<1>2. /\ sched' = DrainTasksForRoot(sched, root) /\ fence.pc = "drain"
      /\ fence' = [fence EXCEPT !.pc = "cancel", !.drained = PendingTasksForRoot(sched, root)]
      /\ outdated' \subseteq outdated
      /\ UNCHANGED <<blocked, batch, registered, rows, runner, caller, unreported, published>>
  BY DEF DrainRoot
<1>3. Ordered(sched') /\ sched'.generation = sched.generation
  BY <1>1, <1>2, DrainRootOrdered DEF Core
<1>4. PendingTasksForRoot(sched, root) \in SUBSET Tasks
  BY CoreFacts DEF PendingTasksForRoot
<1>5. FenceOK'
  BY <1>2, <1>4 DEF Core, FenceOK
<1>6. QED
  BY <1>2, <1>3, <1>5 DEF Core, BatchOK, RunnerOK, RunnerRecords, ResultsKnown, CallersOK, HistoryOK

(* ... cancels the running ones ... *)
LEMMA CancelRootCore ==
  ASSUME Core, NEW root \in Maintained, CancelRoot(root)
  PROVE  Core'
<1>1. PICK I : CancelAt(I)
  BY DEF CancelRoot
<1>2. Retouched /\ \A i \in DOMAIN batch : batch'[i].result = batch[i].result
  BY <1>1, CancelAtRetouches
<1>3. /\ UNCHANGED <<sched, blocked, registered, rows, runner, caller, history>>
      /\ fence.pc = "cancel" /\ fence' = [fence EXCEPT !.pc = "store"]
  BY DEF CancelRoot
<1>4. /\ BatchOK' /\ DOMAIN batch' = DOMAIN batch /\ Len(batch') = Len(batch)
      /\ batch' = <<>> <=> batch = <<>>
  BY <1>2, <1>3, CoreFacts, BatchStays
<1>5. RunnerOK' /\ ResultsKnown'
  BY <1>2, <1>3, <1>4 DEF Core, RunnerOK, RunnerRecords, ResultsKnown
<1>6. FenceOK'
  BY <1>3 DEF Core, FenceOK
<1>7. QED
  BY <1>3, <1>4, <1>5, <1>6 DEF Core, CallersOK, HistoryOK, history

(* ... stores the cancelled rows, or fails to, and opens the root again. *)
LEMMA FenceEndsCore ==
  ASSUME Core, StoreCancelled \/ StoreCancelledFails \/ FinishMaintenance
  PROVE  Core'
<1>1. /\ UNCHANGED <<sched, batch, registered, runner, caller, outdated, published>>
      /\ unreported' \subseteq unreported
  BY DEF StoreCancelled, StoreCancelledFails, FinishMaintenance, Reported, history
<1>2. GoodRows(rows')
  <2>1. rows' = rows \/ \E some \in SUBSET fence.drained : rows' = WithRows(rows, some, "cancelled")
    BY DEF StoreCancelled, StoreCancelledFails, FinishMaintenance
  <2>2. fence.drained \in SUBSET Tasks /\ "cancelled" \in Rows
    BY DEF Core, FenceOK, Rows
  <2>3. QED
    BY <2>1, <2>2, WithRowsType DEF Core
<1>3. CASE StoreCancelled
  <2>1. FenceOK'
    BY <1>3 DEF StoreCancelled, Core, FenceOK
  <2>2. QED
    BY <1>1, <1>2, <2>1 DEF Core, BatchOK, RunnerOK, RunnerRecords, ResultsKnown, CallersOK, HistoryOK
<1>4. CASE StoreCancelledFails \/ FinishMaintenance
  <2>1. blocked' = blocked \ fence.root /\ fence' = IdleFence
    BY <1>4 DEF StoreCancelledFails, FinishMaintenance
  <2>2. blocked = fence.root
    BY DEF Core, FenceOK
  <2>3. FenceOK'
    BY <2>1, <2>2 DEF FenceOK, IdleFence
  <2>4. QED
    BY <1>1, <1>2, <2>3 DEF Core, BatchOK, RunnerOK, RunnerRecords, ResultsKnown, CallersOK, HistoryOK
<1>5. QED
  BY <1>3, <1>4

(* Every step of the fence keeps Core. *)
LEMMA FenceCore ==
  ASSUME Core, FenceStep
  PROVE  Core'
BY BlockRootCore, DrainRootCore, CancelRootCore, FenceEndsCore DEF FenceStep

-----------------------------------------------------------------------------
(* The runner.                                                               *)

(* Time that passes makes retries due, and changes no task. *)
LEMMA AllDueOrdered ==
  ASSUME NEW s, Ordered(s)
  PROVE  /\ Ordered(AllDue(s)) /\ AllDue(s).generation = s.generation
         /\ PendingTasks(AllDue(s)) = PendingTasks(s)
<1> DEFINE q == [i \in DOMAIN s.delayed |-> [s.delayed[i] EXCEPT !.wait = 0]]
           d == AllDue(s)
<1>1. s \in Schedulers /\ s.delayed \in Seq(Delayed)
  BY DEF Ordered, Schedulers
<1>2. d = [s EXCEPT !.delayed = q]
  BY DEF AllDue
<1>3. Len(s.delayed) \in Nat /\ DOMAIN s.delayed = 1..Len(s.delayed)
  BY <1>1, LenProperties
<1>4. \A i \in DOMAIN s.delayed : q[i] \in Delayed /\ q[i].task = s.delayed[i].task
  <2> SUFFICES ASSUME NEW i \in DOMAIN s.delayed
               PROVE  q[i] \in Delayed /\ q[i].task = s.delayed[i].task
    OBVIOUS
  <2>1. s.delayed[i] \in Delayed
    BY <1>1, <1>3, ElementOfSeq
  <2>2. QED
    BY <2>1 DEF Delayed
<1>5. q \in Seq(Delayed) /\ DOMAIN q = DOMAIN s.delayed
  <2>1. q \in [1..Len(s.delayed) -> Delayed]
    BY <1>3, <1>4
  <2>2. QED
    BY <1>3, <2>1, SeqDef
<1> HIDE DEF q, d
<1>6. /\ d \in Schedulers /\ d.generation = s.generation
      /\ d.tasks = s.tasks /\ d.delayed = q
  BY <1>1, <1>2, <1>5 DEF Schedulers
<1>7. PendingTasks(d) = PendingTasks(s)
  BY <1>4, <1>5, <1>6 DEF PendingTasks
<1>8. SlotsHeld(d)
  BY <1>4, <1>5, <1>6 DEF Ordered, SlotsHeld
<1>9. QED
  BY <1>6, <1>7, <1>8 DEF Ordered, d

(* A drain takes tasks of distinct slots, and what it leaves in the scheduler stays in order. *)
LEMMA DrainOrdered ==
  ASSUME NEW s, Ordered(s)
  PROVE  LET d == DrainReadyBatch(s, BatchSize)
         IN  /\ Ordered(d.scheduler) /\ d.scheduler.generation = s.generation
             /\ d.batch \in Seq(Tasks) /\ OnePerSlot(d.batch)
             /\ Elements(d.batch) \cup PendingTasks(d.scheduler) = PendingTasks(s)
<1> DEFINE d == DrainReadyBatch(s, BatchSize)
<1>1. s \in Schedulers /\ SlotsHeld(s) /\ BatchSize \in Nat \ {0}
  BY ManagerAssumption DEF Ordered
<1>2. /\ d.scheduler \in Schedulers /\ d.scheduler.generation = s.generation
      /\ d.batch \in Seq(Tasks)
      /\ Elements(d.batch) \cup PendingTasks(d.scheduler) = PendingTasks(s)
  BY <1>1, DrainProperties
<1>3. SlotsHeld(d.scheduler) /\ OnePerSlot(d.batch)
  BY <1>1, DrainKeepsSlots
<1> HIDE DEF d
<1>4. Ordered(d.scheduler)
  BY <1>2, <1>3 DEF Ordered
<1>5. QED
  BY <1>2, <1>3, <1>4 DEF d

(* No two tasks of the batch share a slot, deep continuations apart. *)
BatchSlots == OnePerSlot([i \in DOMAIN batch |-> batch[i].task])

(* A drain: what was pending is in the batch or still pending. *)
LEMMA DrainBatchFacts ==
  ASSUME Core, DrainBatch
  PROVE  /\ Ordered(sched') /\ sched'.generation = sched.generation
         /\ BatchOK' /\ BatchSlots'
         /\ batch' # <<>>
         /\ BatchTasks' \cup PendingTasks(sched') = PendingTasks(sched)
<1>1. PICK s \in {sched, AllDue(sched)} :
        LET d == DrainReadyBatch(s, BatchSize)
        IN  /\ d.batch # <<>>
            /\ sched' = d.scheduler
            /\ batch' = [i \in DOMAIN d.batch |->
                           [task |-> d.batch[i], cancelled |-> FALSE, result |-> "none"]]
  BY DEF DrainBatch
<1> DEFINE d == DrainReadyBatch(s, BatchSize)
           b == d.batch
<1>2. /\ b # <<>> /\ sched' = d.scheduler
      /\ batch' = [i \in DOMAIN b |-> [task |-> b[i], cancelled |-> FALSE, result |-> "none"]]
  BY <1>1
<1>3. /\ Ordered(s) /\ s.generation = sched.generation
      /\ PendingTasks(s) = PendingTasks(sched)
  BY AllDueOrdered DEF Core
<1>4. /\ Ordered(sched') /\ sched'.generation = sched.generation
      /\ b \in Seq(Tasks) /\ OnePerSlot(b)
      /\ Elements(b) \cup PendingTasks(sched') = PendingTasks(sched)
  BY <1>2, <1>3, DrainOrdered
<1> HIDE DEF b
<1>5. /\ DOMAIN b = 1..Len(b) /\ Len(b) \in Nat /\ Len(b) # 0
      /\ \A i \in DOMAIN b : b[i] \in Tasks
  BY <1>2, <1>4, LenProperties, ElementOfSeq, EmptySeq
<1>6. /\ batch' \in [1..Len(b) -> Entries] /\ DOMAIN batch' = DOMAIN b
      /\ \A i \in DOMAIN b : batch'[i].task = b[i]
  BY <1>2, <1>5 DEF Entries
<1>7. batch' \in Seq(Entries)
  BY <1>5, <1>6, SeqDef
<1>8. batch' # <<>>
  BY <1>5, <1>6
<1>9. BatchTasks' = Elements(b)
  BY <1>6 DEF BatchTasks, Elements, ValuesAt
<1>10. ASSUME NEW i \in DOMAIN batch'
       PROVE  /\ Built(batch'[i].task)
              /\ batch'[i].task.generation \in 1..sched'.generation
  <2>1. batch'[i].task \in PendingTasks(sched)
    BY <1>4, <1>6 DEF Elements, ValuesAt
  <2>2. QED
    BY <1>4, <2>1 DEF Core, Ordered
<1>11. BatchSlots'
  <2>1. [i \in DOMAIN batch' |-> batch'[i].task] = b
    BY <1>4, <1>6
  <2>2. QED
    BY <1>4, <2>1 DEF BatchSlots
<1>12. QED
  BY <1>4, <1>7, <1>8, <1>9, <1>10, <1>11 DEF BatchOK

(* The runner takes a batch. *)
LEMMA DrainBatchCore ==
  ASSUME Core, DrainBatch
  PROVE  Core'
<1>1. /\ runner.pc = "idle" /\ runner' = [runner EXCEPT !.pc = "drained"]
      /\ UNCHANGED <<blocked, registered, rows, caller, fence, history>>
  BY DEF DrainBatch
<1>2. Ordered(sched') /\ BatchOK' /\ batch' # <<>>
  BY DrainBatchFacts
<1>3. runner.unplanned = {}
  BY <1>1 DEF Core, RunnerOK, RunnerRecords
<1>4. RunnerOK'
  BY <1>1, <1>2, <1>3 DEF Core, RunnerOK, RunnerRecords, Running, AtATask, AfterMark
<1>5. ResultsKnown'
  BY <1>1 DEF ResultsKnown, Core, RunnerOK, RunnerRecords
<1>6. QED
  BY <1>1, <1>2, <1>4, <1>5 DEF Core, CallersOK, FenceOK, HistoryOK, history

(* The steps of a run that leave the tasks of the batch and the scheduler.    *)
LEMMA StartCancellableTasksCore ==
  ASSUME Core, StartCancellableTasks
  PROVE  Core'
<1>1. /\ runner.pc = "drained" /\ runner' = [runner EXCEPT !.pc = "registered"]
      /\ registered' = TRUE
      /\ UNCHANGED <<sched, blocked, batch, rows, caller, fence, history>>
  BY DEF StartCancellableTasks
<1>2. RunnerOK'
  BY <1>1 DEF Core, RunnerOK, RunnerRecords, Running, AtATask, AfterMark
<1>3. ResultsKnown'
  BY <1>1 DEF ResultsKnown, Core, RunnerOK, RunnerRecords
<1>4. QED
  BY <1>1, <1>2, <1>3 DEF Core, BatchOK, CallersOK, FenceOK, HistoryOK, history

(* Cancelling the tasks of blocked roots marks them and changes no result. *)
LEMMA CancelBlockedRetouches ==
  ASSUME Core, CancelBlockedTasks
  PROVE  /\ Retouched
         /\ \A i \in DOMAIN batch : /\ batch'[i].result = batch[i].result
                                    /\ batch[i].task.root \in blocked => batch'[i].cancelled
<1>1. \A i \in DOMAIN batch : batch[i] \in Entries
  BY CoreFacts
<1>2. /\ batch' = [i \in DOMAIN batch |-> batch'[i]]
      /\ \A i \in DOMAIN batch : batch'[i] = Guarded(batch[i])
  BY DEF CancelBlockedTasks
<1>3. ASSUME NEW e \in Entries
      PROVE  /\ Guarded(e) \in Entries /\ Guarded(e).task = e.task /\ Guarded(e).result = e.result
             /\ e.task.root \in blocked => Guarded(e).cancelled
  <2>1. CASE e.task.root \in blocked
    <3>1. Guarded(e) = [e EXCEPT !.cancelled = TRUE]
      BY <2>1 DEF Guarded
    <3>2. Guarded(e).cancelled = TRUE
      BY <3>1 DEF Entries
    <3>3. QED
      BY <3>1, <3>2 DEF Entries
  <2>2. CASE e.task.root \notin blocked
    <3>1. Guarded(e) = e
      BY <2>2 DEF Guarded
    <3>2. QED
      BY <2>2, <3>1
  <2>3. QED
    BY <2>1, <2>2
<1>4. QED
  BY <1>1, <1>2, <1>3 DEF Retouched

(* The runner cancels the tasks of blocked roots before it runs the rest. *)
LEMMA CancelBlockedTasksCore ==
  ASSUME Core, CancelBlockedTasks
  PROVE  Core'
<1>1. /\ runner.pc = "registered"
      /\ runner' = [runner EXCEPT !.pc = "starting", !.at = 1]
      /\ UNCHANGED <<sched, blocked, registered, rows, caller, fence, history>>
  BY DEF CancelBlockedTasks
<1>2. Retouched
  BY CancelBlockedRetouches
<1>3. /\ BatchOK' /\ DOMAIN batch' = DOMAIN batch /\ Len(batch') = Len(batch)
      /\ batch' = <<>> <=> batch = <<>>
  BY <1>1, <1>2, CoreFacts, BatchStays
<1>4. 1 \in DOMAIN batch /\ DOMAIN batch = 1..Len(batch)
  BY <1>1, CoreFacts
<1>5. RunnerOK'
  BY <1>1, <1>3, <1>4 DEF Core, RunnerOK, RunnerRecords, Running, AtATask, AfterMark
<1>6. ResultsKnown'
  BY <1>1, <1>3, <1>4 DEF ResultsKnown, Core, RunnerOK, RunnerRecords
<1>7. QED
  BY <1>1, <1>3, <1>5, <1>6 DEF Core, CallersOK, FenceOK, HistoryOK, history

(* Finishing the current task, whatever its result is, keeps Core. *)
LEMMA FinishCore ==
  ASSUME Core, runner.pc \in {"starting", "checking", "working"}, NEW result \in Results,
         Finish(result), UNCHANGED <<sched, blocked, registered, rows, caller, fence, history>>
  PROVE  Core'
<1>1. /\ Retouched
      /\ \A i \in DOMAIN batch :
           batch'[i].result = IF i = runner.at THEN result ELSE batch[i].result
  BY FinishRetouches
<1>2. /\ BatchOK' /\ DOMAIN batch' = DOMAIN batch /\ Len(batch') = Len(batch)
      /\ batch' = <<>> <=> batch = <<>>
  BY <1>1, CoreFacts, BatchStays
<1>3. /\ runner.at \in DOMAIN batch /\ DOMAIN batch = 1..Len(batch) /\ Len(batch) \in Nat
      /\ registered
  BY CoreFacts DEF Core, RunnerOK, RunnerRecords, AtATask, Running
<1>4. runner' = [runner EXCEPT !.at = runner.at + 1,
                               !.pc = IF runner.at = Len(batch) THEN "ran" ELSE "starting"]
  BY DEF Finish, Core, RunnerOK, RunnerRecords
<1>5. /\ runner'.at = runner.at + 1
      /\ runner'.pc = IF runner.at = Len(batch) THEN "ran" ELSE "starting"
      /\ runner'.unplanned = runner.unplanned /\ runner'.replaced = runner.replaced
  BY <1>4 DEF Core, RunnerOK, RunnerRecords
<1>6. RunnerOK'
  <2>1. runner' \in RunnerRecords
    <3>1. PICK pc \in {"ran", "starting"} :
            runner' = [runner EXCEPT !.at = runner.at + 1, !.pc = pc]
      BY <1>4
    <3>2. pc \in Running /\ runner.at + 1 \in Nat
      BY <1>3 DEF Running
    <3>3. QED
      BY <3>1, <3>2 DEF Core, RunnerOK, RunnerRecords
  <2>2. runner'.pc \in AtATask => runner'.at \in DOMAIN batch'
    BY <1>2, <1>3, <1>5 DEF AtATask
  <2>3. /\ runner'.unplanned \subseteq DOMAIN batch'
        /\ runner'.pc = "idle" <=> batch' = <<>>
        /\ runner'.replaced # {} => runner'.pc = "following"
    BY <1>2, <1>3, <1>5 DEF Core, RunnerOK, RunnerRecords
  <2>4. registered' \in BOOLEAN /\ (registered' <=> runner'.pc \in Running)
    BY <1>3, <1>5 DEF Core, RunnerOK, RunnerRecords, Running
  <2>5. QED
    BY <2>1, <2>2, <2>3, <2>4 DEF RunnerOK, RunnerRecords
<1>7. ResultsKnown'
  <2> SUFFICES ASSUME NEW i \in DOMAIN batch
               PROVE  \/ runner'.pc \in {"starting", "checking", "working"} /\ i >= runner'.at
                      \/ batch'[i].result # "none"
    BY <1>2 DEF ResultsKnown
  <2>1. CASE i = runner.at
    BY <1>1, <2>1 DEF Results
  <2>2. CASE i < runner.at
    BY <1>1, <1>3, <2>2 DEF Core, ResultsKnown
  <2>3. CASE i > runner.at
    BY <1>3, <1>5, <2>3
  <2>4. QED
    BY <1>3, <2>1, <2>2, <2>3
<1>8. QED
  BY <1>2, <1>6, <1>7 DEF Core, CallersOK, FenceOK, HistoryOK, history

(* The runner stores a running row and registers the token. *)
LEMMA StartTaskCore ==
  ASSUME Core, StartTask
  PROVE  Core'
<1>1. /\ runner.pc = "starting" /\ runner' = [runner EXCEPT !.pc = "checking"]
      /\ rows' = WithRow(rows, RowId(Current.task), "running")
      /\ UNCHANGED <<sched, blocked, batch, registered, caller, fence, history>>
  BY DEF StartTask
<1>2. Current.task \in Tasks
  BY <1>1, CoreFacts DEF Current, Core, RunnerOK, RunnerRecords, AtATask
<1>3. GoodRows(rows')
  BY <1>1, <1>2, WithRowType DEF Core, Rows
<1>4. RunnerOK'
  BY <1>1 DEF Core, RunnerOK, RunnerRecords, Running, AtATask
<1>5. ResultsKnown'
  BY <1>1 DEF ResultsKnown, Core, RunnerOK, RunnerRecords
<1>6. QED
  BY <1>1, <1>3, <1>4, <1>5 DEF Core, BatchOK, CallersOK, FenceOK, HistoryOK, history

(* What ends a task: it is skipped, or its token was cancelled, or its work   *)
(* came to an end.                                                            *)
LEMMA EndsWithFinish ==
  ASSUME Core, SkipTask \/ (CheckToken /\ Current.cancelled) \/ Work
  PROVE  /\ runner.pc \in {"starting", "checking", "working"}
         /\ UNCHANGED <<sched, blocked, registered, rows, caller, fence, history>>
         /\ \E result \in Results :
              /\ Finish(result)
              /\ result = "reloaded" => Current.task.reason = "watcher"
<1>1. CASE SkipTask
  BY <1>1 DEF SkipTask, Results
<1>2. CASE CheckToken /\ Current.cancelled
  BY <1>2 DEF CheckToken, Results
<1>3. CASE Work
  BY <1>3 DEF Work, Results
<1>4. QED
  BY <1>1, <1>2, <1>3

(* The runner skips a task, looks at its token, or does its work. *)
LEMMA WorkCore ==
  ASSUME Core, SkipTask \/ CheckToken \/ Work
  PROVE  Core'
<1>1. CASE SkipTask \/ (CheckToken /\ Current.cancelled) \/ Work
  BY <1>1, EndsWithFinish, FinishCore
<1>2. CASE CheckToken /\ ~Current.cancelled
  <2>1. /\ runner.pc = "checking" /\ runner' = [runner EXCEPT !.pc = "working"]
        /\ UNCHANGED <<sched, blocked, batch, registered, rows, caller, fence, history>>
    BY <1>2 DEF CheckToken
  <2>2. RunnerOK'
    BY <2>1 DEF Core, RunnerOK, RunnerRecords, Running, AtATask
  <2>3. ResultsKnown'
    BY <2>1 DEF ResultsKnown, Core, RunnerOK, RunnerRecords
  <2>4. QED
    BY <2>1, <2>2, <2>3 DEF Core, BatchOK, CallersOK, FenceOK, HistoryOK, history
<1>3. QED
  BY <1>1, <1>2

(* The runner without a batch is one of the records it may be in. *)
LEMMA IdleRunnerType ==
  IdleRunner \in RunnerRecords /\ IdleRunner.unplanned = {} /\ IdleRunner.replaced = {}
<1>1. <<>> \in Seq(BuiltCalls) /\ {} \in SUBSET Nat /\ {} \in SUBSET Roots /\ {} \in SUBSET Tasks
  OBVIOUS
<1>2. QED
  BY <1>1 DEF IdleRunner, RunnerRecords

(* The run ends. *)
LEMMA RunEndsCore ==
  ASSUME Core, RunEnds, UNCHANGED <<sched, blocked, caller, fence>>,
         GoodRows(rows'), unreported' \subseteq unreported, published' \subseteq Tasks
  PROVE  Core'
<1>1. batch' = <<>> /\ registered' = FALSE /\ runner' = IdleRunner /\ outdated' = {}
  BY DEF RunEnds
<1>2. BatchOK' /\ ResultsKnown'
  BY <1>1 DEF BatchOK, ResultsKnown
<1>3. RunnerOK'
  <2>1. runner'.pc = "idle"
    BY <1>1 DEF IdleRunner
  <2>2. QED
    BY <1>1, <2>1, IdleRunnerType DEF RunnerOK, Running, AtATask
<1>4. QED
  BY <1>1, <1>2, <1>3 DEF Core, CallersOK, FenceOK, HistoryOK

(* The row of a task cannot be stored: the runner gives its batch up. *)
LEMMA StartTaskFailsCore ==
  ASSUME Core, StartTaskFails
  PROVE  Core'
<1>1. /\ runner.pc = "starting" /\ RunEnds
      /\ rows' = WithRow(rows, RowId(Current.task), "running")
      /\ unreported' \subseteq unreported
      /\ UNCHANGED <<sched, blocked, caller, fence, published>>
  BY DEF StartTaskFails, Reported
<1>2. Current.task \in Tasks
  BY <1>1, CoreFacts DEF Current, Core, RunnerOK, RunnerRecords, AtATask
<1>3. GoodRows(rows')
  BY <1>1, <1>2, WithRowType DEF Core, Rows
<1>4. QED
  BY <1>1, <1>3, RunEndsCore DEF Core, HistoryOK

(* Releasing the tokens of a batch changes no result. *)
LEMMA FinishCancellableRetouches ==
  ASSUME Core, FinishCancellableTasks
  PROVE  Retouched /\ \A i \in DOMAIN batch : batch'[i].result = batch[i].result
<1>1. \A i \in DOMAIN batch : batch[i] \in Entries
  BY CoreFacts
<1>2. /\ batch' = [i \in DOMAIN batch |-> batch'[i]]
      /\ \A i \in DOMAIN batch : batch'[i] = [batch[i] EXCEPT !.cancelled = FALSE]
  BY DEF FinishCancellableTasks
<1>3. QED
  BY <1>1, <1>2 DEF Entries, Retouched

(* The runner releases the tokens of its batch. *)
LEMMA FinishCancellableTasksCore ==
  ASSUME Core, FinishCancellableTasks
  PROVE  Core'
<1>1. /\ runner.pc = "ran" /\ runner' = [runner EXCEPT !.pc = "marking", !.at = 1]
      /\ registered' = FALSE
      /\ UNCHANGED <<sched, blocked, rows, caller, fence, history>>
  BY DEF FinishCancellableTasks
<1>2. Retouched /\ \A i \in DOMAIN batch : batch'[i].result = batch[i].result
  BY FinishCancellableRetouches
<1>3. /\ BatchOK' /\ DOMAIN batch' = DOMAIN batch /\ Len(batch') = Len(batch)
      /\ batch' = <<>> <=> batch = <<>>
  BY <1>1, <1>2, CoreFacts, BatchStays
<1>4. 1 \in DOMAIN batch
  BY <1>1, CoreFacts
<1>5. RunnerOK'
  BY <1>1, <1>3, <1>4 DEF Core, RunnerOK, RunnerRecords, Running, AtATask, AfterMark
<1>6. ResultsKnown'
  BY <1>1, <1>2, <1>3 DEF ResultsKnown, Core, RunnerOK, RunnerRecords
<1>7. QED
  BY <1>1, <1>3, <1>5, <1>6 DEF Core, CallersOK, FenceOK, HistoryOK, history

(* Looking for a newer task changes one result, and only to superseded. *)
LEMMA MarkRetouches ==
  ASSUME Core, MarkSupersededResult
  PROVE  /\ Retouched
         /\ \A i \in DOMAIN batch :
              batch'[i].result =
                IF i = runner.at /\ batch[i].result # "dropped" /\ HasNewerPendingTask(batch[i])
                THEN "superseded" ELSE batch[i].result
<1>1. \A i \in DOMAIN batch : batch[i] \in Entries
  BY CoreFacts
<1> DEFINE to(e) == IF e.result # "dropped" /\ HasNewerPendingTask(e) THEN "superseded" ELSE e.result
<1>2. /\ batch' = [i \in DOMAIN batch |-> batch'[i]]
      /\ \A i \in DOMAIN batch :
           batch'[i] = IF i = runner.at THEN [batch[i] EXCEPT !.result = to(batch[i])] ELSE batch[i]
  BY DEF MarkSupersededResult, Current
<1>3. \A e \in Entries : to(e) \in {"none", "ready", "reloaded", "failed", "superseded", "dropped"}
  BY DEF Entries
<1>4. \A i \in DOMAIN batch : /\ batch'[i] \in Entries /\ batch'[i].task = batch[i].task
                              /\ batch'[i].result = IF i = runner.at THEN to(batch[i])
                                                    ELSE batch[i].result
  <2> HIDE DEF to
  <2>1. QED
    BY <1>1, <1>2, <1>3 DEF Entries
<1>5. QED
  BY <1>2, <1>4 DEF Retouched

(* The runner looks at one result more. *)
LEMMA MarkCore ==
  ASSUME Core, MarkSupersededResult
  PROVE  Core'
<1>1. /\ runner.pc = "marking"
      /\ runner' = IF runner.at = Len(batch)
                   THEN [runner EXCEPT !.pc = "following", !.at = 0, !.unplanned = DOMAIN batch]
                   ELSE [runner EXCEPT !.at = runner.at + 1]
      /\ UNCHANGED <<sched, blocked, registered, rows, caller, fence, history>>
  BY DEF MarkSupersededResult, Core, RunnerOK, RunnerRecords
<1>2. /\ Retouched
      /\ \A i \in DOMAIN batch : batch'[i].result \in {batch[i].result, "superseded"}
  BY MarkRetouches
<1>3. /\ BatchOK' /\ DOMAIN batch' = DOMAIN batch /\ Len(batch') = Len(batch)
      /\ batch' = <<>> <=> batch = <<>>
  BY <1>1, <1>2, CoreFacts, BatchStays
<1>4. runner.at \in DOMAIN batch /\ DOMAIN batch = 1..Len(batch) /\ Len(batch) \in Nat
  BY <1>1, CoreFacts DEF Core, RunnerOK, RunnerRecords, AtATask
<1>5. RunnerOK'
  <2>1. PICK pc \in {"marking", "following"}, at \in Nat, todo \in SUBSET DOMAIN batch :
          /\ runner' = [runner EXCEPT !.pc = pc, !.at = at, !.unplanned = todo]
          /\ pc = "marking" => at \in DOMAIN batch /\ todo = runner.unplanned
    <3>1. CASE runner.at = Len(batch)
      <4>1. runner' = [runner EXCEPT !.pc = "following", !.at = 0, !.unplanned = DOMAIN batch]
        BY <1>1, <3>1
      <4>2. QED
        BY <4>1
    <3>2. CASE runner.at # Len(batch)
      <4>1. runner' = [runner EXCEPT !.pc = "marking", !.at = runner.at + 1,
                                     !.unplanned = runner.unplanned]
        BY <1>1, <3>2 DEF Core, RunnerOK, RunnerRecords
      <4>2. runner.at + 1 \in DOMAIN batch /\ runner.at + 1 \in Nat
        BY <1>4, <3>2
      <4>3. runner.unplanned \subseteq DOMAIN batch
        BY DEF Core, RunnerOK
      <4>4. QED
        BY <4>1, <4>2, <4>3
    <3>3. QED
      BY <3>1, <3>2
  <2>2. todo \in SUBSET Nat
    BY <1>4
  <2>3. runner' \in RunnerRecords
    BY <2>1, <2>2 DEF Core, RunnerOK, RunnerRecords, AfterMark
  <2>4. /\ runner'.pc = pc /\ runner'.at = at /\ runner'.unplanned = todo
        /\ runner'.replaced = runner.replaced
    BY <2>1 DEF Core, RunnerOK, RunnerRecords
  <2>5. runner.replaced = {} /\ batch # <<>> /\ ~registered
    BY <1>1 DEF Core, RunnerOK, Running
  <2>6. QED
    BY <1>1, <1>3, <2>1, <2>3, <2>4, <2>5 DEF Core, RunnerOK, Running, AtATask
<1>6. ResultsKnown'
  BY <1>1, <1>2, <1>3 DEF ResultsKnown, Core, RunnerOK, RunnerRecords
<1>7. QED
  BY <1>1, <1>3, <1>5, <1>6 DEF Core, CallersOK, FenceOK, HistoryOK, history

(* What a result schedules next is built. *)
LEMMA PlansType ==
  ASSUME NEW e \in Entries, Built(e.task), NEW plan \in Plans(e)
  PROVE  plan \in Seq(BuiltCalls)
<1> DEFINE t   == e.task
           all == PossibleFollowUps(t) \cup AfterInterruption(t)
<1>1. t \in Tasks
  BY DEF Entries
<1>2. {<<>>} \subseteq AfterInterruption(t)
  BY DEF AfterInterruption
<1>3. \A plans \in SUBSET all : AskedOnly(plans) \subseteq AskedOnly(all)
  BY DEF AskedOnly
<1>4. plan \in AskedOnly(all)
  BY <1>2, <1>3 DEF Plans
<1>5. plan \in Seq(CallsFrom(t))
  BY <1>1, <1>4, PlansAreBuilt
<1>6. CallsFrom(t) \subseteq BuiltCalls
  BY DEF CallsFrom, BuiltCalls, PlanCalls
<1>7. Len(plan) \in Nat /\ plan \in [1..Len(plan) -> CallsFrom(t)]
  BY <1>5, LenProperties, ElementOfSeq
<1>8. plan \in [1..Len(plan) -> BuiltCalls]
  BY <1>6, <1>7
<1>9. QED
  BY <1>7, <1>8, SeqDef

(* The runner plans the follow-ups of one task. *)
LEMMA PlanFollowUpsCore ==
  ASSUME Core, PlanFollowUps
  PROVE  Core'
<1>1. PICK i \in runner.unplanned : \E plan \in Plans(batch[i]) :
        runner' = [runner EXCEPT !.calls = plan, !.unplanned = @ \ {i}]
  BY DEF PlanFollowUps
<1>2. PICK plan \in Plans(batch[i]) :
        runner' = [runner EXCEPT !.calls = plan, !.unplanned = @ \ {i}]
  BY <1>1
<1>3. /\ runner.pc = "following"
      /\ UNCHANGED <<sched, blocked, batch, registered, rows, caller, fence, history>>
  BY DEF PlanFollowUps
<1>4. i \in DOMAIN batch /\ batch[i] \in Entries /\ Built(batch[i].task)
  BY <1>1, CoreFacts DEF Core, RunnerOK, RunnerRecords, BatchOK
<1>5. plan \in Seq(BuiltCalls)
  BY <1>2, <1>4, PlansType
<1>6. RunnerOK'
  BY <1>2, <1>3, <1>5 DEF Core, RunnerOK, RunnerRecords, Running, AtATask
<1>7. ResultsKnown'
  BY <1>2, <1>3 DEF ResultsKnown, Core, RunnerOK, RunnerRecords
<1>8. QED
  BY <1>3, <1>6, <1>7 DEF Core, BatchOK, CallersOK, FenceOK, HistoryOK, history

(* One call of a plan. *)
LEMMA FollowUpCall ==
  ASSUME Core, FollowUp
  PROVE  LET r == CallResult(sched, Head(runner.calls))
         IN  Steady(sched, r) /\ Scheduled(r) /\ r.superseded \in SUBSET Tasks
<1> DEFINE call == Head(runner.calls)
           r    == CallResult(sched, call)
<1>1. call \in BuiltCalls
  BY HeadTailProperties DEF FollowUp, Core, RunnerOK, RunnerRecords
<1>2. Steady(sched, r)
  BY <1>1, CallSteady DEF Core
<1>3. Scheduled(r)
  BY DEF FollowUp
<1>4. r.superseded \in SUBSET Tasks
  BY <1>2 DEF Steady, GoodResult
<1>5. QED
  BY <1>2, <1>3, <1>4

(* The runner schedules one follow-up. *)
LEMMA FollowUpCore ==
  ASSUME Core, FollowUp
  PROVE  Core'
<1> DEFINE call == Head(runner.calls)
           r    == CallResult(sched, call)
<1>1. /\ runner.pc = "following" /\ runner.calls # <<>>
      /\ UNCHANGED <<blocked, batch, registered, rows, caller, fence, published>>
  BY DEF FollowUp
<1>2. Steady(sched, r) /\ Scheduled(r) /\ r.superseded \in SUBSET Tasks
  BY FollowUpCall
<1>3. call \in BuiltCalls /\ Tail(runner.calls) \in Seq(BuiltCalls)
  BY <1>1, HeadTailProperties DEF Core, RunnerOK, RunnerRecords
<1>4. call.task.root \in Roots
  BY <1>3 DEF BuiltCalls, PlanCalls, Calls, Tasks
<1>5. PICK touched \in SUBSET Roots :
        runner' = [runner EXCEPT !.calls = Tail(runner.calls),
                                 !.replaced = runner.replaced \cup r.superseded,
                                 !.touched = touched]
  <2> DEFINE touches == \/ r.scheduled
                        \/ call.how # "resume" /\ call.task.reason \in ContinuationReasons
             T       == IF touches THEN runner.touched \cup {call.task.root} ELSE runner.touched
  <2>1. runner' = [runner EXCEPT !.calls = Tail(runner.calls),
                                 !.replaced = runner.replaced \cup r.superseded,
                                 !.touched = T]
    BY DEF FollowUp, Core, RunnerOK, RunnerRecords
  <2>2. T \in SUBSET Roots
    BY <1>4 DEF Core, RunnerOK, RunnerRecords
  <2> HIDE DEF T
  <2>3. QED
    BY <2>1, <2>2
<1>6. Ordered(sched') /\ BatchOK' /\ HistoryOK'
  BY <1>1, <1>2, ScheduledStep
<1> HIDE DEF r, call
<1>7. RunnerOK'
  BY <1>1, <1>2, <1>3, <1>5 DEF Core, RunnerOK, RunnerRecords, Running, AtATask
<1>8. ResultsKnown'
  BY <1>1, <1>5 DEF ResultsKnown, Core, RunnerOK, RunnerRecords
<1>9. QED
  BY <1>1, <1>6, <1>7, <1>8 DEF Core, CallersOK, FenceOK

(* The runner stores the rows its follow-ups replaced. *)
LEMMA ReportReplacedCore ==
  ASSUME Core, ReportReplaced
  PROVE  Core'
<1>1. /\ runner.pc = "following"
      /\ rows' = WithRows(rows, runner.replaced, "superseded")
      /\ runner' = [runner EXCEPT !.replaced = {},
                                  !.pc = IF runner.touched = {} THEN "publishing" ELSE "reporting"]
      /\ unreported' \subseteq unreported
      /\ UNCHANGED <<sched, blocked, batch, registered, caller, fence, outdated, published>>
  BY DEF ReportReplaced, Reported
<1>2. GoodRows(rows')
  <2>1. runner.replaced \in SUBSET Tasks /\ "superseded" \in Rows
    BY DEF Core, RunnerOK, RunnerRecords, Rows
  <2>2. QED
    BY <1>1, <2>1, WithRowsType DEF Core
<1>3. RunnerOK'
  BY <1>1 DEF Core, RunnerOK, RunnerRecords, Running, AtATask, AfterMark
<1>4. ResultsKnown'
  BY <1>1 DEF ResultsKnown, Core, RunnerOK, RunnerRecords
<1>5. QED
  BY <1>1, <1>2, <1>3, <1>4 DEF Core, BatchOK, CallersOK, FenceOK, HistoryOK

(* The runner takes its snapshot of the queue and stores the queued rows. *)
LEMMA ReportFollowUpsCore ==
  ASSUME Core, SnapshotFollowUps \/ StoreFollowUps
  PROVE  Core'
<1>1. UNCHANGED <<sched, blocked, batch, registered, caller, fence, history>>
  BY DEF SnapshotFollowUps, StoreFollowUps
<1>2. runner.pc \in {"reporting", "queued"}
  BY DEF SnapshotFollowUps, StoreFollowUps
<1>3. GoodRows(rows')
  <2>1. runner.pending \in SUBSET Tasks /\ "queued" \in Rows
    BY DEF Core, RunnerOK, RunnerRecords, Rows
  <2>2. rows' = rows \/ rows' = WithRows(rows, runner.pending, "queued")
    BY DEF SnapshotFollowUps, StoreFollowUps
  <2>3. QED
    BY <2>1, <2>2, WithRowsType DEF Core
<1>4. PICK touched \in SUBSET Roots, pending \in SUBSET Tasks, pc \in {"queued", "publishing"} :
        runner' = [runner EXCEPT !.pc = pc, !.touched = touched, !.pending = pending]
  <2> DEFINE waiting == {t \in PendingTasks(sched) : t.root \in runner.touched}
  <2>1. CASE SnapshotFollowUps
    <3>1. waiting \in SUBSET Tasks
      BY CoreFacts
    <3>2. runner' = [runner EXCEPT !.pc = "queued", !.touched = {}, !.pending = waiting]
      BY <2>1 DEF SnapshotFollowUps
    <3> HIDE DEF waiting
    <3>3. QED
      BY <3>1, <3>2
  <2>2. CASE StoreFollowUps
    <3>1. runner' = [runner EXCEPT !.pc = "publishing", !.touched = runner.touched, !.pending = {}]
      BY <2>2 DEF StoreFollowUps, Core, RunnerOK, RunnerRecords
    <3>2. runner.touched \in SUBSET Roots
      BY DEF Core, RunnerOK, RunnerRecords
    <3>3. QED
      BY <3>1, <3>2
  <2>3. QED
    BY <2>1, <2>2
<1>5. RunnerOK'
  BY <1>1, <1>2, <1>4 DEF Core, RunnerOK, RunnerRecords, Running, AtATask, AfterMark
<1>6. ResultsKnown'
  BY <1>1, <1>2, <1>4 DEF ResultsKnown, Core, RunnerOK, RunnerRecords
<1>7. QED
  BY <1>1, <1>3, <1>5, <1>6 DEF Core, BatchOK, CallersOK, FenceOK, HistoryOK, history

(* The runner publishes the results of its batch, or fails on the way. *)
LEMMA PublishCore ==
  ASSUME Core, PublishResults \/ RunFails
  PROVE  Core'
<1>1. RunEnds /\ UNCHANGED <<sched, blocked, caller, fence>> /\ unreported' \subseteq unreported
  BY DEF PublishResults, RunFails, Reported
<1>2. GoodRows(rows') /\ published' \subseteq Tasks
  <2>1. CASE \E some \in SUBSET (runner.replaced \cup runner.pending) :
               \E state \in {"superseded", "queued"} :
                 rows' = WithRows(rows, some, state) /\ published' = published
    <3>1. \A some \in SUBSET (runner.replaced \cup runner.pending) : some \in SUBSET Tasks
      BY DEF Core, RunnerOK, RunnerRecords
    <3>2. "superseded" \in Rows /\ "queued" \in Rows
      BY DEF Rows
    <3>3. QED
      BY <2>1, <3>1, <3>2, WithRowsType DEF Core, HistoryOK
  <2>2. CASE runner.pc = "publishing" /\ \E R : Publish(R)
    BY <2>2, PublishType, CoreFacts DEF Core, HistoryOK
  <2>3. QED
    BY <2>1, <2>2 DEF PublishResults, RunFails
<1>3. QED
  BY <1>1, <1>2, RunEndsCore

(* Every step of the runner keeps Core. *)
LEMMA RunnerCore ==
  ASSUME Core, RunnerStep
  PROVE  Core'
BY DrainBatchCore, StartCancellableTasksCore, CancelBlockedTasksCore, WorkCore, StartTaskCore,
   StartTaskFailsCore, FinishCancellableTasksCore, MarkCore, PlanFollowUpsCore, FollowUpCore,
   ReportReplacedCore, ReportFollowUpsCore, PublishCore DEF RunnerStep

(* Core is inductive. *)
LEMMA CoreStep ==
  ASSUME Core, [Next]_vars
  PROVE  Core'
<1>1. CASE UNCHANGED vars
  BY <1>1 DEF vars, Core, BatchOK, RunnerOK, RunnerRecords, ResultsKnown, CallersOK, FenceOK, HistoryOK
<1>2. CASE Next
  BY <1>2, CallerCore, RunnerCore, FenceCore DEF Next
<1>3. QED
  BY <1>1, <1>2

(* Core holds at the start. *)
LEMMA CoreInit ==
  ASSUME Init
  PROVE  Core
<1>1. Ordered(sched)
  <2>1. sched = EmptyScheduler /\ EmptyScheduler \in Schedulers
    BY DEF Init, EmptyScheduler, Schedulers
  <2>2. PendingTasks(sched) = {} /\ SlotsHeld(sched)
    BY <2>1 DEF PendingTasks, EmptyScheduler, SlotsHeld, OnePerSlot
  <2>3. QED
    BY <2>1, <2>2 DEF Ordered
<1>2. BatchOK /\ ResultsKnown
  BY DEF Init, BatchOK, ResultsKnown
<1>3. RunnerOK
  <2>1. IdleRunner.pc = "idle"
    BY DEF IdleRunner
  <2>2. QED
    BY <2>1, IdleRunnerType DEF Init, RunnerOK, Running, AtATask
<1>4. CallersOK
  BY DEF Init, CallersOK, IdleCaller
<1>5. FenceOK
  BY DEF Init, FenceOK, IdleFence
<1>6. GoodRows(rows) /\ HistoryOK
  BY DEF Init, GoodRows, HistoryOK
<1>7. QED
  BY <1>1, <1>2, <1>3, <1>4, <1>5, <1>6 DEF Core

(* In every behaviour of the manager the scheduler, the callers, the fence and the
   batch of the runner are typed and in order: the invariant the others are proved on. *)
THEOREM CoreInvariance == Spec => []Core
<1>1. Init => Core
  BY CoreInit
<1>2. Core /\ [Next]_vars => Core'
  BY CoreStep
<1>3. QED
  BY <1>1, <1>2, PTL DEF Spec

(* The types of the variables. *)
THEOREM TypeCorrect == Spec => []TypeOK
<1>1. Core => TypeOK
  <2> SUFFICES ASSUME Core
               PROVE  TypeOK
    OBVIOUS
  <2>1. sched \in Schedulers
    BY CoreFacts
  <2>2. blocked \subseteq Roots
    BY DEF Core, FenceOK
  <2>3. batch \in Seq([task : Tasks, cancelled : BOOLEAN,
                       result : {"none", "ready", "reloaded", "failed", "superseded", "dropped"}])
    BY DEF Core, BatchOK, Entries
  <2>4. \A id \in DOMAIN rows : id \in Nat \X (Kinds \cup {"discovery"}) /\ rows[id] \in Rows
    BY DEF Core, GoodRows, RowIds
  <2>5. ASSUME NEW c \in Callers
        PROVE  /\ Cardinality(caller[c].request) <= 1
               /\ caller[c].request = {} <=> caller[c].pc = "idle"
    <3>1. GoodCaller(caller[c])
      BY CallersRestated DEF Core
    <3>2. CASE caller[c].pc = "idle"
      <4>1. caller[c].request = {}
        BY <3>1, <3>2 DEF GoodCaller, IdleCaller
      <4>2. Cardinality({}) = 0
        BY FS_EmptySet
      <4>3. QED
        BY <3>2, <4>1, <4>2
    <3>3. CASE caller[c].pc # "idle"
      <4>1. PICK t \in Tasks : caller[c].request = {t}
        BY <3>1, <3>3 DEF GoodCaller
      <4>2. Cardinality({t}) = 1
        BY FS_Singleton
      <4>3. QED
        BY <3>3, <4>1, <4>2
    <3>4. QED
      BY <3>2, <3>3
  <2>6. /\ registered \in BOOLEAN
        /\ runner.pc \in {"idle", "drained", "registered", "starting", "checking", "working", "ran",
                          "marking", "following", "reporting", "queued", "publishing"}
        /\ runner.pc \in {"starting", "checking", "working", "marking"} => runner.at \in DOMAIN batch
        /\ runner.pc = "idle" <=> batch = <<>>
    BY DEF Core, RunnerOK, RunnerRecords, Running, AtATask, AfterMark
  <2>7. fence.pc \in {"idle", "drain", "cancel", "store", "operate"}
    BY DEF Core, FenceOK
  <2>8. unreported \cup outdated \cup published \subseteq Tasks
    BY DEF Core, HistoryOK
  <2>9. QED
    BY <2>1, <2>2, <2>3, <2>4, <2>5, <2>6, <2>7, <2>8 DEF TypeOK
<1>2. QED
  BY <1>1, CoreInvariance, PTL

-----------------------------------------------------------------------------
(* The fence holds: tokens are cancelled when they are registered, when the   *)
(* fence comes to a registered batch, and are taken back by nobody.           *)

Executing == runner.pc \in {"starting", "checking", "working"}

(* While the fence stands still, a step that starts no batch, gives no result *)
(* back and takes no cancellation back keeps it.                              *)
LEMMA FenceStands ==
  ASSUME Core, Core', FenceHolds, fence' = fence,
         Executing' => /\ Executing /\ Retouched
                       /\ \A i \in DOMAIN batch :
                            /\ batch'[i].result = "none" => batch[i].result = "none"
                            /\ batch[i].cancelled => batch'[i].cancelled
  PROVE  FenceHolds'
<1>1. blocked' = fence'.root
  BY DEF Core, FenceOK
<1>2. ASSUME Executing', fence'.pc \in {"store", "operate"}, NEW i \in DOMAIN batch',
             batch'[i].task.root \in fence'.root, batch'[i].result = "none"
      PROVE  batch'[i].cancelled
  <2>1. Executing /\ Retouched
    BY <1>2
  <2>2. i \in DOMAIN batch /\ batch'[i].task = batch[i].task
    BY <1>2, <2>1 DEF Retouched
  <2>3. batch[i].result = "none" /\ (batch[i].cancelled => batch'[i].cancelled)
    BY <1>2, <2>2
  <2>4. batch[i].cancelled
    BY <1>2, <2>1, <2>2, <2>3 DEF FenceHolds, Executing
  <2>5. QED
    BY <2>3, <2>4
<1>3. QED
  BY <1>1, <1>2 DEF FenceHolds, Executing

(* Given Core, the fence property is inductive by itself. *)
LEMMA FenceHoldsStep ==
  ASSUME Core, Core', FenceHolds, [Next]_vars
  PROVE  FenceHolds'
<1>1. ASSUME UNCHANGED <<fence, batch>>, Executing' => Executing
      PROVE  FenceHolds'
  <2>1. Retouched
    BY <1>1, UnchangedRetouches
  <2>2. QED
    BY <1>1, <2>1, FenceStands
<1>2. ASSUME fence' = fence, ~Executing'
      PROVE  FenceHolds'
  BY <1>2, FenceStands
<1>3. ASSUME fence'.pc \notin {"store", "operate"}
      PROVE  FenceHolds'
  <2>1. blocked' = fence'.root
    BY DEF Core, FenceOK
  <2>2. QED
    BY <1>3, <2>1 DEF FenceHolds
<1>4. CASE UNCHANGED vars
  BY <1>1, <1>4 DEF vars, Executing
<1>5. ASSUME NEW c \in Callers, CallerStep(c)
      PROVE  FenceHolds'
  <2>1. CASE Cancel(c)
    <3>1. PICK I : CancelAt(I)
      BY <2>1 DEF Cancel
    <3>2. UNCHANGED <<fence, runner>>
      BY <2>1 DEF Cancel
    <3>3. QED
      BY <3>1, <3>2, CancelAtRetouches, FenceStands DEF Executing
  <2>2. CASE ~Cancel(c)
    <3>1. UNCHANGED <<fence, batch, runner>>
      BY <1>5, <2>2 DEF CallerStep, Schedule, Lookup, StoreReplaced, StoreReplacedFails,
                        Snapshot, StoreQueued
    <3>2. QED
      BY <1>1, <3>1 DEF Executing
  <2>3. QED
    BY <2>1, <2>2
<1>6. ASSUME RunnerStep
      PROVE  FenceHolds'
  <2>1. CASE CancelBlockedTasks
    <3>1. fence' = fence /\ blocked = fence.root
      BY <2>1 DEF CancelBlockedTasks, Core, FenceOK
    <3>2. /\ \A i \in DOMAIN batch : batch[i].task.root \in blocked => batch'[i].cancelled
          /\ \A i \in DOMAIN batch' : i \in DOMAIN batch /\ batch'[i].task = batch[i].task
      BY <2>1, CancelBlockedRetouches DEF Retouched
    <3>3. blocked' = fence'.root
      BY DEF Core, FenceOK
    <3>4. QED
      BY <3>1, <3>2, <3>3 DEF FenceHolds
  <2>2. CASE SkipTask \/ (CheckToken /\ Current.cancelled) \/ Work
    <3>1. PICK result \in Results : Finish(result)
      BY <2>2, EndsWithFinish
    <3>2. Executing /\ fence' = fence
      BY <2>2, EndsWithFinish DEF Executing
    <3>3. Retouched /\ \A i \in DOMAIN batch :
             /\ batch'[i].cancelled = batch[i].cancelled
             /\ batch'[i].result = IF i = runner.at THEN result ELSE batch[i].result
      BY <3>1, <3>2, FinishRetouches DEF Executing
    <3>4. QED
      BY <3>2, <3>3, FenceStands DEF Results
  <2>3. CASE StartTask \/ (CheckToken /\ ~Current.cancelled)
    BY <1>1, <2>3 DEF StartTask, CheckToken, Executing
  <2>4. CASE StartTaskFails \/ PublishResults \/ RunFails
    <3>1. fence' = fence /\ runner' = IdleRunner
      BY <2>4 DEF StartTaskFails, PublishResults, RunFails, RunEnds
    <3>2. QED
      BY <1>2, <3>1 DEF Executing, IdleRunner
  <2>5. CASE DrainBatch \/ StartCancellableTasks \/ FinishCancellableTasks
    <3>1. fence' = fence /\ runner'.pc \in {"drained", "registered", "marking"}
      BY <2>5 DEF DrainBatch, StartCancellableTasks, FinishCancellableTasks, Core, RunnerOK, RunnerRecords
    <3>2. QED
      BY <1>2, <3>1 DEF Executing
  <2>6. CASE \/ MarkSupersededResult \/ PlanFollowUps \/ FollowUp \/ ReportReplaced
             \/ SnapshotFollowUps \/ StoreFollowUps
    <3>1. fence' = fence
      BY <2>6 DEF MarkSupersededResult, PlanFollowUps, FollowUp, ReportReplaced,
                  SnapshotFollowUps, StoreFollowUps
    <3>2. runner'.pc \in {"marking", "following", "publishing", "reporting", "queued"}
      BY <2>6 DEF MarkSupersededResult, PlanFollowUps, FollowUp, ReportReplaced,
                  SnapshotFollowUps, StoreFollowUps, Core, RunnerOK, RunnerRecords
    <3>3. QED
      BY <1>2, <3>1, <3>2 DEF Executing
  <2>7. QED
    BY <1>6, <2>1, <2>2, <2>3, <2>4, <2>5, <2>6 DEF RunnerStep
<1>7. ASSUME FenceStep
      PROVE  FenceHolds'
  <2>1. CASE \E root \in Maintained : BlockRoot(root) \/ DrainRoot(root)
    <3>1. fence'.pc \in {"drain", "cancel"}
      BY <2>1 DEF BlockRoot, DrainRoot, Core, FenceOK
    <3>2. QED
      BY <1>3, <3>1
  <2>2. CASE \E root \in Maintained : CancelRoot(root)
    <3>1. PICK root \in Maintained : CancelRoot(root)
      BY <2>2
    <3> DEFINE I == {i \in DOMAIN batch : batch[i].task.root = root}
    <3>2. /\ CancelAt(I) /\ fence.root = {root} /\ UNCHANGED <<registered, runner>>
          /\ fence'.root = fence.root
      BY <3>1 DEF CancelRoot, Core, FenceOK
    <3>3. Retouched /\ \A i \in DOMAIN batch : registered /\ i \in I => batch'[i].cancelled
      BY <3>2, CancelAtRetouches
    <3>4. Executing' => registered
      BY <3>2 DEF Executing, Core, RunnerOK, RunnerRecords, Running
    <3>5. \A i \in DOMAIN batch' : i \in DOMAIN batch /\ batch'[i].task = batch[i].task
      BY <3>3 DEF Retouched
    <3>6. blocked' = fence'.root
      BY DEF Core, FenceOK
    <3>7. QED
      BY <3>2, <3>3, <3>4, <3>5, <3>6 DEF FenceHolds, Executing
  <2>3. CASE StoreCancelled
    <3>1. /\ fence.pc = "store" /\ fence'.root = fence.root
          /\ UNCHANGED <<batch, runner, blocked>>
      BY <2>3 DEF StoreCancelled, Core, FenceOK
    <3>2. QED
      BY <3>1 DEF FenceHolds
  <2>4. CASE StoreCancelledFails \/ FinishMaintenance
    <3>1. fence'.pc = "idle"
      BY <2>4 DEF StoreCancelledFails, FinishMaintenance, IdleFence
    <3>2. QED
      BY <1>3, <3>1
  <2>5. QED
    BY <1>7, <2>1, <2>2, <2>3, <2>4 DEF FenceStep
<1>8. QED
  BY <1>4, <1>5, <1>6, <1>7 DEF Next

(* While maintenance works on a root, no task of the root runs with a live    *)
(* token, and no root stays blocked once its maintenance ended.               *)
THEOREM FenceIsKept == Spec => []FenceHolds
<1>1. Init => FenceHolds
  BY DEF Init, FenceHolds, IdleFence
<1>2. Core /\ Core' /\ FenceHolds /\ [Next]_vars => FenceHolds'
  BY FenceHoldsStep
<1>3. QED
  BY <1>1, <1>2, CoreInvariance, PTL DEF Spec

-----------------------------------------------------------------------------
(* Nothing vanishes.                                                         *)

CallersHold == {t \in Tasks : \E c \in Callers : t \in caller[c].replaced}
Held        == PendingTasks(sched) \cup fence.drained \cup runner.replaced \cup BatchTasks \cup CallersHold

(* No task vanishes, said of the tasks nobody has reported. *)
LEMMA VanishRestated == Core => (NoTaskVanishes <=> unreported \subseteq Held)
<1> SUFFICES ASSUME Core PROVE NoTaskVanishes <=> unreported \subseteq Held
  OBVIOUS
<1>1. DOMAIN caller = Callers /\ unreported \subseteq Tasks
  BY CallersRestated DEF Core, HistoryOK
<1>2. QED
  BY <1>1 DEF NoTaskVanishes, Held, CallersHold, BatchTasks

(* Whoever keeps the batch keeps its tasks. *)
LEMMA BatchTasksStay ==
  ASSUME Core, Next, ~DrainBatch, ~StartTaskFails, ~PublishResults, ~RunFails
  PROVE  BatchTasks' = BatchTasks
<1>1. ASSUME Retouched
      PROVE  BatchTasks' = BatchTasks
  <2>1. DOMAIN batch' = DOMAIN batch /\ \A i \in DOMAIN batch : batch'[i].task = batch[i].task
    BY <1>1 DEF Retouched
  <2>2. QED
    BY <2>1 DEF BatchTasks
<1>2. ASSUME NEW c \in Callers, CallerStep(c)
      PROVE  Retouched
  <2>1. batch' = batch \/ \E I : CancelAt(I)
    BY <1>2 DEF CallerStep, Schedule, Lookup, Cancel, StoreReplaced, StoreReplacedFails,
                Snapshot, StoreQueued
  <2>2. QED
    BY <2>1, UnchangedRetouches, CancelAtRetouches
<1>3. ASSUME FenceStep
      PROVE  Retouched
  <2>1. batch' = batch \/ \E I : CancelAt(I)
    BY <1>3 DEF FenceStep, BlockRoot, DrainRoot, CancelRoot, StoreCancelled, StoreCancelledFails,
                FinishMaintenance
  <2>2. QED
    BY <2>1, UnchangedRetouches, CancelAtRetouches
<1>4. ASSUME RunnerStep
      PROVE  Retouched
  <2>1. CASE SkipTask \/ (CheckToken /\ Current.cancelled) \/ Work
    BY <2>1, EndsWithFinish, FinishRetouches
  <2>2. CASE \/ StartCancellableTasks \/ StartTask \/ (CheckToken /\ ~Current.cancelled)
             \/ PlanFollowUps \/ FollowUp \/ ReportReplaced \/ SnapshotFollowUps \/ StoreFollowUps
    <3>1. batch' = batch
      BY <2>2 DEF StartCancellableTasks, StartTask, CheckToken, PlanFollowUps, FollowUp,
                  ReportReplaced, SnapshotFollowUps, StoreFollowUps
    <3>2. QED
      BY <3>1, UnchangedRetouches
  <2>3. CASE CancelBlockedTasks \/ FinishCancellableTasks \/ MarkSupersededResult
    BY <2>3, CancelBlockedRetouches, FinishCancellableRetouches, MarkRetouches
  <2>4. QED
    BY <1>4, <2>1, <2>2, <2>3 DEF RunnerStep
<1>5. QED
  BY <1>1, <1>2, <1>3, <1>4 DEF Next

(* A step that only moves tasks from hand to hand. *)
LEMMA HandsKeep ==
  ASSUME Core, Core', NoTaskVanishes, NEW gone, unreported' \subseteq (unreported \ gone) \cup Held',
         Held \subseteq Held' \cup gone
  PROVE  NoTaskVanishes'
<1>1. unreported \subseteq Held
  BY VanishRestated
<1>2. unreported' \subseteq Held'
  BY <1>1
<1>3. Core'
  OBVIOUS
<1>4. (Core => (NoTaskVanishes <=> unreported \subseteq Held))'
  BY VanishRestated, PTL
<1>5. QED
  BY <1>2, <1>3, <1>4

(* A caller passes each unreported task on to somebody: the queue, itself or a row. *)
LEMMA CallerHands ==
  ASSUME Core, Core', NoTaskVanishes, NEW c \in Callers, CallerStep(c)
  PROVE  NoTaskVanishes'
<1>1. BatchTasks' = BatchTasks
  <2>1. Next /\ ~DrainBatch /\ ~StartTaskFails /\ ~PublishResults /\ ~RunFails
    <3>1. Next
      BY DEF Next
    <3>2. UNCHANGED runner
      BY DEF CallerStep, Schedule, Lookup, Cancel, StoreReplaced, StoreReplacedFails,
             Snapshot, StoreQueued
    <3>3. DrainBatch => runner'.pc # runner.pc
      BY DEF DrainBatch, Core, RunnerOK, RunnerRecords
    <3>4. StartTaskFails \/ PublishResults \/ RunFails => runner'.pc # runner.pc
      BY DEF StartTaskFails, PublishResults, RunFails, RunEnds, IdleRunner, Core, RunnerOK, RunnerRecords
    <3>5. QED
      BY <3>1, <3>2, <3>3, <3>4
  <2>2. QED
    BY <2>1, BatchTasksStay
<1>2. UNCHANGED <<fence, runner>>
  BY DEF CallerStep, Schedule, Lookup, Cancel, StoreReplaced, StoreReplacedFails,
         Snapshot, StoreQueued
<1>3. /\ caller \in [Callers -> CallerRecords]
      /\ GoodCaller(caller[c])
  BY CallersRestated DEF Core
<1>4. CASE Schedule(c)
  <2>1. PICK r, t : /\ Steady(sched, r) /\ Scheduled(r)
                    /\ caller[c] = IdleCaller
                    /\ \/ caller' = [caller EXCEPT ![c] = IdleCaller] /\ r.superseded = {}
                       \/ /\ caller' = [caller EXCEPT ![c] =
                               [IdleCaller EXCEPT !.pc = "lookup", !.request = {t},
                                                  !.replaced = r.superseded]]
                          /\ t \in Tasks
    BY <1>4, ScheduleCalls
  <2>2. /\ PendingTasks(sched) \subseteq PendingTasks(sched') \cup r.superseded
        /\ unreported' = unreported \cup (PendingTasks(sched') \ PendingTasks(sched))
        /\ r.superseded \in SUBSET Tasks
    BY <2>1 DEF Steady, GoodResult, Scheduled
  <2>3. /\ caller'[c].replaced = r.superseded
        /\ \A d \in Callers \ {c} : caller'[d] = caller[d]
    <3>1. CASE caller' = [caller EXCEPT ![c] = IdleCaller] /\ r.superseded = {}
      BY <1>3, <3>1 DEF IdleCaller
    <3>2. CASE caller' = [caller EXCEPT ![c] =
                 [IdleCaller EXCEPT !.pc = "lookup", !.request = {t}, !.replaced = r.superseded]]
      <4> DEFINE v == [IdleCaller EXCEPT !.pc = "lookup", !.request = {t}, !.replaced = r.superseded]
      <4>1. v.replaced = r.superseded
        BY DEF IdleCaller
      <4> HIDE DEF v
      <4>2. QED
        BY <1>3, <3>2, <4>1 DEF v
    <3>3. QED
      BY <2>1, <3>1, <3>2
  <2>4. r.superseded \cup CallersHold \subseteq CallersHold'
    <3>1. caller[c].replaced = {}
      BY <2>1 DEF IdleCaller
    <3>2. QED
      BY <2>2, <2>3, <3>1 DEF CallersHold
  <2>5. Held \subseteq Held'
    BY <1>1, <1>2, <2>2, <2>4 DEF Held
  <2>6. unreported' \subseteq unreported \cup Held'
    BY <2>2 DEF Held
  <2>7. QED
    BY <2>5, <2>6, HandsKeep
<1>5. CASE Lookup(c) \/ Cancel(c) \/ Snapshot(c) \/ StoreQueued(c)
  <2>1. UNCHANGED <<sched, unreported>>
    BY <1>5 DEF Lookup, Cancel, Snapshot, StoreQueued, history
  <2>2. /\ \A d \in Callers \ {c} : caller'[d] = caller[d]
        /\ caller'[c].replaced = caller[c].replaced
    <3>1. CASE Lookup(c)
      <4> DEFINE same == {t \in PendingTasks(sched) : \E asked \in caller[c].request : SameWork(t, asked)}
                 pc   == IF same = {} THEN "replaced" ELSE "cancel"
                 last == IF same = {} THEN {} ELSE {Latest(same)}
      <4>1. caller' = [caller EXCEPT ![c] = [caller[c] EXCEPT !.pc = pc, !.latest = last]]
        BY <3>1 DEF Lookup
      <4> HIDE DEF pc, last
      <4>2. QED
        BY <1>3, <4>1 DEF CallerRecords
    <3>2. CASE Cancel(c)
      BY <1>3, <3>2 DEF Cancel, CallerRecords
    <3>3. CASE Snapshot(c)
      <4> DEFINE waiting == {t \in PendingTasks(sched) : \E asked \in caller[c].request : t.root = asked.root}
      <4>1. caller' = [caller EXCEPT ![c] = [caller[c] EXCEPT !.pc = "queued", !.pending = waiting]]
        BY <3>3 DEF Snapshot
      <4> HIDE DEF waiting
      <4>2. QED
        BY <1>3, <4>1 DEF CallerRecords
    <3>4. CASE StoreQueued(c)
      <4>1. caller[c].replaced = {} /\ caller' = [caller EXCEPT ![c] = IdleCaller]
        BY <1>3, <3>4 DEF StoreQueued, GoodCaller
      <4>2. QED
        BY <1>3, <4>1 DEF IdleCaller
    <3>5. QED
      BY <1>5, <3>1, <3>2, <3>3, <3>4
  <2>3. CallersHold' = CallersHold
    BY <2>2 DEF CallersHold
  <2>4. Held \subseteq Held' \cup {}
    BY <1>1, <1>2, <2>1, <2>3 DEF Held
  <2>5. unreported' \subseteq (unreported \ {}) \cup Held'
    BY <2>1
  <2>6. QED
    BY <2>4, <2>5, HandsKeep
<1>6. CASE StoreReplaced(c) \/ StoreReplacedFails(c)
  <2>1. sched' = sched /\ unreported' = unreported \ caller[c].replaced
    BY <1>6 DEF StoreReplaced, StoreReplacedFails, Reported
  <2>2. \A d \in Callers \ {c} : caller'[d] = caller[d]
    BY <1>3, <1>6 DEF StoreReplaced, StoreReplacedFails
  <2>3. CallersHold \subseteq CallersHold' \cup caller[c].replaced
    BY <2>2 DEF CallersHold
  <2>4. Held \subseteq Held' \cup caller[c].replaced
    BY <1>1, <1>2, <2>1, <2>3 DEF Held
  <2>5. unreported' \subseteq (unreported \ caller[c].replaced) \cup Held'
    BY <2>1
  <2>6. QED
    BY <2>4, <2>5, HandsKeep
<1>7. QED
  BY <1>4, <1>5, <1>6 DEF CallerStep

(* So does the fence ... *)
LEMMA FenceHands ==
  ASSUME Core, Core', NoTaskVanishes, FenceStep
  PROVE  NoTaskVanishes'
<1>1. BatchTasks' = BatchTasks
  <2>1. Next /\ ~DrainBatch /\ ~StartTaskFails /\ ~PublishResults /\ ~RunFails
    <3>1. Next
      BY DEF Next
    <3>2. UNCHANGED runner
      BY DEF FenceStep, BlockRoot, DrainRoot, CancelRoot, StoreCancelled, StoreCancelledFails,
             FinishMaintenance
    <3>3. DrainBatch => runner'.pc # runner.pc
      BY DEF DrainBatch, Core, RunnerOK, RunnerRecords
    <3>4. StartTaskFails \/ PublishResults \/ RunFails => runner'.pc # runner.pc
      BY DEF StartTaskFails, PublishResults, RunFails, RunEnds, IdleRunner, Core, RunnerOK, RunnerRecords
    <3>5. QED
      BY <3>1, <3>2, <3>3, <3>4
  <2>2. QED
    BY <2>1, BatchTasksStay
<1>2. UNCHANGED <<caller, runner>>
  BY DEF FenceStep, BlockRoot, DrainRoot, CancelRoot, StoreCancelled, StoreCancelledFails,
         FinishMaintenance
<1>3. CallersHold' = CallersHold
  BY <1>2 DEF CallersHold
<1>4. CASE StoreCancelled \/ StoreCancelledFails
  <2>1. sched' = sched /\ unreported' = unreported \ fence.drained
    BY <1>4 DEF StoreCancelled, StoreCancelledFails, Reported
  <2>2. Held \subseteq Held' \cup fence.drained
    BY <1>1, <1>2, <1>3, <2>1 DEF Held
  <2>3. unreported' \subseteq (unreported \ fence.drained) \cup Held'
    BY <2>1
  <2>4. QED
    BY <2>2, <2>3, HandsKeep
<1>5. CASE ~StoreCancelled /\ ~StoreCancelledFails
  <2>1. unreported' = unreported
    BY <1>5 DEF FenceStep, BlockRoot, DrainRoot, CancelRoot, FinishMaintenance, history
  <2>2. PendingTasks(sched) \cup fence.drained \subseteq PendingTasks(sched') \cup fence'.drained
    <3>1. CASE \E root \in Maintained : DrainRoot(root)
      <4>1. PICK root \in Maintained : DrainRoot(root)
        BY <3>1
      <4>2. /\ sched' = DrainTasksForRoot(sched, root) /\ fence.drained = {}
            /\ fence'.drained = PendingTasksForRoot(sched, root)
            /\ root \in Roots
        BY <4>1, ManagerAssumption DEF DrainRoot, Core, FenceOK
      <4>3. PendingTasks(sched') = {t \in PendingTasks(sched) : t.root # root}
        BY <4>2, DrainRootOrdered DEF Core
      <4>4. QED
        BY <4>2, <4>3 DEF PendingTasksForRoot
    <3>2. CASE \E root \in Maintained : BlockRoot(root) \/ CancelRoot(root)
      BY <3>2 DEF BlockRoot, CancelRoot, Core, FenceOK
    <3>3. CASE FinishMaintenance
      BY <3>3 DEF FinishMaintenance, Core, FenceOK
    <3>4. QED
      BY <1>5, <3>1, <3>2, <3>3 DEF FenceStep
  <2>3. Held \subseteq Held' \cup {}
    BY <1>1, <1>2, <1>3, <2>2 DEF Held
  <2>4. unreported' \subseteq (unreported \ {}) \cup Held'
    BY <2>1
  <2>5. QED
    BY <2>3, <2>4, HandsKeep
<1>6. QED
  BY <1>4, <1>5

(* ... and so does the runner. *)
LEMMA RunnerHands ==
  ASSUME Core, Core', NoTaskVanishes, RunnerStep
  PROVE  NoTaskVanishes'
<1>1. UNCHANGED <<caller, fence>>
  BY DEF RunnerStep, DrainBatch, StartCancellableTasks, CancelBlockedTasks, SkipTask, StartTask,
         StartTaskFails, CheckToken, Work, FinishCancellableTasks, MarkSupersededResult,
         PlanFollowUps, FollowUp, ReportReplaced, SnapshotFollowUps, StoreFollowUps,
         PublishResults, RunFails
<1>2. CallersHold' = CallersHold
  BY <1>1 DEF CallersHold
<1>3. CASE DrainBatch
  <2>1. BatchTasks' \cup PendingTasks(sched') = PendingTasks(sched)
    BY <1>3, DrainBatchFacts
  <2>2. /\ BatchTasks = {} /\ unreported' = unreported /\ runner'.replaced = runner.replaced
    BY <1>3 DEF DrainBatch, Core, RunnerOK, RunnerRecords, BatchTasks, history
  <2>3. Held \subseteq Held' \cup {}
    BY <1>1, <1>2, <2>1, <2>2 DEF Held
  <2>4. unreported' \subseteq (unreported \ {}) \cup Held'
    BY <2>2
  <2>5. QED
    BY <2>3, <2>4, HandsKeep
<1>4. CASE StartTaskFails \/ PublishResults \/ RunFails
  <2> DEFINE gone == BatchTasks \cup runner.replaced
  <2>1. sched' = sched
    BY <1>4 DEF StartTaskFails, PublishResults, RunFails
  <2>2. unreported' \subseteq unreported \ gone
    <3>1. CASE StartTaskFails \/ PublishResults
      <4>1. runner.replaced = {}
        BY <3>1 DEF StartTaskFails, PublishResults, Core, RunnerOK, RunnerRecords
      <4>2. QED
        BY <3>1, <4>1 DEF StartTaskFails, PublishResults, Reported, BatchTasks
    <3>2. CASE RunFails
      BY <3>2 DEF RunFails, Reported, BatchTasks
    <3>3. QED
      BY <1>4, <3>1, <3>2
  <2>3. Held \subseteq Held' \cup gone
    BY <1>1, <1>2, <2>1 DEF Held
  <2> HIDE DEF gone
  <2>4. unreported' \subseteq (unreported \ gone) \cup Held'
    BY <2>2
  <2>5. QED
    BY <2>3, <2>4, HandsKeep
<1>5. CASE ~DrainBatch /\ ~StartTaskFails /\ ~PublishResults /\ ~RunFails
  <2>0. BatchTasks' = BatchTasks
    BY <1>5, BatchTasksStay DEF Next
  <2>1. CASE FollowUp
    <3> DEFINE r == CallResult(sched, Head(runner.calls))
    <3>1. Steady(sched, r) /\ Scheduled(r)
      BY <2>1, FollowUpCall
    <3>2. runner'.replaced = runner.replaced \cup r.superseded
      BY <2>1 DEF FollowUp, Core, RunnerOK, RunnerRecords
    <3> HIDE DEF r
    <3>3. /\ PendingTasks(sched) \subseteq PendingTasks(sched') \cup r.superseded
          /\ unreported' = unreported \cup (PendingTasks(sched') \ PendingTasks(sched))
      BY <3>1 DEF Steady, GoodResult, Scheduled
    <3>4. Held \subseteq Held' \cup {}
      BY <1>1, <1>2, <2>0, <3>2, <3>3 DEF Held
    <3>5. unreported' \subseteq (unreported \ {}) \cup Held'
      BY <3>3 DEF Held
    <3>6. QED
      BY <3>4, <3>5, HandsKeep
  <2>2. CASE ReportReplaced
    <3>1. sched' = sched /\ unreported' = unreported \ runner.replaced
      BY <2>2 DEF ReportReplaced, Reported
    <3>2. Held \subseteq Held' \cup runner.replaced
      BY <1>1, <1>2, <2>0, <3>1 DEF Held
    <3>3. unreported' \subseteq (unreported \ runner.replaced) \cup Held'
      BY <3>1
    <3>4. QED
      BY <3>2, <3>3, HandsKeep
  <2>3. CASE ~FollowUp /\ ~ReportReplaced
    <3>1. UNCHANGED <<sched, unreported>>
      BY <1>5, <2>3 DEF RunnerStep, StartCancellableTasks, CancelBlockedTasks, SkipTask, StartTask,
         CheckToken, Work, FinishCancellableTasks, MarkSupersededResult,
         PlanFollowUps, SnapshotFollowUps, StoreFollowUps, history
    <3>2. runner'.replaced = runner.replaced
      <4>1. CASE SkipTask \/ CheckToken \/ Work
        BY <4>1 DEF SkipTask, CheckToken, Work, Finish, Core, RunnerOK, RunnerRecords
      <4>2. CASE \/ StartCancellableTasks \/ CancelBlockedTasks \/ StartTask
                 \/ FinishCancellableTasks \/ MarkSupersededResult
        BY <4>2 DEF StartCancellableTasks, CancelBlockedTasks, StartTask,
           FinishCancellableTasks, MarkSupersededResult, Core, RunnerOK, RunnerRecords
      <4>3. CASE PlanFollowUps \/ SnapshotFollowUps \/ StoreFollowUps
        BY <4>3 DEF PlanFollowUps, SnapshotFollowUps, StoreFollowUps, Core, RunnerOK, RunnerRecords
      <4>4. QED
        BY <1>5, <2>3, <4>1, <4>2, <4>3 DEF RunnerStep
    <3>3. Held \subseteq Held' \cup {}
      BY <1>1, <1>2, <2>0, <3>1, <3>2 DEF Held
    <3>4. unreported' \subseteq (unreported \ {}) \cup Held'
      BY <3>1
    <3>5. QED
      BY <3>3, <3>4, HandsKeep
  <2>4. QED
    BY <2>1, <2>2, <2>3
<1>6. QED
  BY <1>3, <1>4, <1>5

(* A task the scheduler took is pending, in the batch or in the hands of a    *)
(* thread that is about to report its end, until a row says how it ended.     *)
THEOREM NoTaskIsLost == Spec => []NoTaskVanishes
<1>1. Init => NoTaskVanishes
  BY DEF Init, NoTaskVanishes
<1>2. Core /\ Core' /\ NoTaskVanishes /\ [Next]_vars => NoTaskVanishes'
  <2> SUFFICES ASSUME Core, Core', NoTaskVanishes, [Next]_vars
               PROVE  NoTaskVanishes'
    OBVIOUS
  <2>1. CASE UNCHANGED vars
    BY <2>1 DEF vars, NoTaskVanishes
  <2>2. CASE Next
    BY <2>2, CallerHands, FenceHands, RunnerHands DEF Next
  <2>3. QED
    BY <2>1, <2>2
<1>3. QED
  BY <1>1, <1>2, CoreInvariance, PTL DEF Spec

-----------------------------------------------------------------------------
(* What is published is not outdated.                                        *)

(* A pending request that replaces the result of old. *)
Outruns(t, old) ==
  /\ t.root = old.root
  /\ t.generation > old.generation
  /\ TaskSupersedesResult(t, StatusKind(old), old.reason)

Outrun(old) == \E t \in PendingTasks(sched) : Outruns(t, old)

(* What replaces a task that is outdated stays pending until the result was   *)
(* looked at, and the look makes the result a superseded one.  Only a watcher *)
(* task reloads, and it has its slot in the batch to itself.                  *)
OutdatedInv ==
  /\ outdated \subseteq BatchTasks
  /\ \A old \in outdated :
       Outrun(old) \/ \A i \in DOMAIN batch : batch[i].task = old => LookedAt(i)
  /\ \A i \in DOMAIN batch :
       LookedAt(i) /\ batch[i].task \in outdated =>
         batch[i].result \in {"superseded", "dropped", "reloaded"}
  /\ \A i \in DOMAIN batch : batch[i].result = "reloaded" => batch[i].task.reason = "watcher"
  /\ BatchSlots

(* A request that replaces what outruns old outruns old too. *)
LEMMA OutrunsIsTransitive ==
  ASSUME NEW old \in Tasks, NEW t \in Tasks, NEW n \in Tasks, Outruns(t, old),
         n.generation > t.generation, TasksCanCoalesce(n, t) \/ Replaces(n, t)
  PROVE  Outruns(n, old)
<1>1. n.generation > old.generation /\ n.root = old.root
  BY DEF Outruns, Tasks, TasksCanCoalesce, Replaces
<1>2. TaskSupersedesResult(n, StatusKind(old), old.reason)
  <2> DEFINE k == StatusKind(old)
  <2>1. <<t.kind, k>> \in TaskKindReplacesPending /\ TaskSupersedesResult(t, k, old.reason)
    BY DEF Outruns, TaskSupersedesResult, TaskKindSupersedesResult
  <2> HIDE DEF k
  <2>2. CASE TasksCanCoalesce(n, t)
    BY <2>1, <2>2 DEF TasksCanCoalesce, TaskSupersedesResult, TaskKindSupersedesResult, k
  <2>3. CASE Replaces(n, t)
    <3>1. <<n.kind, t.kind>> \in TaskKindReplacesPending /\ n.kind # "changed-paths"
      BY <2>3 DEF Replaces
    <3>2. <<n.kind, k>> \in TaskKindReplacesPending
      BY <2>1, <3>1 DEF TaskKindReplacesPending
    <3>3. QED
      BY <3>1, <3>2 DEF TaskSupersedesResult, TaskKindSupersedesResult, k
  <2>4. QED
    BY <2>2, <2>3
<1>3. QED
  BY <1>1, <1>2 DEF Outruns

(* A scheduling call leaves outdated tasks outrun. *)
LEMMA ScheduledOutruns ==
  ASSUME Core, NEW r, Steady(sched, r), sched' = r.scheduler, NEW old \in Tasks, Outrun(old)
  PROVE  Outrun(old)'
<1>1. PICK t \in PendingTasks(sched) : Outruns(t, old)
  BY DEF Outrun
<1>2. /\ PendingTasks(sched) \subseteq PendingTasks(sched') \cup r.superseded
      /\ \A gone \in r.superseded : \E new \in PendingTasks(sched') :
           /\ new.generation > gone.generation
           /\ TasksCanCoalesce(new, gone) \/ Replaces(new, gone)
      /\ sched' \in Schedulers
  BY DEF Steady, GoodResult
<1>3. t \in Tasks /\ PendingTasks(sched') \subseteq Tasks
  BY <1>2, CoreFacts, PendingType
<1>4. CASE t \in PendingTasks(sched')
  BY <1>1, <1>4 DEF Outrun
<1>5. CASE t \in r.superseded
  <2>1. PICK n \in PendingTasks(sched') : /\ n.generation > t.generation
                                          /\ TasksCanCoalesce(n, t) \/ Replaces(n, t)
    BY <1>2, <1>5
  <2>2. Outruns(n, old)
    BY <1>1, <1>3, <2>1, OutrunsIsTransitive
  <2>3. QED
    BY <2>2 DEF Outrun
<1>6. QED
  BY <1>1, <1>2, <1>4, <1>5

(* A step that changes no result and neither schedules nor looks.             *)
LEMMA NothingLookedAt ==
  ASSUME Core, OutdatedInv, Retouched, outdated' = outdated,
         PendingTasks(sched') = PendingTasks(sched),
         \A i \in DOMAIN batch : /\ batch'[i].result = batch[i].result
                                 /\ LookedAt(i)' <=> LookedAt(i)
  PROVE  OutdatedInv'
<1>1. DOMAIN batch' = DOMAIN batch /\ \A i \in DOMAIN batch : batch'[i].task = batch[i].task
  BY DEF Retouched
<1>2. BatchTasks' = BatchTasks
  BY <1>1 DEF BatchTasks
<1>3. BatchSlots'
  <2>1. [i \in DOMAIN batch' |-> batch'[i].task] = [i \in DOMAIN batch |-> batch[i].task]
    BY <1>1
  <2>2. QED
    BY <2>1 DEF OutdatedInv, BatchSlots
<1>4. \A old \in outdated' :
        Outrun(old)' \/ \A i \in DOMAIN batch' : batch'[i].task = old => LookedAt(i)'
  <2>1. \A old : Outrun(old) => Outrun(old)'
    BY DEF Outrun
  <2>2. QED
    BY <1>1, <2>1 DEF OutdatedInv
<1>5. \A i \in DOMAIN batch' :
        /\ LookedAt(i)' /\ batch'[i].task \in outdated' =>
             batch'[i].result \in {"superseded", "dropped", "reloaded"}
        /\ batch'[i].result = "reloaded" => batch'[i].task.reason = "watcher"
  BY <1>1 DEF OutdatedInv
<1>6. QED
  BY <1>2, <1>3, <1>4, <1>5 DEF OutdatedInv

(* A task that ends with a result keeps the invariant: its result has not been looked at yet. *)
LEMMA FinishOutdated ==
  ASSUME Core, OutdatedInv, SkipTask \/ (CheckToken /\ Current.cancelled) \/ Work
  PROVE  OutdatedInv'
<1>1. PICK result \in Results : /\ Finish(result)
                                /\ result = "reloaded" => Current.task.reason = "watcher"
  BY EndsWithFinish
<1>2. /\ runner.pc \in {"starting", "checking", "working"}
      /\ sched' = sched /\ outdated' = outdated
  BY EndsWithFinish DEF history
<1>3. /\ Retouched
      /\ \A i \in DOMAIN batch :
           batch'[i].result = IF i = runner.at THEN result ELSE batch[i].result
  BY <1>1, <1>2, FinishRetouches
<1>4. runner'.pc \in {"starting", "ran"}
  BY <1>1 DEF Finish, Core, RunnerOK, RunnerRecords
<1>5. \A i \in DOMAIN batch : ~LookedAt(i) /\ ~LookedAt(i)'
  BY <1>2, <1>4 DEF LookedAt
<1>6. DOMAIN batch' = DOMAIN batch /\ \A i \in DOMAIN batch : batch'[i].task = batch[i].task
  BY <1>3 DEF Retouched
<1>7. BatchTasks' = BatchTasks
  BY <1>6 DEF BatchTasks
<1>8. BatchSlots'
  <2>1. [i \in DOMAIN batch' |-> batch'[i].task] = [i \in DOMAIN batch |-> batch[i].task]
    BY <1>6
  <2>2. QED
    BY <2>1 DEF OutdatedInv, BatchSlots
<1>9. \A old \in outdated' : Outrun(old)'
  <2>1. \A old \in outdated : \E i \in DOMAIN batch : batch[i].task = old
    BY DEF OutdatedInv, BatchTasks
  <2>2. \A old \in outdated : Outrun(old)
    BY <1>5, <2>1 DEF OutdatedInv
  <2>3. QED
    BY <1>2, <2>2 DEF Outrun
<1>10. \A i \in DOMAIN batch' : batch'[i].result = "reloaded" => batch'[i].task.reason = "watcher"
  BY <1>1, <1>3, <1>6 DEF OutdatedInv, Current
<1>11. QED
  BY <1>2, <1>5, <1>6, <1>7, <1>8, <1>9, <1>10 DEF OutdatedInv

(* The look. *)
LEMMA MarkOutdated ==
  ASSUME Core, OutdatedInv, MarkSupersededResult
  PROVE  OutdatedInv'
<1> DEFINE at == runner.at
<1>1. /\ runner.pc = "marking" /\ sched' = sched /\ outdated' = outdated
      /\ at \in DOMAIN batch /\ DOMAIN batch = 1..Len(batch) /\ Len(batch) \in Nat
  BY CoreFacts DEF MarkSupersededResult, history, Core, RunnerOK, AtATask
<1>2. /\ Retouched
      /\ \A i \in DOMAIN batch :
           batch'[i].result =
             IF i = at /\ batch[i].result # "dropped" /\ HasNewerPendingTask(batch[i])
             THEN "superseded" ELSE batch[i].result
  BY MarkRetouches
<1>3. \A i \in DOMAIN batch : /\ LookedAt(i) <=> i < at
                              /\ LookedAt(i)' <=> i <= at
  <2>1. \A i \in DOMAIN batch : LookedAt(i) <=> i < at
    BY <1>1 DEF LookedAt
  <2>2. CASE at = Len(batch)
    <3>1. runner'.pc = "following"
      BY <2>2 DEF MarkSupersededResult, Core, RunnerOK, RunnerRecords
    <3>2. \A i \in DOMAIN batch : LookedAt(i)' /\ i <= at
      BY <1>1, <2>2, <3>1 DEF LookedAt
    <3>3. QED
      BY <2>1, <3>2
  <2>3. CASE at # Len(batch)
    <3>1. runner'.pc = "marking" /\ runner'.at = at + 1
      BY <1>1, <2>3 DEF MarkSupersededResult, Core, RunnerOK, RunnerRecords
    <3>2. \A i \in DOMAIN batch : LookedAt(i)' <=> i <= at
      BY <1>1, <3>1 DEF LookedAt
    <3>3. QED
      BY <2>1, <3>2
  <2>4. QED
    BY <2>2, <2>3
<1>4. DOMAIN batch' = DOMAIN batch /\ \A i \in DOMAIN batch : batch'[i].task = batch[i].task
  BY <1>2 DEF Retouched
<1>5. BatchTasks' = BatchTasks
  BY <1>4 DEF BatchTasks
<1>6. BatchSlots'
  <2>1. [i \in DOMAIN batch' |-> batch'[i].task] = [i \in DOMAIN batch |-> batch[i].task]
    BY <1>4
  <2>2. QED
    BY <2>1 DEF OutdatedInv, BatchSlots
<1>7. \A old \in outdated' :
        Outrun(old)' \/ \A i \in DOMAIN batch' : batch'[i].task = old => LookedAt(i)'
  <2>1. \A old : Outrun(old) => Outrun(old)'
    BY <1>1 DEF Outrun
  <2>2. \A i \in DOMAIN batch : LookedAt(i) => LookedAt(i)'
    BY <1>1, <1>3
  <2>3. QED
    BY <1>1, <1>4, <2>1, <2>2 DEF OutdatedInv
<1>8. batch[at].task \in outdated =>
        batch'[at].result \in {"superseded", "dropped", "reloaded"}
  <2> SUFFICES ASSUME batch[at].task \in outdated,
                      batch[at].result \notin {"superseded", "dropped", "reloaded"}
               PROVE  batch'[at].result = "superseded"
    BY <1>1, <1>2
  <2> DEFINE e == batch[at]
  <2>1. Outrun(e.task)
    BY <1>1, <1>3 DEF OutdatedInv
  <2>2. PICK t \in PendingTasks(sched) : Outruns(t, e.task)
    BY <2>1 DEF Outrun
  <2>3. ResultId(e)[2] = StatusKind(e.task) /\ ResultReason(e) = e.task.reason
    BY DEF ResultId, ResultReason, RowId
  <2>4. t \in PendingTasksForRoot(sched, e.task.root)
    BY <2>2 DEF Outruns, PendingTasksForRoot
  <2>5. ~ShouldPublishTaskResult(e.task.generation, t.generation)
    <3>1. e.task \in Tasks /\ t \in Tasks
      BY <1>1, CoreFacts
    <3>2. QED
      BY <2>2, <3>1 DEF Outruns, ShouldPublishTaskResult, Tasks
  <2>6. HasNewerPendingTask(e)
    BY <2>2, <2>3, <2>4, <2>5 DEF HasNewerPendingTask, Outruns
  <2>7. QED
    BY <1>1, <1>2, <2>6
<1>9. \A i \in DOMAIN batch' :
        LookedAt(i)' /\ batch'[i].task \in outdated' =>
          batch'[i].result \in {"superseded", "dropped", "reloaded"}
  <2> SUFFICES ASSUME NEW i \in DOMAIN batch, LookedAt(i)', batch[i].task \in outdated
               PROVE  batch'[i].result \in {"superseded", "dropped", "reloaded"}
    BY <1>1, <1>4
  <2>1. CASE i = at
    BY <1>8, <2>1
  <2>2. CASE i # at
    <3>1. LookedAt(i) /\ batch'[i].result = batch[i].result
      BY <1>1, <1>2, <1>3, <2>2
    <3>2. QED
      BY <3>1 DEF OutdatedInv
  <2>3. QED
    BY <2>1, <2>2
<1>10. \A i \in DOMAIN batch' : batch'[i].result = "reloaded" => batch'[i].task.reason = "watcher"
  BY <1>2, <1>4 DEF OutdatedInv
<1>11. outdated' \subseteq BatchTasks'
  BY <1>1, <1>5 DEF OutdatedInv
<1>12. QED
  BY <1>6, <1>7, <1>9, <1>10, <1>11 DEF OutdatedInv

(* A scheduling call makes tasks outdated that nobody looked at yet, and by   *)
(* tasks that are pending then.                                               *)
LEMMA ScheduledOutdated ==
  ASSUME Core, OutdatedInv, NEW r, Steady(sched, r), Scheduled(r), batch' = batch,
         \A i \in DOMAIN batch : LookedAt(i)' <=> LookedAt(i)
  PROVE  OutdatedInv'
<1> DEFINE new   == PendingTasks(r.scheduler) \ PendingTasks(sched)
           fresh == {old \in Unmarked : \E t \in new : Outruns(t, old)}
<1>1. sched' = r.scheduler /\ outdated' = outdated \cup fresh
  BY DEF Scheduled, Outruns
<1>2. /\ fresh \subseteq BatchTasks
      /\ \A old \in fresh : \A i \in DOMAIN batch : batch[i].task = old => ~LookedAt(i)
  BY DEF Unmarked, BatchTasks
<1>3. \A old \in fresh : Outrun(old)'
  BY <1>1 DEF Outrun
<1> HIDE DEF fresh
<1>4. BatchTasks' = BatchTasks /\ BatchSlots'
  BY DEF BatchTasks, OutdatedInv, BatchSlots
<1>5. \A old \in outdated' :
        Outrun(old)' \/ \A i \in DOMAIN batch' : batch'[i].task = old => LookedAt(i)'
  <2> SUFFICES ASSUME NEW old \in outdated
               PROVE  Outrun(old)' \/ \A i \in DOMAIN batch : batch[i].task = old => LookedAt(i)'
    BY <1>1, <1>3
  <2>1. old \in Tasks
    BY DEF Core, HistoryOK
  <2>2. CASE Outrun(old)
    BY <1>1, <2>1, <2>2, ScheduledOutruns
  <2>3. CASE ~Outrun(old)
    BY <2>3 DEF OutdatedInv
  <2>4. QED
    BY <2>2, <2>3
<1>6. \A i \in DOMAIN batch' :
        /\ LookedAt(i)' /\ batch'[i].task \in outdated' =>
             batch'[i].result \in {"superseded", "dropped", "reloaded"}
        /\ batch'[i].result = "reloaded" => batch'[i].task.reason = "watcher"
  BY <1>1, <1>2 DEF OutdatedInv
<1>7. outdated' \subseteq BatchTasks'
  BY <1>1, <1>2, <1>4 DEF OutdatedInv
<1>8. QED
  BY <1>4, <1>5, <1>6, <1>7 DEF OutdatedInv

(* The fence takes tasks away from the queue, and never the newer task of a result still to publish. *)
LEMMA DrainRootOutdated ==
  ASSUME Core, OutdatedInv, NEW root \in Maintained, DrainRoot(root)
  PROVE  OutdatedInv'
<1>1. /\ sched' = DrainTasksForRoot(sched, root) /\ root \in Roots
      /\ outdated' = {t \in outdated : t.root # root}
      /\ UNCHANGED <<batch, runner>>
  BY ManagerAssumption DEF DrainRoot
<1>2. PendingTasks(sched') = {t \in PendingTasks(sched) : t.root # root}
  BY <1>1, DrainRootOrdered DEF Core
<1>3. \A old \in outdated' : Outrun(old) => Outrun(old)'
  BY <1>1, <1>2 DEF Outrun, Outruns
<1>4. /\ BatchTasks' = BatchTasks /\ BatchSlots'
      /\ \A i \in DOMAIN batch : LookedAt(i)' <=> LookedAt(i)
  BY <1>1 DEF BatchTasks, OutdatedInv, BatchSlots, LookedAt
<1>5. QED
  BY <1>1, <1>3, <1>4 DEF OutdatedInv

(* A batch that starts or ends leaves no task outdated. *)
LEMMA BatchEndsOutdated ==
  ASSUME Core, OutdatedInv, DrainBatch \/ StartTaskFails \/ PublishResults \/ RunFails
  PROVE  OutdatedInv'
<1>1. CASE DrainBatch
  <2>1. BatchSlots'
    BY <1>1, DrainBatchFacts
  <2>2. outdated' = {}
    BY <1>1 DEF DrainBatch, history, OutdatedInv, BatchTasks, Core, RunnerOK
  <2>3. \A i \in DOMAIN batch' : batch'[i].result = "none"
    BY <1>1 DEF DrainBatch
  <2>4. QED
    BY <2>1, <2>2, <2>3 DEF OutdatedInv
<1>2. CASE StartTaskFails \/ PublishResults \/ RunFails
  <2>1. batch' = <<>> /\ outdated' = {}
    BY <1>2 DEF StartTaskFails, PublishResults, RunFails, RunEnds
  <2>2. BatchSlots'
    BY <2>1 DEF BatchSlots, OnePerSlot
  <2>3. QED
    BY <2>1, <2>2 DEF OutdatedInv
<1>3. QED
  BY <1>1, <1>2

(* The invariant behind NothingOutdatedIsPublished is inductive, given Core. *)
LEMMA OutdatedStep ==
  ASSUME Core, OutdatedInv, [Next]_vars
  PROVE  OutdatedInv'
<1>1. ASSUME UNCHANGED <<sched, outdated>>, Retouched,
             \A i \in DOMAIN batch : batch'[i].result = batch[i].result,
             runner' = runner \/ (\A i \in DOMAIN batch : LookedAt(i)' <=> LookedAt(i))
      PROVE  OutdatedInv'
  <2>1. \A i \in DOMAIN batch : LookedAt(i)' <=> LookedAt(i)
    BY <1>1 DEF LookedAt
  <2>2. QED
    BY <1>1, <2>1, NothingLookedAt
<1>2. ASSUME UNCHANGED <<sched, outdated, batch>>,
             runner' = runner \/ (\A i \in DOMAIN batch : LookedAt(i)' <=> LookedAt(i))
      PROVE  OutdatedInv'
  BY <1>1, <1>2, UnchangedRetouches
<1>3. CASE UNCHANGED vars
  BY <1>2, <1>3 DEF vars
<1>4. ASSUME NEW c \in Callers, CallerStep(c)
      PROVE  OutdatedInv'
  <2>1. CASE Schedule(c)
    <3>1. PICK r : Steady(sched, r) /\ Scheduled(r)
      BY <2>1, ScheduleCalls
    <3>2. UNCHANGED <<batch, runner>>
      BY <2>1 DEF Schedule
    <3>3. QED
      BY <3>1, <3>2, ScheduledOutdated DEF LookedAt
  <2>2. CASE Cancel(c)
    <3>1. PICK I : CancelAt(I)
      BY <2>2 DEF Cancel
    <3>2. UNCHANGED <<sched, outdated, runner>>
      BY <2>2 DEF Cancel, history
    <3>3. QED
      BY <1>1, <3>1, <3>2, CancelAtRetouches
  <2>3. CASE Lookup(c) \/ StoreReplaced(c) \/ StoreReplacedFails(c) \/ Snapshot(c) \/ StoreQueued(c)
    BY <1>2, <2>3 DEF Lookup, StoreReplaced, StoreReplacedFails, Snapshot, StoreQueued, history
  <2>4. QED
    BY <1>4, <2>1, <2>2, <2>3 DEF CallerStep
<1>5. ASSUME FenceStep
      PROVE  OutdatedInv'
  <2>1. ASSUME NEW root \in Maintained, CancelRoot(root)
        PROVE  OutdatedInv'
    <3>1. PICK I : CancelAt(I)
      BY <2>1 DEF CancelRoot
    <3>2. UNCHANGED <<sched, outdated, runner>>
      BY <2>1 DEF CancelRoot, history
    <3>3. QED
      BY <1>1, <3>1, <3>2, CancelAtRetouches
  <2>2. CASE StoreCancelled \/ StoreCancelledFails \/ FinishMaintenance
    BY <1>2, <2>2 DEF StoreCancelled, StoreCancelledFails, FinishMaintenance, history
  <2>3. ASSUME NEW root \in Maintained, BlockRoot(root)
        PROVE  OutdatedInv'
    BY <1>2, <2>3 DEF BlockRoot, history
  <2>4. QED
    BY <1>5, <2>1, <2>2, <2>3, DrainRootOutdated DEF FenceStep
<1>6. ASSUME RunnerStep
      PROVE  OutdatedInv'
  <2>1. CASE SkipTask \/ (CheckToken /\ Current.cancelled) \/ Work
    BY <2>1, FinishOutdated
  <2>2. CASE DrainBatch \/ StartTaskFails \/ PublishResults \/ RunFails
    BY <2>2, BatchEndsOutdated
  <2>3. CASE MarkSupersededResult
    BY <2>3, MarkOutdated
  <2>4. CASE FollowUp
    <3>1. Steady(sched, CallResult(sched, Head(runner.calls)))
          /\ Scheduled(CallResult(sched, Head(runner.calls)))
      BY <2>4, FollowUpCall
    <3>2. batch' = batch /\ runner.pc = "following" /\ runner'.pc = "following"
      BY <2>4 DEF FollowUp, Core, RunnerOK, RunnerRecords
    <3>3. \A i \in DOMAIN batch : LookedAt(i)' <=> LookedAt(i)
      BY <3>2 DEF LookedAt
    <3>4. QED
      BY <3>1, <3>2, <3>3, ScheduledOutdated
  <2>5. CASE StartCancellableTasks \/ StartTask \/ (CheckToken /\ ~Current.cancelled)
    <3>1. UNCHANGED <<sched, outdated, batch>>
      BY <2>5 DEF StartCancellableTasks, StartTask, CheckToken, history
    <3>2. /\ runner.pc \in {"drained", "starting", "checking"}
          /\ runner'.pc \in {"registered", "checking", "working"}
      BY <2>5 DEF StartCancellableTasks, StartTask, CheckToken, Core, RunnerOK, RunnerRecords
    <3>3. \A i \in DOMAIN batch : LookedAt(i)' <=> LookedAt(i)
      BY <3>2 DEF LookedAt
    <3>4. QED
      BY <1>2, <3>1, <3>3
  <2>6. CASE PlanFollowUps \/ ReportReplaced \/ SnapshotFollowUps \/ StoreFollowUps
    <3>1. UNCHANGED <<sched, outdated, batch>>
      BY <2>6 DEF PlanFollowUps, ReportReplaced, SnapshotFollowUps, StoreFollowUps, history
    <3>2. runner.pc \in AfterMark /\ runner'.pc \in AfterMark
      BY <2>6 DEF PlanFollowUps, ReportReplaced, SnapshotFollowUps, StoreFollowUps, AfterMark,
                  Core, RunnerOK, RunnerRecords
    <3>3. \A i \in DOMAIN batch : LookedAt(i)' <=> LookedAt(i)
      BY <3>2 DEF LookedAt, AfterMark
    <3>4. QED
      BY <1>2, <3>1, <3>3
  <2>7. CASE CancelBlockedTasks
    <3>1. UNCHANGED <<sched, outdated>>
      BY <2>7 DEF CancelBlockedTasks, history
    <3>2. runner.pc = "registered" /\ runner'.pc = "starting"
      BY <2>7 DEF CancelBlockedTasks, Core, RunnerOK, RunnerRecords
    <3>3. \A i \in DOMAIN batch : LookedAt(i)' <=> LookedAt(i)
      BY <3>2 DEF LookedAt
    <3>4. QED
      BY <1>1, <2>7, <3>1, <3>3, CancelBlockedRetouches
  <2>8. CASE FinishCancellableTasks
    <3>1. UNCHANGED <<sched, outdated>>
      BY <2>8 DEF FinishCancellableTasks, history
    <3>2. runner.pc = "ran" /\ runner'.pc = "marking" /\ runner'.at = 1
      BY <2>8 DEF FinishCancellableTasks, Core, RunnerOK, RunnerRecords
    <3>3. \A i \in DOMAIN batch : i \in Nat /\ i >= 1
      BY CoreFacts
    <3>4. \A i \in DOMAIN batch : LookedAt(i)' <=> LookedAt(i)
      BY <3>2, <3>3 DEF LookedAt
    <3>5. QED
      BY <1>1, <2>8, <3>1, <3>4, FinishCancellableRetouches
  <2>9. QED
    BY <1>6, <2>1, <2>2, <2>3, <2>4, <2>5, <2>6, <2>7, <2>8 DEF RunnerStep
<1>7. QED
  BY <1>3, <1>4, <1>5, <1>6 DEF Next

(* A looked-at result with a newer task of its slot still waiting is marked superseded,
   in every behaviour of the manager. *)
THEOREM OutdatedInvariance == Spec => []OutdatedInv
<1>1. Init => OutdatedInv
  <2> SUFFICES ASSUME Init
               PROVE  OutdatedInv
    OBVIOUS
  <2>1. batch = <<>> /\ outdated = {}
    BY DEF Init
  <2>2. BatchSlots
    BY <2>1 DEF BatchSlots, OnePerSlot
  <2>3. QED
    BY <2>1, <2>2 DEF OutdatedInv
<1>2. Core /\ OutdatedInv /\ [Next]_vars => OutdatedInv'
  BY OutdatedStep
<1>3. QED
  BY <1>1, <1>2, CoreInvariance, PTL DEF Spec

(* A result is not published as current when a request that replaces its task *)
(* was scheduled before the result was looked at.                             *)
THEOREM NothingOutdatedIsPublished == Spec => OutdatedNotPublished
<1> DEFINE A == \A i \in DOMAIN batch :
                  batch[i].result # "reloaded" =>
                    batch[i].task \notin (published' \ published) \cap outdated
<1>1. ASSUME Core, OutdatedInv, Next
      PROVE  A
  <2> SUFFICES ASSUME NEW i \in DOMAIN batch, batch[i].task \in published' \ published,
                      batch[i].task \in outdated
               PROVE  batch[i].result = "reloaded"
    OBVIOUS
  <2>1. runner.pc = "publishing" /\ \E R : Publish(R)
    <3>1. published' # published
      OBVIOUS
    <3>2. CASE RunnerStep
      BY <3>1, <3>2 DEF RunnerStep, DrainBatch, StartCancellableTasks, CancelBlockedTasks, SkipTask,
         StartTask, StartTaskFails, CheckToken, Work, FinishCancellableTasks, MarkSupersededResult,
         PlanFollowUps, FollowUp, ReportReplaced, SnapshotFollowUps, StoreFollowUps,
         PublishResults, RunFails, history
    <3>3. CASE FenceStep
      BY <3>1, <3>3 DEF FenceStep, BlockRoot, DrainRoot, CancelRoot, StoreCancelled,
         StoreCancelledFails, FinishMaintenance, history
    <3>4. ASSUME NEW c \in Callers, CallerStep(c)
          PROVE  FALSE
      BY <3>1, <3>4 DEF CallerStep, Schedule, Lookup, Cancel, StoreReplaced, StoreReplacedFails,
         Snapshot, StoreQueued, history
    <3>5. QED
      BY <1>1, <3>2, <3>3, <3>4 DEF Next
  <2>2. PICK j \in DOMAIN batch : /\ batch[j].task = batch[i].task
                                  /\ batch[j].result \notin {"dropped", "superseded"}
    BY <1>1, <2>1, PublishType
  <2>3. LookedAt(j)
    BY <2>1 DEF LookedAt
  <2>4. batch[j].result = "reloaded" /\ batch[j].task.reason = "watcher"
    BY <1>1, <2>2, <2>3 DEF OutdatedInv
  <2>5. i = j
    <3> SUFFICES ASSUME i # j
                 PROVE  FALSE
      OBVIOUS
    <3> DEFINE q == [k \in DOMAIN batch |-> batch[k].task]
    <3>1. /\ OnePerSlot(q) /\ i \in DOMAIN q /\ j \in DOMAIN q
          /\ q[i] = batch[i].task /\ q[j] = batch[j].task
      BY <1>1 DEF OutdatedInv, BatchSlots
    <3> HIDE DEF q
    <3>2. Apart(q[i], q[j])
      BY <2>2, <2>4, <3>1 DEF OnePerSlot, DeepReasons
    <3>3. q[i] = q[j]
      BY <2>2, <3>1
    <3>4. QED
      BY <3>2, <3>3 DEF Apart, TasksCanCoalesce
  <2>6. QED
    BY <2>4, <2>5
<1>2. ASSUME UNCHANGED vars
      PROVE  A
  BY <1>2 DEF vars
<1>3. Core /\ OutdatedInv /\ [Next]_vars => [A]_vars
  BY <1>1, <1>2
<1>4. QED
  BY <1>3, CoreInvariance, OutdatedInvariance, PTL DEF Spec, OutdatedNotPublished

-----------------------------------------------------------------------------
(* The newest is published last.                                             *)

(* Of the tasks that have a number of their own, none that is pending is      *)
(* cancelled by one that is pending, in the batch or published, and none in   *)
(* the batch by one in the batch or published: what would cancel it replaced  *)
(* it in the queue, or is still to come.                                      *)
Uncancelled(T, by) == \A t \in T : ~KeepsNumber(t) => \A d \in by : ~CancelsActive(d, t)

NewestInv ==
  /\ Uncancelled(PendingTasks(sched), PendingTasks(sched) \cup BatchTasks \cup published)
  /\ Uncancelled(BatchTasks, BatchTasks \cup published)
  /\ \A d \in published : d.generation <= sched.generation

(* A new task never lets an older one of its slot come after it. *)
LEMMA ScheduledNewest ==
  ASSUME Core, NewestInv, NEW r, Steady(sched, r), sched' = r.scheduler,
         batch' = batch, published' = published
  PROVE  NewestInv'
<1> DEFINE others == BatchTasks \cup published
<1>1. /\ sched'.generation \in Nat /\ sched.generation \in Nat
      /\ sched'.generation >= sched.generation
      /\ PendingTasks(sched') \subseteq Tasks
  BY PendingType DEF Steady, GoodResult, Ordered, Schedulers, Core
<1>2. BatchTasks' = BatchTasks
  BY DEF BatchTasks
<1>3. \A d \in PendingTasks(sched) \cup others : d \in Tasks /\ d.generation <= sched.generation
  <2>1. \A d \in PendingTasks(sched) : d \in Tasks /\ d.generation \in 1..sched.generation
    BY CoreFacts DEF Core, Ordered
  <2>2. \A d \in BatchTasks : d \in Tasks /\ d.generation \in 1..sched.generation
    BY CoreFacts DEF Core, BatchOK, BatchTasks
  <2>3. \A d \in published : d \in Tasks /\ d.generation <= sched.generation
    BY DEF Core, HistoryOK, NewestInv
  <2>4. QED
    BY <1>1, <2>1, <2>2, <2>3
<1>4. ASSUME NEW t \in PendingTasks(sched'), ~KeepsNumber(t),
             NEW d \in PendingTasks(sched') \cup others, CancelsActive(d, t)
      PROVE  FALSE
  <2>1. d \in PendingTasks(sched) \cup others
    BY <1>4 DEF Steady
  <2>2. t \notin PendingTasks(sched)
    BY <1>4, <2>1 DEF NewestInv, Uncancelled
  <2>3. t.generation > sched.generation /\ t.generation \in Nat
    BY <1>1, <1>4, <2>2 DEF Steady, Tasks
  <2>4. d.generation > t.generation /\ d.generation \in Nat /\ d.generation <= sched.generation
    BY <1>3, <1>4, <2>1 DEF CancelsActive, Tasks
  <2>5. QED
    BY <1>1, <2>3, <2>4
<1>5. \A d \in published' : d.generation <= sched'.generation
  <2>1. \A d \in published : d.generation \in Nat
    BY DEF Core, HistoryOK, Tasks
  <2>2. QED
    BY <1>1, <2>1 DEF NewestInv
<1>6. QED
  BY <1>2, <1>4, <1>5 DEF NewestInv, Uncancelled

(* A step that schedules nothing: tasks only move on, or leave.               *)
LEMMA MovesKeepNewest ==
  ASSUME Core, NewestInv, sched'.generation = sched.generation,
         PendingTasks(sched') \subseteq PendingTasks(sched),
         \/ BatchTasks' \subseteq BatchTasks /\ published' \subseteq published \cup BatchTasks
         \/ /\ BatchTasks = {} /\ published' = published
            /\ BatchTasks' \subseteq PendingTasks(sched)
  PROVE  NewestInv'
<1>1. \A d \in BatchTasks : d.generation <= sched.generation
  <2>1. \A d \in BatchTasks : d.generation \in 1..sched.generation
    BY DEF Core, BatchOK, BatchTasks
  <2>2. QED
    BY <2>1, CoreFacts
<1>2. \A d \in published' : d.generation <= sched'.generation
  BY <1>1 DEF NewestInv
<1>3. CASE BatchTasks' \subseteq BatchTasks /\ published' \subseteq published \cup BatchTasks
  BY <1>2, <1>3 DEF NewestInv, Uncancelled
<1>4. CASE /\ BatchTasks = {} /\ published' = published
           /\ BatchTasks' \subseteq PendingTasks(sched)
  BY <1>2, <1>4 DEF NewestInv, Uncancelled
<1>5. QED
  BY <1>3, <1>4

(* The invariant behind NothingOlderIsPublished is inductive, given Core. *)
LEMMA NewestStep ==
  ASSUME Core, NewestInv, [Next]_vars
  PROVE  NewestInv'
<1>1. CASE UNCHANGED vars
  BY <1>1, MovesKeepNewest DEF vars, BatchTasks
<1>2. CASE Next /\ DrainBatch
  <2>1. /\ sched'.generation = sched.generation
        /\ BatchTasks' \cup PendingTasks(sched') = PendingTasks(sched)
    BY <1>2, DrainBatchFacts
  <2>2. BatchTasks = {} /\ published' = published
    BY <1>2 DEF DrainBatch, history, BatchTasks, Core, RunnerOK
  <2>3. QED
    BY <2>1, <2>2, MovesKeepNewest
<1>3. CASE StartTaskFails \/ PublishResults \/ RunFails
  <2>1. sched' = sched /\ batch' = <<>>
    BY <1>3 DEF StartTaskFails, PublishResults, RunFails, RunEnds
  <2>2. BatchTasks' = {}
    BY <2>1 DEF BatchTasks
  <2>3. published' = published \/ (runner.pc = "publishing" /\ \E R : Publish(R))
    BY <1>3 DEF StartTaskFails, PublishResults, RunFails
  <2>4. published' \subseteq published \cup BatchTasks
    BY <2>3, PublishType
  <2>5. QED
    BY <2>1, <2>2, <2>4, MovesKeepNewest
<1>4. ASSUME Next, ~DrainBatch, ~StartTaskFails, ~PublishResults, ~RunFails
      PROVE  NewestInv'
  <2>1. BatchTasks' = BatchTasks
    BY <1>4, BatchTasksStay
  <2>2. ASSUME UNCHANGED <<sched, published>>
        PROVE  NewestInv'
    BY <2>1, <2>2, MovesKeepNewest
  <2>3. ASSUME NEW c \in Callers, CallerStep(c)
        PROVE  NewestInv'
    <3>1. CASE Schedule(c)
      <4>1. PICK r : Steady(sched, r) /\ Scheduled(r)
        BY <3>1, ScheduleCalls
      <4>2. UNCHANGED <<batch, published>> /\ sched' = r.scheduler
        BY <3>1, <4>1 DEF Schedule, Scheduled
      <4>3. QED
        BY <4>1, <4>2, ScheduledNewest
    <3>2. CASE ~Schedule(c)
      BY <2>2, <2>3, <3>2 DEF CallerStep, Lookup, Cancel, StoreReplaced, StoreReplacedFails,
                              Snapshot, StoreQueued, history
    <3>3. QED
      BY <3>1, <3>2
  <2>4. ASSUME FenceStep
        PROVE  NewestInv'
    <3>1. ASSUME NEW root \in Maintained, DrainRoot(root)
          PROVE  NewestInv'
      <4>1. sched' = DrainTasksForRoot(sched, root) /\ root \in Roots /\ published' = published
        BY <3>1, ManagerAssumption DEF DrainRoot
      <4>2. /\ PendingTasks(sched') \subseteq PendingTasks(sched)
            /\ sched'.generation = sched.generation
        BY <4>1, DrainRootOrdered DEF Core
      <4>3. QED
        BY <2>1, <4>1, <4>2, MovesKeepNewest
    <3>2. CASE \/ \E root \in Maintained : BlockRoot(root) \/ CancelRoot(root)
               \/ StoreCancelled \/ StoreCancelledFails \/ FinishMaintenance
      BY <2>2, <3>2 DEF BlockRoot, CancelRoot, StoreCancelled, StoreCancelledFails,
                        FinishMaintenance, history
    <3>3. QED
      BY <2>4, <3>1, <3>2 DEF FenceStep
  <2>5. ASSUME RunnerStep
        PROVE  NewestInv'
    <3>1. CASE FollowUp
      <4> DEFINE r == CallResult(sched, Head(runner.calls))
      <4>1. Steady(sched, r) /\ Scheduled(r)
        BY <3>1, FollowUpCall
      <4> HIDE DEF r
      <4>2. UNCHANGED <<batch, published>> /\ sched' = r.scheduler
        BY <3>1, <4>1 DEF FollowUp, Scheduled
      <4>3. QED
        BY <4>1, <4>2, ScheduledNewest
    <3>2. CASE ~FollowUp
      BY <1>4, <2>2, <2>5, <3>2 DEF RunnerStep, StartCancellableTasks, CancelBlockedTasks,
         SkipTask, StartTask, CheckToken, Work, FinishCancellableTasks, MarkSupersededResult,
         PlanFollowUps, ReportReplaced, SnapshotFollowUps, StoreFollowUps, history
    <3>3. QED
      BY <3>1, <3>2
  <2>6. QED
    BY <1>4, <2>3, <2>4, <2>5 DEF Next
<1>5. QED
  BY <1>1, <1>2, <1>3, <1>4

(* In every behaviour of the manager, no task with a number of its own that waits or runs
   is one a waiting, running or published task would cancel. *)
THEOREM NewestInvariance == Spec => []NewestInv
<1>1. Init => NewestInv
  <2> SUFFICES ASSUME Init
               PROVE  NewestInv
    OBVIOUS
  <2>1. sched = EmptyScheduler /\ batch = <<>> /\ published = {}
    BY DEF Init
  <2>2. PendingTasks(sched) = {} /\ BatchTasks = {}
    BY <2>1 DEF PendingTasks, EmptyScheduler, BatchTasks
  <2>3. QED
    BY <2>1, <2>2 DEF NewestInv, Uncancelled
<1>2. Core /\ NewestInv /\ [Next]_vars => NewestInv'
  BY NewestStep
<1>3. QED
  BY <1>1, <1>2, CoreInvariance, PTL DEF Spec

(* Once the result of a task is published, no older task it replaces is       *)
(* published after it, in the same batch or later.                            *)
THEOREM NothingOlderIsPublished == Spec => NewestPublishedLast
<1> DEFINE A == \A i \in DOMAIN batch :
                  LET t     == batch[i].task
                      first == published \cup
                                 {batch[j].task : j \in {k \in 1..(i - 1) : batch[k].task \in published'}}
                  IN  (/\ t \in published' \ published
                       /\ t.reason \notin DeepReasons \cup DiscoveryReasons) =>
                        ~\E done \in first : CancelsActive(done, t)
<1>1. ASSUME Core, NewestInv
      PROVE  A
  <2> SUFFICES ASSUME NEW i \in DOMAIN batch, ~KeepsNumber(batch[i].task),
                      NEW done \in published \cup
                        {batch[j].task : j \in {k \in 1..(i - 1) : batch[k].task \in published'}},
                      CancelsActive(done, batch[i].task)
               PROVE  FALSE
    BY DEF KeepsNumber
  <2>1. DOMAIN batch = 1..Len(batch) /\ Len(batch) \in Nat
    BY <1>1, CoreFacts
  <2>2. done \in published \cup BatchTasks
    BY <2>1 DEF BatchTasks
  <2>3. batch[i].task \in BatchTasks
    BY DEF BatchTasks
  <2>4. QED
    BY <1>1, <2>2, <2>3 DEF NewestInv, Uncancelled
<1>2. Core /\ NewestInv /\ [Next]_vars => [A]_vars
  BY <1>1
<1>3. QED
  BY <1>2, CoreInvariance, NewestInvariance, PTL DEF Spec, NewestPublishedLast
=============================================================================
