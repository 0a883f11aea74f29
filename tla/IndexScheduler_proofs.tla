------------------------ MODULE IndexScheduler_proofs ------------------------
(* Theorems about IndexScheduler, for every set of roots and paths, every     *)
(* batch size and every number of requests, retries and generations; and      *)
(* about IndexResume, which drives the same queue with one worker, for every  *)
(* set of files, every chunk and page size and every number of disturbances.  *)
(* The two specifications share no variable and no theorem cites both.        *)
EXTENDS IndexScheduler, IndexResume, IndexQueue_proofs

(* The inductive invariant.  The burst counter is what bounds passedOver: a   *)
(* foreground batch that passes a background task over raises both.           *)
IInv ==
  /\ TypeOK
  /\ CounterAhead
  /\ passedOver <= sched.burst
  /\ passedOver <= ForegroundBurstLimit

-----------------------------------------------------------------------------
(* Every step keeps the inductive invariant.                                 *)

(* The step is a scheduling call that lost nothing it did not hand back. *)
GoodCall == \E r : GoodResult(sched, r) /\ NewerReplacement(sched, r) /\ Scheduled(r)

(* A good answer of the scheduler keeps the invariant, whoever asked. *)
LEMMA GoodCallStep ==
  ASSUME IInv, GoodCall, running' \subseteq Tasks, calls' \in Seq(Calls),
         owed' \in [Roots -> [PathReasons -> SUBSET Paths]]
  PROVE  IInv'
<1> PICK r : GoodResult(sched, r) /\ Scheduled(r)
  BY DEF GoodCall
<1>1. /\ sched' = r.scheduler /\ passedOver' = passedOver
      /\ returned' = [method |-> "schedule", tasks |-> r.superseded]
  BY DEF Scheduled
<1>2. TypeOK'
  BY <1>1 DEF IInv, TypeOK, GoodResult, Calls
<1>3. CounterAhead'
  <2> SUFFICES ASSUME NEW t \in PendingTasks(r.scheduler)
               PROVE  t.generation \in 1..r.scheduler.generation
    BY <1>1 DEF CounterAhead
  <2>1. /\ sched.generation \in Nat /\ r.scheduler.generation \in Nat
        /\ r.scheduler.generation >= sched.generation
    BY DEF IInv, TypeOK, GoodResult, Schedulers
  <2>2. CASE t \in PendingTasks(sched)
    <3>1. t.generation \in 1..sched.generation
      BY <2>2 DEF IInv, CounterAhead
    <3>2. QED
      BY <2>1, <3>1
  <2>3. CASE t \notin PendingTasks(sched)
    BY <2>3 DEF GoodResult
  <2>4. QED
    BY <2>2, <2>3
<1>4. QED
  BY <1>1, <1>2, <1>3 DEF IInv, GoodResult

(* The invariant holds at the start. *)
LEMMA InitInvariant == Init => IInv
<1> SUFFICES ASSUME Init
             PROVE  IInv
  OBVIOUS
<1>1. sched \in Schedulers
  BY DEF Init, EmptyScheduler, Schedulers
<1>2. PendingTasks(sched) = {}
  BY DEF Init, EmptyScheduler, PendingTasks
<1>3. TypeOK
  BY <1>1 DEF Init, TypeOK
<1>4. passedOver <= sched.burst /\ passedOver <= ForegroundBurstLimit
  BY BurstAssumption DEF Init, EmptyScheduler
<1>5. QED
  BY <1>2, <1>3, <1>4 DEF IInv, CounterAhead

(* A request for the whole workspace. *)
LEMMA RequestStep ==
  ASSUME IInv, NEW root \in Roots, Request(root)
  PROVE  GoodCall /\ IInv'
<1>1. PICK t \in WorkspaceRequests(root) : Scheduled(ScheduleWithResult(sched, t))
  BY DEF Request
<1>2. t \in Tasks
  <2>1. {} \in SUBSET Paths /\ 0 \in Nat
    OBVIOUS
  <2>2. QED
    BY <2>1, BuiltTasks DEF WorkspaceRequests
<1>3. GoodCall
  BY <1>1, <1>2, ScheduleProperties DEF GoodCall, IInv, TypeOK
<1>4. running' = running /\ calls' = calls /\ owed' = owed
  BY DEF Request
<1>5. QED
  BY <1>1, <1>3, <1>4, GoodCallStep DEF IInv, TypeOK, Calls

(* A request for some paths. *)
LEMMA RequestPathsStep ==
  ASSUME IInv, NEW root \in Roots, RequestPaths(root)
  PROVE  GoodCall /\ IInv'
<1>1. PICK t \in PathRequests(root) :
        /\ Scheduled(ScheduleWithResult(sched, t))
        /\ owed' = [owed EXCEPT ![root][t.reason] =
                      IF LatestWins(t) THEN t.paths ELSE @ \cup t.paths]
  BY DEF RequestPaths
<1>2. t \in Tasks /\ t.paths \in SUBSET Paths /\ t.reason \in PathReasons
  BY PathRequestType
<1>3. GoodCall
  BY <1>1, <1>2, ScheduleProperties DEF GoodCall, IInv, TypeOK
<1>4. running' = running /\ calls' = calls
  BY DEF RequestPaths
<1>5. owed' \in [Roots -> [PathReasons -> SUBSET Paths]]
  <2>1. owed \in [Roots -> [PathReasons -> SUBSET Paths]]
    BY DEF IInv, TypeOK
  <2>2. QED
    BY <1>1, <1>2, <2>1
<1>6. QED
  BY <1>1, <1>3, <1>4, <1>5, GoodCallStep DEF IInv, TypeOK, Calls

(* A stored task comes back. *)
LEMMA ResumeStoredStep ==
  ASSUME IInv, NEW root \in Roots, ResumeStored(root)
  PROVE  GoodCall /\ IInv'
<1>1. PICK t \in ResumeRequests(root, sched.generation) : Scheduled(ScheduleWithResult(sched, t))
  BY DEF ResumeStored
<1>2. t \in Tasks
  <2>1. sched.generation \in Nat
    BY DEF IInv, TypeOK, Schedulers
  <2>2. \A g \in 1..sched.generation : g \in Nat
    BY <2>1
  <2>3. QED
    BY <2>2, BuiltTasks DEF ResumeRequests, SomeOf
<1>3. GoodCall
  BY <1>1, <1>2, ScheduleProperties DEF GoodCall, IInv, TypeOK
<1>4. running' = running /\ calls' = calls /\ owed' = owed
  BY DEF ResumeStored
<1>5. QED
  BY <1>1, <1>3, <1>4, GoodCallStep DEF IInv, TypeOK, Calls

(* A new scheduler value that adds no task and keeps or clears the burst. *)
LEMMA FewerPending ==
  ASSUME IInv, NEW s \in Schedulers, s.generation >= sched.generation,
         PendingTasks(s) \subseteq PendingTasks(sched)
  PROVE  \A t \in PendingTasks(s) : t.generation \in 1..s.generation
<1>1. sched.generation \in Nat /\ s.generation \in Nat
  BY DEF IInv, TypeOK, Schedulers
<1>2. \A t \in PendingTasks(s) : t.generation \in 1..sched.generation
  BY DEF IInv, CounterAhead
<1>3. QED
  BY <1>1, <1>2

(* The manager synchronizes the scheduler with the stored tasks. *)
LEMMA SynchronizeStep ==
  ASSUME IInv, Synchronize
  PROVE  IInv'
<1>1. PICK g \in 1..MaxGeneration : sched' = AdvanceGenerationTo(sched, g)
  BY DEF Synchronize
<1>2. sched \in Schedulers /\ sched.generation \in Nat /\ g \in Nat
  BY BoundsAssumption DEF IInv, TypeOK, Schedulers
<1>3. sched' = [sched EXCEPT !.generation = Larger(sched.generation, g)]
  BY <1>1 DEF AdvanceGenerationTo
<1> DEFINE n == Larger(sched.generation, g)
<1>a. n \in Nat /\ n >= sched.generation
  BY <1>2 DEF Larger
<1> HIDE DEF n
<1>4. /\ sched' \in Schedulers /\ sched'.generation >= sched.generation
      /\ sched'.burst = sched.burst
      /\ sched'.tasks = sched.tasks /\ sched'.delayed = sched.delayed
  <2>1. sched' = [sched EXCEPT !.generation = n]
    BY <1>3 DEF n
  <2>2. sched'.generation = n
    BY <1>2, <2>1 DEF Schedulers
  <2>3. QED
    BY <1>2, <1>a, <2>1, <2>2 DEF Schedulers
<1>5. PendingTasks(sched') = PendingTasks(sched)
  BY <1>4 DEF PendingTasks
<1>6. CounterAhead'
  BY <1>4, <1>5, FewerPending DEF CounterAhead
<1>7. TypeOK'
  BY <1>4 DEF Synchronize, IInv, TypeOK
<1>8. QED
  BY <1>4, <1>6, <1>7 DEF Synchronize, IInv

(* Time passes for the delayed tasks. *)
LEMMA TimeStep ==
  ASSUME IInv, Time
  PROVE  IInv'
<1> DEFINE q == [i \in DOMAIN sched.delayed |-> Sooner(sched.delayed[i])]
<1>1. sched \in Schedulers /\ sched.delayed \in Seq(Delayed)
  BY DEF IInv, TypeOK, Schedulers
<1>2. sched' = [sched EXCEPT !.delayed = q]
  BY DEF Time, Elapse
<1>3. Len(sched.delayed) \in Nat /\ DOMAIN sched.delayed = 1..Len(sched.delayed)
  BY <1>1, LenProperties
<1>4. \A i \in DOMAIN sched.delayed : q[i] \in Delayed /\ q[i].task = sched.delayed[i].task
  <2> SUFFICES ASSUME NEW i \in DOMAIN sched.delayed
               PROVE  q[i] \in Delayed /\ q[i].task = sched.delayed[i].task
    OBVIOUS
  <2>1. sched.delayed[i] \in Delayed
    BY <1>1, <1>3, ElementOfSeq
  <2>2. QED
    BY <2>1 DEF Sooner, Delayed, Larger
<1>5. q \in Seq(Delayed) /\ DOMAIN q = DOMAIN sched.delayed
  <2>1. q \in [1..Len(sched.delayed) -> Delayed]
    BY <1>3, <1>4
  <2>2. QED
    BY <1>3, <2>1, SeqDef
<1> HIDE DEF q
<1>6. /\ sched' \in Schedulers /\ sched'.generation = sched.generation
      /\ sched'.burst = sched.burst
      /\ sched'.tasks = sched.tasks /\ sched'.delayed = q
  BY <1>1, <1>2, <1>5 DEF Schedulers
<1>7. PendingTasks(sched') = PendingTasks(sched)
  BY <1>4, <1>5, <1>6 DEF PendingTasks
<1>8. CounterAhead'
  BY <1>6, <1>7 DEF IInv, CounterAhead
<1>9. TypeOK'
  BY <1>6 DEF Time, IInv, TypeOK
<1>10. QED
  BY <1>6, <1>8, <1>9 DEF Time, IInv

(* The fence drains a root. *)
LEMMA DrainRootStep ==
  ASSUME IInv, NEW root \in Roots, DrainRoot(root)
  PROVE  IInv'
<1>1. sched \in Schedulers
  BY DEF IInv, TypeOK
<1>2. /\ sched' \in Schedulers /\ sched'.generation = sched.generation
      /\ sched'.burst = sched.burst
      /\ PendingTasks(sched') \subseteq PendingTasks(sched)
  BY <1>1, DrainRootProperties DEF DrainRoot
<1>3. CounterAhead'
  BY <1>2 DEF IInv, CounterAhead
<1>4. returned' \in [method : {"none", "schedule", "drain", "drain-root"}, tasks : SUBSET Tasks]
  <2>1. PendingTasks(sched) \subseteq Tasks
    <3>1. sched.tasks \in Seq(Tasks) /\ sched.delayed \in Seq(Delayed)
      BY <1>1 DEF Schedulers
    <3>2. \A i \in DOMAIN sched.tasks : sched.tasks[i] \in Tasks
      BY <3>1, LenProperties, ElementOfSeq
    <3>3. \A i \in DOMAIN sched.delayed : sched.delayed[i] \in Delayed
      BY <3>1, LenProperties, ElementOfSeq
    <3>4. QED
      BY <3>2, <3>3 DEF PendingTasks, Delayed
  <2>2. QED
    BY <2>1 DEF DrainRoot, PendingTasksForRoot
<1>5. TypeOK'
  BY <1>2, <1>4 DEF DrainRoot, IInv, TypeOK
<1>6. QED
  BY <1>2, <1>3, <1>5 DEF DrainRoot, IInv

(* The runner resolves a task it has taken. *)
LEMMA ResolveStep ==
  ASSUME IInv, Resolve
  PROVE  IInv'
<1>1. PICK t \in running :
        /\ running' = running \ {t}
        /\ calls' \in AskedOnly(PossibleFollowUps(t) \cup AfterInterruption(t))
  BY DEF Resolve
<1>2. t \in Tasks
  BY DEF IInv, TypeOK
<1>3. calls' \in Seq(Calls)
  BY <1>1, <1>2, PlanType
<1>4. QED
  BY <1>1, <1>3 DEF Resolve, Nothing, IInv, TypeOK, CounterAhead, Calls

(* A follow-up is a call the scheduler answers well ... *)
LEMMA FollowUpCall ==
  ASSUME IInv, FollowUp
  PROVE  GoodCall
<1>1. calls \in Seq(Calls) /\ calls # <<>> /\ sched \in Schedulers
  BY DEF IInv, TypeOK, FollowUp, Calls
<1>2. Head(calls) \in Calls
  BY <1>1, HeadTailProperties
<1>3. QED
  BY <1>1, <1>2, CallProperties DEF FollowUp, GoodCall

(* ... so it keeps the invariant. *)
LEMMA FollowUpStep ==
  ASSUME IInv, FollowUp
  PROVE  IInv'
<1>1. calls' \in Seq(Calls)
  <2>1. calls \in Seq(Calls) /\ calls # <<>> /\ calls' = Tail(calls)
    BY DEF IInv, TypeOK, FollowUp, Calls
  <2>2. QED
    BY <2>1, HeadTailProperties
<1>2. running' = running /\ owed' = owed
  BY DEF FollowUp
<1>3. QED
  BY <1>1, <1>2, FollowUpCall, GoodCallStep DEF IInv, TypeOK

(* The runner takes a batch. *)
LEMMA DrainStep ==
  ASSUME IInv, Drain
  PROVE  IInv'
<1> DEFINE d     == DrainReadyBatch(sched, BatchSize)
           q     == DispatchOrder(sched)
           batch == Elements(d.batch)
<1>1. sched \in Schedulers /\ BatchSize \in Nat \ {0} /\ sched.burst \in Nat /\ passedOver \in Nat
  BY BoundsAssumption DEF IInv, TypeOK, Schedulers
<1>2. /\ q \in Seq(Tasks) /\ d.batch \in Seq(Tasks) /\ d.scheduler \in Schedulers
      /\ d.scheduler.generation = sched.generation
      /\ d.scheduler.burst = RecordDispatch(sched.burst, d.batch)
      /\ batch \cup PendingTasks(d.scheduler) = PendingTasks(sched)
      /\ q # <<>> => d.batch # <<>> /\ d.batch[1] = q[1]
  BY <1>1, DrainProperties
<1>3. batch = {d.batch[i] : i \in DOMAIN d.batch}
  BY DEF Elements, ValuesAt
<1>4. /\ batch # {}
      /\ sched' = d.scheduler /\ running' = batch
      /\ returned' = [method |-> "drain", tasks |-> batch]
      /\ owed' = [root \in Roots |-> [reason \in PathReasons |->
                    owed[root][reason] \ Taken(batch, root, reason)]]
      /\ passedOver' =
           IF BackgroundReady(q) /\ ~BackgroundReady(d.batch)
           THEN passedOver + (IF IsForegroundBurst(d.batch[1].priority) THEN 1 ELSE 0)
           ELSE 0
      /\ calls' = calls
  BY <1>3 DEF Drain
<1>5. batch \subseteq Tasks
  BY <1>2, <1>3, LenProperties, ElementOfSeq
<1> HIDE DEF batch
<1>6. passedOver' \in Nat /\ passedOver' <= sched'.burst /\ passedOver' <= ForegroundBurstLimit
  <2>1. RecordDispatch(sched.burst, d.batch) \in Nat
    BY <1>2 DEF Schedulers
  <2>2. CASE BackgroundReady(q) /\ ~BackgroundReady(d.batch)
    <3>1. q # <<>> /\ \E t \in Elements(q) : IsBackgroundTurn(t.priority)
      BY <2>2 DEF BackgroundReady, Elements, ValuesAt
    <3>2. d.batch # <<>> /\ d.batch[1] = q[1] /\ 1 \in DOMAIN d.batch
      <4>1. d.batch # <<>> /\ d.batch[1] = q[1]
        BY <1>2, <3>1
      <4>2. Len(d.batch) \in Nat \ {0} /\ DOMAIN d.batch = 1..Len(d.batch)
        BY <1>2, <4>1, EmptySeq, LenProperties
      <4>3. QED
        BY <4>1, <4>2
    <3>3. ~IsBackgroundTurn(q[1].priority)
      BY <2>2, <3>2 DEF BackgroundReady
    <3>4. CASE IsForegroundBurst(q[1].priority)
      <4>1. ~(sched.burst >= ForegroundBurstLimit)
        BY <1>1, <3>1, <3>3, <3>4, DispatchHead
      <4> HIDE DEF d, q
      <4>2. passedOver' = passedOver + 1
        BY <1>4, <2>2, <3>2, <3>4
      <4>3. sched'.burst = Smaller(sched.burst + 1, ForegroundBurstLimit)
        BY <1>2, <1>4, <3>2, <3>4 DEF RecordDispatch
      <4>4. QED
        BY <1>1, <4>1, <4>2, <4>3, BurstAssumption DEF IInv, Smaller
    <3>5. CASE ~IsForegroundBurst(q[1].priority)
      <4> HIDE DEF d, q
      <4>1. passedOver' = passedOver + 0
        BY <1>4, <2>2, <3>2, <3>5
      <4>2. sched'.burst = sched.burst
        BY <1>2, <1>4, <3>2, <3>3, <3>5 DEF RecordDispatch
      <4>3. QED
        BY <1>1, <4>1, <4>2 DEF IInv
    <3>6. QED
      BY <3>4, <3>5
  <2>3. CASE ~(BackgroundReady(q) /\ ~BackgroundReady(d.batch))
    <3> HIDE DEF d, q
    <3>1. passedOver' = 0 /\ sched'.burst \in Nat
      BY <1>2, <1>4, <2>1, <2>3
    <3>2. QED
      BY <3>1, BurstAssumption
  <2>4. QED
    BY <2>2, <2>3
<1>7. TypeOK'
  <2>1. owed' \in [Roots -> [PathReasons -> SUBSET Paths]]
    BY <1>4 DEF IInv, TypeOK
  <2> HIDE DEF d, q
  <2>2. QED
    BY <1>2, <1>4, <1>5, <1>6, <2>1 DEF IInv, TypeOK
<1>8. CounterAhead'
  <2> HIDE DEF d, q
  <2>1. QED
    BY <1>2, <1>4 DEF IInv, CounterAhead
<1>9. QED
  BY <1>6, <1>7, <1>8 DEF IInv

(* The invariant is inductive. *)
LEMMA NextInvariant == IInv /\ [Next]_vars => IInv'
<1> SUFFICES ASSUME IInv, [Next]_vars
             PROVE  IInv'
  OBVIOUS
<1>1. CASE \E root \in Roots : Request(root)
  BY <1>1, RequestStep
<1>2. CASE \E root \in Roots : RequestPaths(root)
  BY <1>2, RequestPathsStep
<1>3. CASE \E root \in Roots : ResumeStored(root)
  BY <1>3, ResumeStoredStep
<1>4. CASE \E root \in Roots : DrainRoot(root)
  BY <1>4, DrainRootStep
<1>5. CASE Synchronize
  BY <1>5, SynchronizeStep
<1>6. CASE Drain
  BY <1>6, DrainStep
<1>7. CASE Resolve
  BY <1>7, ResolveStep
<1>8. CASE FollowUp
  BY <1>8, FollowUpStep
<1>9. CASE Time
  BY <1>9, TimeStep
<1>10. CASE UNCHANGED vars
  BY <1>10 DEF vars, IInv, TypeOK, CounterAhead
<1>11. QED
  BY <1>1, <1>2, <1>3, <1>4, <1>5, <1>6, <1>7, <1>8, <1>9, <1>10 DEF Next

(* In every behaviour the state is typed, the counter is ahead of the generation of every
   pending task, and background work is passed over at most the limit: the invariant the
   other theorems start from. *)
THEOREM Invariance == Spec => []IInv
  BY InitInvariant, NextInvariant, PTL DEF Spec

-----------------------------------------------------------------------------
(* The theorems.                                                             *)

(* Every value the scheduler, the worker's batch and its follow-up calls take *)
(* has its type; in particular every task that reaches a queue is complete.   *)
THEOREM TypeCorrect == Spec => []TypeOK
<1>1. IInv => TypeOK
  BY DEF IInv
<1>2. QED
  BY <1>1, Invariance, PTL

(* The generation counter is ahead of every pending task, whatever numbers    *)
(* continuations and the resume table bring back (schedule_with_result).      *)
THEOREM CounterIsAhead == Spec => []CounterAhead
<1>1. IInv => CounterAhead
  BY DEF IInv
<1>2. QED
  BY <1>1, Invariance, PTL

(* promote_background_turn: a background task that is ready waits for at most *)
(* ForegroundBurstLimit foreground batches, whatever is requested meanwhile.  *)
THEOREM BackgroundTurn == Spec => []BackgroundGetsItsTurn
<1>1. IInv => BackgroundGetsItsTurn
  BY DEF IInv, BackgroundGetsItsTurn
<1>2. QED
  BY <1>1, Invariance, PTL

(* No task leaves the queues without being handed to the caller: the methods  *)
(* of the scheduler lose nothing, in any order of calls.                      *)
THEOREM NothingDropped == Spec => NoSilentDrop
<1> DEFINE Accounted == PendingTasks(sched) \ PendingTasks(sched') \subseteq returned'.tasks
<1>1. ASSUME IInv, [Next]_vars
      PROVE  [Accounted]_vars
  <2>1. CASE GoodCall
    BY <2>1 DEF GoodCall, GoodResult, Scheduled
  <2>2. CASE sched'.tasks = sched.tasks /\ sched'.delayed = sched.delayed
    BY <2>2 DEF PendingTasks
  <2>3. CASE \E root \in Roots : Request(root) \/ RequestPaths(root) \/ ResumeStored(root)
    BY <1>1, <2>1, <2>3, RequestStep, RequestPathsStep, ResumeStoredStep
  <2>4. CASE \E root \in Roots : DrainRoot(root)
    <3>1. PICK root \in Roots : DrainRoot(root)
      BY <2>4
    <3>2. PendingTasks(sched') = {t \in PendingTasks(sched) : t.root # root}
      BY <1>1, <3>1, DrainRootProperties DEF DrainRoot, IInv, TypeOK
    <3>3. returned'.tasks = {t \in PendingTasks(sched) : t.root = root}
      BY <3>1 DEF DrainRoot, PendingTasksForRoot
    <3>4. QED
      BY <3>2, <3>3
  <2>5. CASE Synchronize
    BY <2>2, <2>5 DEF Synchronize, AdvanceGenerationTo
  <2>6. CASE Drain
    <3> DEFINE d == DrainReadyBatch(sched, BatchSize)
    <3>1. Elements(d.batch) \cup PendingTasks(d.scheduler) = PendingTasks(sched)
      BY <1>1, BoundsAssumption, DrainProperties DEF IInv, TypeOK
    <3>2. sched' = d.scheduler /\ returned'.tasks = Elements(d.batch)
      BY <2>6 DEF Drain, Elements, ValuesAt
    <3>3. QED
      BY <3>1, <3>2
  <2>7. CASE Resolve
    BY <2>2, <2>7 DEF Resolve, Nothing
  <2>8. CASE FollowUp
    BY <1>1, <2>1, <2>2, <2>8, FollowUpCall DEF Nothing
  <2>9. CASE Time
    <3>1. sched \in Schedulers
      BY <1>1 DEF IInv, TypeOK
    <3>2. /\ sched'.tasks = sched.tasks
          /\ sched'.delayed = [i \in DOMAIN sched.delayed |-> Sooner(sched.delayed[i])]
      BY <2>9, <3>1 DEF Time, Elapse, Schedulers
    <3>3. \A i \in DOMAIN sched.delayed : Sooner(sched.delayed[i]).task = sched.delayed[i].task
      <4>1. \A i \in DOMAIN sched.delayed : sched.delayed[i] \in Delayed
        <5>1. sched.delayed \in Seq(Delayed)
          BY <3>1 DEF Schedulers
        <5>2. QED
          BY <5>1, LenProperties, ElementOfSeq
      <4>2. QED
        BY <4>1 DEF Sooner, Delayed
    <3>4. PendingTasks(sched') = PendingTasks(sched)
      BY <3>2, <3>3 DEF PendingTasks
    <3>5. QED
      BY <3>4
  <2>10. CASE UNCHANGED vars
    BY <2>10
  <2>11. QED
    BY <1>1, <2>3, <2>4, <2>5, <2>6, <2>7, <2>8, <2>9, <2>10 DEF Next
<1>2. QED
  BY <1>1, Invariance, PTL DEF Spec, NoSilentDrop

(* Every task a scheduling call hands back as superseded was replaced by a    *)
(* pending task of a greater generation that does its work.                   *)
THEOREM ReplacedByNewer == Spec => SupersededByNewer
<1> DEFINE Newer ==
      returned'.method = "schedule" =>
        \A old \in returned'.tasks : \E new \in PendingTasks(sched') :
          /\ new.generation > old.generation
          /\ TasksCanCoalesce(new, old) \/ Replaces(new, old)
<1>1. ASSUME IInv, [Next]_vars
      PROVE  [Newer]_vars
  <2>1. CASE GoodCall
    BY <1>1, <2>1 DEF GoodCall, NewerReplacement, Scheduled, IInv, CounterAhead
  <2>2. CASE \E root \in Roots : Request(root) \/ RequestPaths(root) \/ ResumeStored(root)
    BY <1>1, <2>1, <2>2, RequestStep, RequestPathsStep, ResumeStoredStep
  <2>3. CASE FollowUp
    BY <1>1, <2>1, <2>3, FollowUpCall DEF Nothing
  <2>4. CASE (\E root \in Roots : DrainRoot(root)) \/ Synchronize \/ Drain \/ Resolve \/ Time
    BY <2>4 DEF DrainRoot, Synchronize, Drain, Resolve, Nothing, Time
  <2>5. CASE UNCHANGED vars
    BY <2>5
  <2>6. QED
    BY <1>1, <2>2, <2>3, <2>4, <2>5 DEF Next
<1>2. QED
  BY <1>1, Invariance, PTL DEF Spec, SupersededByNewer

-----------------------------------------------------------------------------
(* Paths stay covered.                                                       *)

(* A request of a path reason, to compare ready tasks with: which paths it    *)
(* names does not matter to its slot.                                         *)
PathRequest(root, reason) ==
  IF reason = "watcher" THEN WatcherTask(root, {}) ELSE HintTask(root, {}, reason)

(* A ready task of a path reason has the slot of the requests of its reason.  *)
Shaped(t) == t.reason \in PathReasons => TasksCanCoalesce(t, PathRequest(t.root, t.reason))

CoveredBy(q, root, reason, paths) ==
  \E c \in Elements(q) : /\ Covers(c, root, reason)
                         /\ c.kind # "changed-paths" \/ paths \subseteq c.paths

(* AcceptedPathsCovered of a ready queue q and the paths o owed. *)
CoveredReady(q, o) ==
  \A root \in Roots, reason \in PathReasons :
    o[root][reason] # {} => CoveredBy(q, root, reason, o[root][reason])

ReadyShaped(q) == \A t \in Elements(q) : Shaped(t)

(* The property, said of the two variables it reads. *)
LEMMA CoveredRestated == AcceptedPathsCovered <=> CoveredReady(sched.tasks, owed)
BY DEF AcceptedPathsCovered, CoveredReady, CoveredBy, Elements, ValuesAt

(* A request for paths waits in the slot of its reason. *)
LEMMA PathRequestSlot ==
  ASSUME NEW root \in Roots, NEW t \in PathRequests(root)
  PROVE  /\ t.root = root /\ t.kind = "changed-paths" /\ t.paths # {}
         /\ TasksCanCoalesce(t, PathRequest(root, t.reason))
<1>1. CASE \E paths \in SomeOf(Paths) : t = WatcherTask(root, paths)
  <2>1. PICK paths \in SomeOf(Paths) : t = WatcherTask(root, paths)
    BY <1>1
  <2>2. /\ t.root = root /\ t.kind = "changed-paths" /\ t.paths = paths /\ t.reason = "watcher"
        /\ t.priority = ChangedFiles
    BY <2>1 DEF WatcherTask, Task
  <2>3. /\ WatcherTask(root, {}).root = root /\ WatcherTask(root, {}).kind = "changed-paths"
        /\ WatcherTask(root, {}).reason = "watcher" /\ WatcherTask(root, {}).priority = ChangedFiles
    BY DEF WatcherTask, Task
  <2>4. TaskAdmission(t) = TaskAdmission(WatcherTask(root, {}))
    BY <2>2, <2>3, Zenon DEF TaskAdmission, ChangedPathsAdmission
  <2>5. QED
    BY <2>2, <2>3, <2>4 DEF PathRequest, TasksCanCoalesce, SomeOf
<1>2. CASE \E reason \in DOMAIN HintPriority : t \in HintRequests(root, reason)
  <2>1. PICK reason \in DOMAIN HintPriority : t \in HintRequests(root, reason)
    BY <1>2
  <2>2. PICK path \in Paths : t = HintTask(root, {path}, reason)
    BY <2>1 DEF HintRequests
  <2> DEFINE h == HintTask(root, {}, reason)
  <2>3. /\ t.root = root /\ t.kind = "changed-paths" /\ t.paths = {path} /\ t.reason = reason
        /\ h.root = root /\ h.kind = "changed-paths" /\ h.reason = reason
        /\ t.priority = h.priority
    BY <2>2 DEF HintTask, Task
  <2>4. reason # "watcher"
    BY DEF HintPriority
  <2> HIDE DEF h
  <2>5. TaskAdmission(t) = TaskAdmission(h)
    BY <2>3, Zenon DEF TaskAdmission, ChangedPathsAdmission
  <2>6. TasksCanCoalesce(t, h)
    BY <2>3, <2>5 DEF TasksCanCoalesce
  <2>7. QED
    BY <2>3, <2>4, <2>6 DEF PathRequest, h
<1>3. QED
  BY <1>1, <1>2 DEF PathRequests

(* In a queue with one task per slot, two tasks that coalesce with the same   *)
(* changed-paths task are one.                                                *)
LEMMA SlotIsUnique ==
  ASSUME NEW q, OnePerSlot(q), NEW t, t.kind = "changed-paths", t.reason \notin DeepReasons,
         NEW a \in Elements(q), NEW b \in Elements(q),
         TasksCanCoalesce(a, t), TasksCanCoalesce(b, t)
  PROVE  a = b
<1>1. PICK i \in DOMAIN q, j \in DOMAIN q : a = q[i] /\ b = q[j]
  BY DEF Elements, ValuesAt
<1>2. a.kind = "changed-paths" /\ a.reason \notin DeepReasons /\ TasksCanCoalesce(a, b)
  BY DEF TasksCanCoalesce
<1>3. QED
  BY <1>1, <1>2 DEF OnePerSlot, Apart

(* A task that replaces one that covers a path covers it. *)
LEMMA ReplacementCovers ==
  ASSUME NEW root, NEW reason \in PathReasons, NEW n, NEW c,
         Replaces(n, c), Shaped(c), Covers(c, root, reason)
  PROVE  Covers(n, root, reason) /\ n.kind # "changed-paths"
<1>1. c.kind \in {"open-workspace", "refresh-workspace", "changed-paths"}
  <2>1. CASE c.reason = reason
    <3>1. c.kind = PathRequest(c.root, reason).kind
      BY <2>1 DEF Shaped, TasksCanCoalesce
    <3>2. QED
      BY <3>1 DEF PathRequest, WatcherTask, HintTask, Task
  <2>2. QED
    BY <2>1 DEF Covers
<1>2. n.kind \in {"open-workspace", "refresh-workspace"}
  BY <1>1 DEF Replaces, TaskKindReplacesPending
<1>3. QED
  BY <1>2 DEF Replaces, Covers

(* Scheduling a task of no path reason leaves every owed path covered. *)
LEMMA OtherTaskCovers ==
  ASSUME NEW s \in Schedulers, NEW t \in Tasks, SlotsHeld(s), t.reason \notin PathReasons,
         NEW o, ReadyShaped(s.tasks), CoveredReady(s.tasks, o)
  PROVE  LET q == ScheduleWithResult(s, t).scheduler.tasks
         IN  ReadyShaped(q) /\ CoveredReady(q, o)
<1> DEFINE r == ScheduleWithResult(s, t)
           q == r.scheduler.tasks
<1>1. CASE q = s.tasks
  BY <1>1
<1>2. CASE \E n : ReadyAfter(s, r, t, n)
  <2> PICK n : ReadyAfter(s, r, t, n)
    BY <1>2
  <2> HIDE DEF r
  <2>1. n.reason \notin PathReasons
    BY DEF ReadyAfter, TasksCanCoalesce
  <2>2. ReadyShaped(q)
    BY <2>1 DEF ReadyAfter, ReadyShaped, Shaped
  <2>3. ASSUME NEW root \in Roots, NEW reason \in PathReasons, o[root][reason] # {}
        PROVE  CoveredBy(q, root, reason, o[root][reason])
    <3>1. PICK c \in Elements(s.tasks) : /\ Covers(c, root, reason)
                                         /\ c.kind # "changed-paths" \/ o[root][reason] \subseteq c.paths
      BY <2>3 DEF CoveredReady, CoveredBy
    <3>2. CASE c \in Elements(q)
      BY <3>1, <3>2 DEF CoveredBy
    <3>3. CASE Replaces(n, c)
      <4>1. Covers(n, root, reason) /\ n.kind # "changed-paths"
        BY <3>1, <3>3, ReplacementCovers DEF ReadyShaped
      <4>2. QED
        BY <4>1 DEF CoveredBy, ReadyAfter
    <3>4. ~(TasksCanCoalesce(c, t) /\ t.kind = "changed-paths")
      BY <3>1 DEF Covers, TasksCanCoalesce
    <3>5. QED
      BY <3>2, <3>3, <3>4 DEF ReadyAfter
  <2>4. QED
    BY <2>2, <2>3 DEF CoveredReady, r
<1>3. QED
  BY <1>1, <1>2, ScheduleKeepsSlots

(* What a path request owes. *)
OwedAfter(o, root, t) ==
  [o EXCEPT ![root][t.reason] = IF LatestWins(t) THEN t.paths ELSE @ \cup t.paths]

(* Scheduling a path request leaves every owed path covered, its own too.     *)
LEMMA PathRequestCovers ==
  ASSUME NEW s \in Schedulers, NEW root \in Roots, NEW t \in PathRequests(root),
         SlotsHeld(s), ReadyShaped(s.tasks),
         NEW o \in [Roots -> [PathReasons -> SUBSET Paths]], CoveredReady(s.tasks, o)
  PROVE  LET q == ScheduleWithResult(s, t).scheduler.tasks
         IN  ReadyShaped(q) /\ CoveredReady(q, OwedAfter(o, root, t))
<1> DEFINE r   == ScheduleWithResult(s, t)
           q   == r.scheduler.tasks
           all == OwedAfter(o, root, t)
           asked == IF LatestWins(t) THEN t.paths ELSE o[root][t.reason] \cup t.paths
<1>1. t \in Tasks /\ t.reason \in PathReasons
  BY PathRequestType
<1>2. /\ t.root = root /\ t.kind = "changed-paths" /\ t.paths # {}
      /\ TasksCanCoalesce(t, PathRequest(root, t.reason))
  BY PathRequestSlot
<1>3. t.reason \notin DeepReasons /\ ~IsEmptyNoop(t)
  BY <1>1, <1>2, PathReasonsAreApart DEF IsEmptyNoop
<1>4. /\ all[root][t.reason] = asked
      /\ \A other \in Roots, reason \in PathReasons :
           other # root \/ reason # t.reason => all[other][reason] = o[other][reason]
  BY <1>1 DEF OwedAfter
<1> HIDE DEF r, all
<1>5. SlotsHeld(r.scheduler)
  BY <1>1, ScheduleKeepsSlots DEF r
<1>6. ASSUME NEW c, Shaped(c), Covers(c, root, t.reason), c.kind = "changed-paths"
      PROVE  TasksCanCoalesce(c, t)
  <2>1. c.root = root /\ c.reason = t.reason
    BY <1>6 DEF Covers
  <2>2. TasksCanCoalesce(c, PathRequest(root, t.reason))
    BY <1>1, <1>6, <2>1 DEF Shaped
  <2>3. QED
    BY <1>2, <2>2 DEF TasksCanCoalesce
<1>7. CASE /\ q = s.tasks
           /\ \E c \in Elements(s.tasks) : TasksCanCoalesce(c, t) /\ t.paths \subseteq c.paths
  <2>1. PICK c \in Elements(s.tasks) : TasksCanCoalesce(c, t) /\ t.paths \subseteq c.paths
    BY <1>7
  <2>2. CoveredBy(q, root, t.reason, asked)
    <3>1. Covers(c, root, t.reason)
      BY <1>2, <2>1 DEF Covers, TasksCanCoalesce
    <3>2. CASE LatestWins(t) \/ o[root][t.reason] = {}
      BY <1>7, <2>1, <3>1, <3>2 DEF CoveredBy
    <3>3. CASE ~LatestWins(t) /\ o[root][t.reason] # {}
      <4>1. PICK d \in Elements(s.tasks) : /\ Covers(d, root, t.reason)
                                           /\ d.kind # "changed-paths" \/ o[root][t.reason] \subseteq d.paths
        BY <1>1, <3>3 DEF CoveredReady, CoveredBy
      <4>2. CASE d.kind # "changed-paths"
        BY <1>7, <4>1, <4>2 DEF CoveredBy
      <4>3. CASE d.kind = "changed-paths"
        <5>1. TasksCanCoalesce(d, t)
          BY <1>6, <4>1, <4>3 DEF ReadyShaped
        <5>2. d = c
          BY <1>2, <1>3, <2>1, <5>1, SlotIsUnique DEF SlotsHeld
        <5>3. asked \subseteq c.paths
          BY <2>1, <3>3, <4>1, <4>3, <5>2
        <5>4. QED
          BY <1>7, <3>1, <5>3 DEF CoveredBy
      <4>4. QED
        BY <4>2, <4>3
    <3>4. QED
      BY <3>2, <3>3
  <2>3. CoveredReady(q, all)
    BY <1>4, <1>7, <2>2 DEF CoveredReady
  <2>4. QED
    BY <1>7, <2>3 DEF r, all
<1>8. CASE \E n : ReadyAfter(s, r, t, n)
  <2> PICK n : ReadyAfter(s, r, t, n)
    BY <1>8
  <2>1. n \in Elements(q) /\ TasksCanCoalesce(n, t) /\ t.paths \subseteq n.paths
    BY DEF ReadyAfter
  <2>2. Covers(n, root, t.reason) /\ n.kind = "changed-paths" /\ Shaped(n)
    BY <1>2, <2>1 DEF Covers, TasksCanCoalesce, Shaped
  <2>3. ReadyShaped(q)
    BY <2>2 DEF ReadyAfter, ReadyShaped
  <2>4. \A c : ~Replaces(n, c)
    BY <2>2 DEF Replaces
  <2>5. CoveredBy(q, root, t.reason, asked)
    <3>1. CASE LatestWins(t) \/ o[root][t.reason] = {}
      BY <2>1, <2>2, <3>1 DEF CoveredBy
    <3>2. CASE ~LatestWins(t) /\ o[root][t.reason] # {}
      <4>1. PICK d \in Elements(s.tasks) : /\ Covers(d, root, t.reason)
                                           /\ d.kind # "changed-paths" \/ o[root][t.reason] \subseteq d.paths
        BY <1>1, <3>2 DEF CoveredReady, CoveredBy
      <4>2. CASE d.kind # "changed-paths"
        <5>1. d \in Elements(q)
          BY <1>2, <2>4, <4>2 DEF ReadyAfter, TasksCanCoalesce
        <5>2. QED
          BY <4>1, <4>2, <5>1 DEF CoveredBy
      <4>3. CASE d.kind = "changed-paths"
        <5>1. TasksCanCoalesce(d, t)
          BY <1>6, <4>1, <4>3 DEF ReadyShaped
        <5>2. d.paths \subseteq n.paths
          <6>1. CASE d \in Elements(q)
            BY <1>2, <1>3, <1>5, <2>1, <5>1, <6>1, SlotIsUnique DEF SlotsHeld
          <6>2. CASE d \notin Elements(q)
            BY <2>4, <3>2, <6>2 DEF ReadyAfter
          <6>3. QED
            BY <6>1, <6>2
        <5>3. asked \subseteq n.paths
          BY <2>1, <3>2, <4>1, <4>3, <5>2
        <5>4. QED
          BY <2>1, <2>2, <5>3 DEF CoveredBy
      <4>4. QED
        BY <4>2, <4>3
    <3>3. QED
      BY <3>1, <3>2
  <2>6. ASSUME NEW other \in Roots, NEW reason \in PathReasons,
               other # root \/ reason # t.reason, o[other][reason] # {}
        PROVE  CoveredBy(q, other, reason, o[other][reason])
    <3>1. PICK c \in Elements(s.tasks) : /\ Covers(c, other, reason)
                                         /\ c.kind # "changed-paths" \/ o[other][reason] \subseteq c.paths
      BY <2>6 DEF CoveredReady, CoveredBy
    <3>2. ~TasksCanCoalesce(c, t)
      BY <1>2, <2>6, <3>1 DEF Covers, TasksCanCoalesce
    <3>3. c \in Elements(q)
      BY <2>4, <3>2 DEF ReadyAfter
    <3>4. QED
      BY <3>1, <3>3 DEF CoveredBy
  <2>7. CoveredReady(q, all)
    BY <1>4, <2>5, <2>6 DEF CoveredReady
  <2>8. QED
    BY <2>3, <2>7 DEF r, all
<1>9. QED
  BY <1>1, <1>3, <1>7, <1>8, ScheduleKeepsSlots DEF r

-----------------------------------------------------------------------------
(* The slots and the cover, in every step.                                   *)

(* The invariant of the two theorems below.  SlotsHeld and ReadyShaped make   *)
(* the task a path request joins the one that covers the paths owed before.   *)
CoverInv ==
  /\ IInv
  /\ SlotsHeld(sched)
  /\ calls \in Seq(PlanCalls)
  /\ ReadyShaped(sched.tasks)
  /\ AcceptedPathsCovered

(* A follow-up call leaves every owed path covered. *)
LEMMA CallCovers ==
  ASSUME NEW s \in Schedulers, NEW call \in PlanCalls, SlotsHeld(s),
         NEW o, ReadyShaped(s.tasks), CoveredReady(s.tasks, o)
  PROVE  LET after == CallResult(s, call).scheduler
         IN  SlotsHeld(after) /\ ReadyShaped(after.tasks) /\ CoveredReady(after.tasks, o)
<1> DEFINE t == call.task
<1>1. t \in Tasks /\ t.reason \notin PathReasons /\ (call.how = "retry" => DeepContinuation(t))
  BY DEF PlanCalls, Calls
<1>2. CASE call.how = "schedule" \/ (call.how = "resume" /\ CallResult(s, call) = ScheduleWithResult(s, t))
  <2>1. CallResult(s, call) = ScheduleWithResult(s, t)
    BY <1>2 DEF CallResult
  <2>2. QED
    BY <1>1, <2>1, ScheduleKeepsSlots, OtherTaskCovers
<1>3. CASE call.how = "progress"
  <2> DEFINE c == ClearBackgroundRetry(s, t.root, t.reason)
  <2>1. CallResult(s, call) = ScheduleWithResult(c, t)
    BY <1>3 DEF CallResult
  <2>2. c = [s EXCEPT !.attempts = [s.attempts EXCEPT ![<<t.root, t.reason>>] = 0]]
    BY DEF ClearBackgroundRetry
  <2>3. [s.attempts EXCEPT ![<<t.root, t.reason>>] = 0] \in [Roots \X Reasons -> Nat]
    BY DEF Schedulers
  <2> HIDE DEF c, t
  <2>4. c \in Schedulers /\ c.tasks = s.tasks /\ c.delayed = s.delayed
    BY <2>2, <2>3 DEF Schedulers
  <2>5. SlotsHeld(c)
    BY <2>4 DEF SlotsHeld
  <2>6. QED
    BY <1>1, <2>1, <2>4, <2>5, ScheduleKeepsSlots, OtherTaskCovers
<1>4. CASE call.how = "retry"
  <2>1. CallResult(s, call) = ScheduleBackgroundRetry(s, t)
    BY <1>4 DEF CallResult
  <2>2. QED
    BY <1>1, <1>4, <2>1, RetryKeepsSlots
<1>5. CASE CallResult(s, call) = Result(s, {}, FALSE)
  BY <1>5 DEF Result
<1>6. CallResult(s, call) \in {Result(s, {}, FALSE), ScheduleWithResult(s, t)} \/ call.how # "resume"
  BY DEF CallResult
<1>7. QED
  BY <1>2, <1>3, <1>4, <1>5, <1>6 DEF PlanCalls, Calls

(* A request of a caller that no path reason is behind. *)
LEMMA RequestCovers ==
  ASSUME CoverInv, NEW root \in Roots, Request(root) \/ ResumeStored(root)
  PROVE  SlotsHeld(sched') /\ ReadyShaped(sched'.tasks) /\ CoveredReady(sched'.tasks, owed')
<1>1. PICK t \in WorkspaceRequests(root) \cup ResumeRequests(root, sched.generation) :
        sched' = ScheduleWithResult(sched, t).scheduler
  BY DEF Request, ResumeStored, Scheduled
<1>2. sched \in Schedulers /\ sched.generation \in Nat /\ CoveredReady(sched.tasks, owed)
  BY CoveredRestated DEF CoverInv, IInv, TypeOK, Schedulers
<1>3. t \in Tasks
  <2>1. {} \in SUBSET Paths /\ 0 \in Nat /\ \A g \in 1..sched.generation : g \in Nat
    BY <1>2
  <2>2. QED
    BY <2>1, BuiltTasks DEF WorkspaceRequests, ResumeRequests, SomeOf
<1>4. t.reason \notin PathReasons
  <2>1. t.reason \in {"open-workspace", "refresh-workspace", "sdk-apply", "full-refresh-deep",
                      "full-refresh-files"}
    BY DEF WorkspaceRequests, ResumeRequests, OpenTask, RefreshTask, SdkTask, DeepTask,
           FileLayerTask, Task
  <2>2. QED
    BY <2>1 DEF PathReasons, HintPriority
<1>5. owed' = owed
  BY DEF Request, ResumeStored
<1>6. QED
  BY <1>1, <1>2, <1>3, <1>4, <1>5, ScheduleKeepsSlots, OtherTaskCovers DEF CoverInv

(* A request for paths adds to what is owed and to what waits, in the same slot. *)
LEMMA RequestPathsCovers ==
  ASSUME CoverInv, NEW root \in Roots, RequestPaths(root)
  PROVE  SlotsHeld(sched') /\ ReadyShaped(sched'.tasks) /\ CoveredReady(sched'.tasks, owed')
<1>1. PICK t \in PathRequests(root) : /\ sched' = ScheduleWithResult(sched, t).scheduler
                                      /\ owed' = OwedAfter(owed, root, t)
  BY DEF RequestPaths, Scheduled, OwedAfter
<1>2. /\ sched \in Schedulers /\ CoveredReady(sched.tasks, owed)
      /\ owed \in [Roots -> [PathReasons -> SUBSET Paths]]
  BY CoveredRestated DEF CoverInv, IInv, TypeOK
<1>3. t \in Tasks
  BY PathRequestType
<1>4. QED
  BY <1>1, <1>2, <1>3, ScheduleKeepsSlots, PathRequestCovers DEF CoverInv

(* The fence gives up what it takes. *)
LEMMA DrainRootCovers ==
  ASSUME CoverInv, NEW root \in Roots, DrainRoot(root)
  PROVE  SlotsHeld(sched') /\ ReadyShaped(sched'.tasks) /\ CoveredReady(sched'.tasks, owed')
<1>1. /\ sched \in Schedulers /\ CoveredReady(sched.tasks, owed)
      /\ owed \in [Roots -> [PathReasons -> SUBSET Paths]]
  BY CoveredRestated DEF CoverInv, IInv, TypeOK
<1>2. /\ SlotsHeld(sched')
      /\ Elements(sched'.tasks) = {t \in Elements(sched.tasks) : t.root # root}
  BY <1>1, DrainRootKeepsSlots DEF DrainRoot, CoverInv
<1>3. \A other \in Roots, reason \in PathReasons :
        owed'[other][reason] = IF other = root THEN {} ELSE owed[other][reason]
  BY <1>1 DEF DrainRoot
<1>4. CoveredReady(sched'.tasks, owed')
  <2> SUFFICES ASSUME NEW other \in Roots, NEW reason \in PathReasons, owed'[other][reason] # {}
               PROVE  CoveredBy(sched'.tasks, other, reason, owed'[other][reason])
    BY DEF CoveredReady
  <2>1. other # root /\ owed'[other][reason] = owed[other][reason]
    BY <1>3
  <2>2. CoveredBy(sched.tasks, other, reason, owed[other][reason])
    BY <1>1, <2>1 DEF CoveredReady
  <2>3. QED
    BY <1>2, <2>1, <2>2 DEF CoveredBy, Covers
<1>5. QED
  BY <1>2, <1>4 DEF CoverInv, ReadyShaped

(* A batch takes what it owes with it. *)
LEMMA DrainCovers ==
  ASSUME CoverInv, Drain
  PROVE  SlotsHeld(sched') /\ ReadyShaped(sched'.tasks) /\ CoveredReady(sched'.tasks, owed')
<1> DEFINE d     == DrainReadyBatch(sched, BatchSize)
           batch == Elements(d.batch)
<1>1. /\ sched \in Schedulers /\ BatchSize \in Nat \ {0} /\ CoveredReady(sched.tasks, owed)
      /\ owed \in [Roots -> [PathReasons -> SUBSET Paths]]
  BY CoveredRestated, BoundsAssumption DEF CoverInv, IInv, TypeOK
<1>2. /\ SlotsHeld(d.scheduler)
      /\ Elements(sched.tasks) \subseteq batch \cup Elements(d.scheduler.tasks)
      /\ \A t \in Elements(d.scheduler.tasks) : t \in Elements(sched.tasks) \/ DeepContinuation(t)
  BY <1>1, DrainKeepsSlots DEF CoverInv
<1>3. batch = {d.batch[i] : i \in DOMAIN d.batch}
  BY DEF Elements, ValuesAt
<1>4. /\ sched' = d.scheduler
      /\ owed' = [root \in Roots |-> [reason \in PathReasons |->
                    owed[root][reason] \ Taken(batch, root, reason)]]
  BY <1>3 DEF Drain
<1> HIDE DEF d, batch
<1>5. ReadyShaped(sched'.tasks)
  BY <1>2, <1>4, PathReasonsAreApart DEF CoverInv, ReadyShaped, Shaped, DeepContinuation
<1>6. CoveredReady(sched'.tasks, owed')
  <2> SUFFICES ASSUME NEW root \in Roots, NEW reason \in PathReasons, owed'[root][reason] # {}
               PROVE  CoveredBy(sched'.tasks, root, reason, owed'[root][reason])
    BY DEF CoveredReady
  <2>1. /\ owed'[root][reason] = owed[root][reason] \ Taken(batch, root, reason)
        /\ owed[root][reason] \subseteq Paths
    BY <1>1, <1>4
  <2>2. PICK c \in Elements(sched.tasks) :
          /\ Covers(c, root, reason)
          /\ c.kind # "changed-paths" \/ owed[root][reason] \subseteq c.paths
    BY <1>1, <2>1 DEF CoveredReady, CoveredBy
  <2>3. CASE c \in batch
    <3>1. CASE c.kind # "changed-paths"
      BY <2>1, <2>2, <2>3, <3>1 DEF Taken
    <3>2. CASE c.kind = "changed-paths"
      <4>1. c.paths \subseteq Taken(batch, root, reason) \/ Taken(batch, root, reason) = Paths
        BY <2>2, <2>3 DEF Taken
      <4>2. QED
        BY <2>1, <2>2, <3>2, <4>1
    <3>3. QED
      BY <3>1, <3>2
  <2>4. CASE c \in Elements(sched'.tasks)
    BY <2>1, <2>2, <2>4 DEF CoveredBy
  <2>5. QED
    BY <1>2, <1>4, <2>3, <2>4
<1>7. QED
  BY <1>2, <1>4, <1>5, <1>6

(* A follow-up never takes a path away from a waiting task. *)
LEMMA FollowUpCovers ==
  ASSUME CoverInv, FollowUp
  PROVE  /\ SlotsHeld(sched') /\ ReadyShaped(sched'.tasks) /\ CoveredReady(sched'.tasks, owed')
         /\ calls' \in Seq(PlanCalls)
<1>1. /\ sched \in Schedulers /\ CoveredReady(sched.tasks, owed)
      /\ calls \in Seq(PlanCalls) /\ calls # <<>>
  BY CoveredRestated DEF CoverInv, IInv, TypeOK, FollowUp
<1>2. Head(calls) \in PlanCalls /\ Tail(calls) \in Seq(PlanCalls)
  BY <1>1, HeadTailProperties
<1>3. /\ sched' = CallResult(sched, Head(calls)).scheduler
      /\ calls' = Tail(calls) /\ owed' = owed
  BY DEF FollowUp, Scheduled
<1>4. QED
  BY <1>1, <1>2, <1>3, CallCovers DEF CoverInv

(* Steps that leave the ready queue and what is owed alone. *)
LEMMA QueueStays ==
  ASSUME CoverInv, sched'.tasks = sched.tasks, owed' = owed,
         \A i \in DOMAIN sched'.delayed : /\ i \in DOMAIN sched.delayed
                                          /\ sched'.delayed[i].task = sched.delayed[i].task
  PROVE  SlotsHeld(sched') /\ ReadyShaped(sched'.tasks) /\ CoveredReady(sched'.tasks, owed')
<1>1. CoveredReady(sched.tasks, owed)
  BY CoveredRestated DEF CoverInv
<1>2. SlotsHeld(sched')
  BY DEF CoverInv, SlotsHeld
<1>3. QED
  BY <1>1, <1>2 DEF CoverInv

(* The strengthened invariant is inductive ... *)
LEMMA CoverStep == CoverInv /\ [Next]_vars => CoverInv'
<1> SUFFICES ASSUME CoverInv, [Next]_vars
             PROVE  CoverInv'
  OBVIOUS
<1>1. IInv'
  BY NextInvariant DEF CoverInv
<1> DEFINE Kept == SlotsHeld(sched') /\ ReadyShaped(sched'.tasks) /\ CoveredReady(sched'.tasks, owed')
<1>2. ASSUME Kept, calls' \in Seq(PlanCalls)
      PROVE  CoverInv'
  <2>1. AcceptedPathsCovered'
    BY <1>2 DEF CoveredReady, CoveredBy, AcceptedPathsCovered, Elements, ValuesAt
  <2>2. QED
    BY <1>1, <1>2, <2>1 DEF CoverInv
<1>3. calls \in Seq(PlanCalls) /\ sched \in Schedulers
  BY DEF CoverInv, IInv, TypeOK
<1>4. CASE \E root \in Roots : Request(root) \/ ResumeStored(root)
  BY <1>2, <1>3, <1>4, RequestCovers DEF Request, ResumeStored
<1>5. CASE \E root \in Roots : RequestPaths(root)
  BY <1>2, <1>3, <1>5, RequestPathsCovers DEF RequestPaths
<1>6. CASE \E root \in Roots : DrainRoot(root)
  BY <1>2, <1>3, <1>6, DrainRootCovers DEF DrainRoot
<1>7. CASE Drain
  BY <1>2, <1>3, <1>7, DrainCovers DEF Drain
<1>8. CASE FollowUp
  BY <1>2, <1>8, FollowUpCovers
<1>9. CASE Resolve
  <2>1. calls' \in Seq(PlanCalls)
    <3>1. PICK t \in running : calls' \in AskedOnly(PossibleFollowUps(t) \cup AfterInterruption(t))
      BY <1>9 DEF Resolve
    <3>2. t \in Tasks
      BY DEF CoverInv, IInv, TypeOK
    <3>3. QED
      BY <3>1, <3>2, PlanType
  <2>2. sched' = sched /\ owed' = owed
    BY <1>9 DEF Resolve, Nothing
  <2>3. Kept
    BY <2>2, QueueStays
  <2>4. QED
    BY <1>2, <2>1, <2>3
<1>10. CASE Synchronize
  <2>1. sched'.tasks = sched.tasks /\ sched'.delayed = sched.delayed /\ owed' = owed /\ calls' = calls
    BY <1>3, <1>10 DEF Synchronize, AdvanceGenerationTo, Schedulers
  <2>2. QED
    BY <1>2, <1>3, <2>1, QueueStays
<1>11. CASE Time
  <2>1. /\ sched'.tasks = sched.tasks /\ owed' = owed /\ calls' = calls
        /\ sched'.delayed = [i \in DOMAIN sched.delayed |-> Sooner(sched.delayed[i])]
    BY <1>3, <1>11 DEF Time, Elapse, Schedulers
  <2>2. \A i \in DOMAIN sched.delayed : sched.delayed[i] \in Delayed
    <3>1. sched.delayed \in Seq(Delayed)
      BY <1>3 DEF Schedulers
    <3>2. QED
      BY <3>1, LenProperties, ElementOfSeq
  <2>3. \A i \in DOMAIN sched.delayed : Sooner(sched.delayed[i]).task = sched.delayed[i].task
    BY <2>2 DEF Sooner, Delayed
  <2>4. QED
    BY <1>2, <1>3, <2>1, <2>3, QueueStays
<1>12. CASE UNCHANGED vars
  BY <1>2, <1>3, <1>12, QueueStays DEF vars
<1>13. QED
  BY <1>4, <1>5, <1>6, <1>7, <1>8, <1>9, <1>10, <1>11, <1>12 DEF Next

(* ... and holds at the start ... *)
LEMMA CoverInit == Init => CoverInv
<1> SUFFICES ASSUME Init
             PROVE  CoverInv
  OBVIOUS
<1>1. sched.tasks = <<>> /\ sched.delayed = <<>> /\ calls = <<>>
  BY DEF Init, EmptyScheduler
<1>2. DOMAIN sched.tasks = {} /\ DOMAIN sched.delayed = {}
  BY <1>1
<1>3. SlotsHeld(sched) /\ ReadyShaped(sched.tasks)
  BY <1>2 DEF SlotsHeld, OnePerSlot, ReadyShaped, Elements, ValuesAt
<1>4. AcceptedPathsCovered
  BY DEF Init, AcceptedPathsCovered
<1>5. calls \in Seq(PlanCalls)
  BY <1>1
<1>6. QED
  BY <1>3, <1>4, <1>5, InitInvariant DEF CoverInv

(* ... so every behaviour keeps the paths accepted from a caller covered by waiting
   tasks, with one waiting task per slot and only deep continuations delayed. *)
THEOREM CoverInvariance == Spec => []CoverInv
BY CoverInit, CoverStep, PTL DEF Spec

(* Whatever is merged, replaced, split into batches and requested meanwhile,  *)
(* a path the scheduler accepted is in a ready task of its reason, or a ready *)
(* task of the whole workspace covers it, until it is dispatched.             *)
THEOREM PathsStayCovered == Spec => []AcceptedPathsCovered
<1>1. CoverInv => AcceptedPathsCovered
  BY DEF CoverInv
<1>2. QED
  BY <1>1, CoverInvariance, PTL

-----------------------------------------------------------------------------
(* Deep continuations: a retry joins the ready queue without coalescing.      *)

(* A deep continuation of root was taken and has not answered, or its answer  *)
(* still has a retry to ask for.                                              *)
Busy(root) ==
  \/ \E t \in running : t.root = root /\ t.reason \in DeepReasons
  \/ \E i \in DOMAIN calls : calls[i].how = "retry" /\ calls[i].task.root = root

(* The invariant of the theorem below: FewDeep of the scheduler is kept by a  *)
(* retry only because its task was taken, which leaves at most one ready.     *)
ShortInv ==
  /\ CoverInv
  /\ QueuesBuilt(sched)
  /\ \A t \in running : DeepBuilt(t)
  /\ \A i \in DOMAIN calls : DeepBuilt(calls[i].task)
  /\ \A root \in Roots :
       /\ FewDeep(sched, root)
       /\ Busy(root) => AtMostOne(DeepAt(sched.tasks, root))

(* What a follow-up call leaves. *)
LEMMA CallFew ==
  ASSUME NEW s \in Schedulers, NEW call \in PlanCalls, QueuesBuilt(s), DeepBuilt(call.task),
         NEW root, FewDeep(s, root),
         call.how = "retry" /\ call.task.root = root => AtMostOne(DeepAt(s.tasks, root))
  PROVE  LET after == CallResult(s, call).scheduler
         IN  QueuesBuilt(after) /\ FewDeep(after, root) /\ FewStay(after.tasks, s.tasks, root)
<1> DEFINE t == call.task
<1>1. t \in Tasks /\ call.how \in {"schedule", "progress", "retry", "resume"}
  BY DEF PlanCalls, Calls
<1>2. ASSUME NEW c \in Schedulers, c.tasks = s.tasks, c.delayed = s.delayed,
             CallResult(s, call) = ScheduleWithResult(c, t)
      PROVE  LET after == CallResult(s, call).scheduler
             IN  QueuesBuilt(after) /\ FewDeep(after, root) /\ FewStay(after.tasks, s.tasks, root)
  <2>1. QueuesBuilt(c) /\ FewDeep(c, root)
    BY <1>2 DEF QueuesBuilt, FewDeep
  <2> DEFINE after == ScheduleWithResult(c, t).scheduler
  <2>2. /\ after.delayed = s.delayed /\ DeepsBuilt(after.tasks)
        /\ FewStay(after.tasks, s.tasks, root)
    BY <1>1, <1>2, <2>1, ScheduleFew
  <2> HIDE DEF after
  <2>3. QueuesBuilt(after) /\ FewDeep(after, root)
    BY <2>2 DEF QueuesBuilt, FewDeep, FewStay
  <2>4. QED
    BY <1>2, <2>2, <2>3 DEF after
<1>3. CASE call.how = "schedule"
  BY <1>2, <1>3 DEF CallResult
<1>4. CASE call.how = "progress"
  <2> DEFINE c == ClearBackgroundRetry(s, t.root, t.reason)
  <2>1. CallResult(s, call) = ScheduleWithResult(c, t)
    BY <1>4 DEF CallResult
  <2>2. c = [s EXCEPT !.attempts = [s.attempts EXCEPT ![<<t.root, t.reason>>] = 0]]
    BY DEF ClearBackgroundRetry
  <2>3. [s.attempts EXCEPT ![<<t.root, t.reason>>] = 0] \in [Roots \X Reasons -> Nat]
    BY DEF Schedulers
  <2> HIDE DEF c, t
  <2>4. c \in Schedulers /\ c.tasks = s.tasks /\ c.delayed = s.delayed
    BY <2>2, <2>3 DEF Schedulers
  <2>5. QED
    BY <1>2, <2>1, <2>4
<1>5. CASE call.how = "retry"
  <2> DEFINE after == ScheduleBackgroundRetry(s, t).scheduler
             q     == TaskOf(s.delayed)
             w     == TaskOf(after.delayed)
  <2>1. CallResult(s, call) = ScheduleBackgroundRetry(s, t)
    BY <1>5 DEF CallResult
  <2>2. after.tasks = s.tasks /\ Joins(w, q, t)
    BY <1>1, RetryFew
  <2> HIDE DEF after
  <2>3. FewStay(w, q, root) /\ (root # t.root => NoneStays(w, q, root)) /\ DeepsBuilt(w)
    BY <2>2 DEF Joins
  <2>4. AtMostOne(DeepAt(w, root))
    BY <2>3 DEF FewStay, FewDeep
  <2>5. DeepAt(w, root) = {} \/ AtMostOne(DeepAt(s.tasks, root))
    BY <1>5, <2>3 DEF NoneStays, FewDeep
  <2>6. QED
    BY <2>1, <2>2, <2>3, <2>4, <2>5 DEF FewDeep, FewStay, QueuesBuilt, after
<1>6. CASE call.how = "resume"
  <2>1. CASE CallResult(s, call) = ScheduleWithResult(s, t)
    BY <1>2, <2>1
  <2>2. CASE CallResult(s, call) = Result(s, {}, FALSE)
    <3>1. CallResult(s, call).scheduler = s
      BY <2>2 DEF Result
    <3>2. QED
      BY <3>1 DEF FewStay
  <2>3. QED
    BY <1>6, <2>1, <2>2 DEF CallResult
<1>7. QED
  BY <1>1, <1>3, <1>4, <1>5, <1>6

(* Only a deep continuation plans a retry, of its own root; what a task plans *)
(* is built like it.                                                          *)
LEMMA RetriesAreOwn ==
  ASSUME NEW t \in Tasks, DeepBuilt(t),
         NEW plan \in AskedOnly(PossibleFollowUps(t) \cup AfterInterruption(t)),
         NEW i \in DOMAIN plan
  PROVE  /\ DeepBuilt(plan[i].task)
         /\ plan[i].how = "retry" => t.reason \in DeepReasons /\ plan[i].task.root = t.root
<1>1. DeepBuilt(plan[i].task)
  <2>1. plan \in Seq(CallsFrom(t))
    BY PlansAreBuilt
  <2>2. plan[i] \in CallsFrom(t)
    BY <2>1, ElementOfSeq, LenProperties
  <2>3. Built(plan[i].task) => DeepBuilt(plan[i].task)
    BY DEF Built, DeepBuilt, ReasonKind, ReasonPriority, DeepReasons
  <2>4. QED
    BY <2>2, <2>3 DEF CallsFrom
<1>2. ASSUME plan[i].how = "retry"
      PROVE  t.reason \in DeepReasons /\ plan[i].task.root = t.root
  <2>1. plan \in PossibleFollowUps(t) \cup AfterInterruption(t)
    BY DEF AskedOnly
  <2>2. plan \notin AfterInterruption(t)
    BY <1>2 DEF AfterInterruption, Call
  <2>3. plan \notin AfterOpen(t) /\ plan \notin AfterSdk(t) /\ plan \notin {<<>>}
    BY <1>2 DEF AfterOpen, AfterSdk, Call
  <2>4. plan \notin AfterLayer(t)
    <3>1. ASSUME NEW a, NEW b, plan = <<Call("schedule", a), Call("schedule", b)>>
          PROVE  FALSE
      BY <1>2, <3>1 DEF Call
    <3>2. ASSUME NEW a, plan = <<Call("schedule", a)>>
          PROVE  FALSE
      BY <1>2, <3>2 DEF Call
    <3>3. plan # <<>>
      OBVIOUS
    <3>4. QED
      BY <3>1, <3>2, <3>3 DEF AfterLayer
  <2>5. plan \notin AfterDiscovery(t)
    BY <1>2 DEF AfterDiscovery, Call
  <2>6. plan \in AfterDeep(t) => plan[i].task.root = t.root
    BY <1>2 DEF AfterDeep, Call, DeepTask, Task
  <2>7. \/ t.reason \in DeepReasons
        \/ PossibleFollowUps(t) \in
             {AfterOpen(t), AfterSdk(t), AfterLayer(t), AfterDiscovery(t), {<<>>}}
    BY DEF PossibleFollowUps
  <2>8. PossibleFollowUps(t) \in
          {AfterOpen(t), AfterSdk(t), AfterLayer(t), AfterDiscovery(t), AfterDeep(t), {<<>>}}
    BY DEF PossibleFollowUps
  <2>9. QED
    BY <2>1, <2>2, <2>3, <2>4, <2>5, <2>6, <2>7, <2>8
<1>3. QED
  BY <1>1, <1>2

(* What a request leaves. *)
LEMMA ShortRequest ==
  ASSUME ShortInv, NEW root \in Roots, Request(root) \/ RequestPaths(root) \/ ResumeStored(root)
  PROVE  /\ QueuesBuilt(sched')
         /\ \A other \in Roots : /\ FewDeep(sched', other)
                                 /\ FewStay(sched'.tasks, sched.tasks, other)
<1>1. PICK t \in WorkspaceRequests(root) \cup PathRequests(root)
                   \cup ResumeRequests(root, sched.generation) :
        sched' = ScheduleWithResult(sched, t).scheduler
  BY DEF Request, RequestPaths, ResumeStored, Scheduled
<1>2. sched \in Schedulers /\ sched.generation \in Nat
  BY DEF ShortInv, CoverInv, IInv, TypeOK, Schedulers
<1>3. t \in Tasks /\ Built(t)
  <2>1. CASE t \in WorkspaceRequests(root) \cup ResumeRequests(root, sched.generation)
    <3>1. {} \in SUBSET Paths /\ 0 \in Nat /\ \A g \in 1..sched.generation : g \in Nat
      BY <1>2
    <3>2. QED
      BY <2>1, <3>1, BuiltTasks, BuiltShape DEF WorkspaceRequests, ResumeRequests, SomeOf
  <2>2. CASE t \in PathRequests(root)
    <3>1. Built(t)
      <4>1. CASE \E paths \in SomeOf(Paths) : t = WatcherTask(root, paths)
        BY <4>1, BuiltShape
      <4>2. CASE \E reason \in DOMAIN HintPriority : t \in HintRequests(root, reason)
        <5>1. PICK reason \in DOMAIN HintPriority, path \in Paths : t = HintTask(root, {path}, reason)
          BY <4>2 DEF HintRequests
        <5>2. QED
          BY <5>1, BuiltShape
      <4>3. QED
        BY <2>2, <4>1, <4>2 DEF PathRequests
    <3>2. QED
      BY <2>2, <3>1, PathRequestType
  <2>3. QED
    BY <1>1, <2>1, <2>2
<1>4. DeepBuilt(t)
  BY <1>3 DEF Built, DeepBuilt, ReasonKind, ReasonPriority, DeepReasons
<1> DEFINE after == ScheduleWithResult(sched, t).scheduler
<1>5. /\ after.delayed = sched.delayed /\ DeepsBuilt(after.tasks)
      /\ \A other : FewStay(after.tasks, sched.tasks, other)
  BY <1>2, <1>3, <1>4, ScheduleFew DEF ShortInv
<1> HIDE DEF after
<1>6. QED
  BY <1>1, <1>5 DEF ShortInv, QueuesBuilt, FewDeep, FewStay, after

(* The strengthened invariant is inductive ... *)
LEMMA ShortStep == ShortInv /\ [Next]_vars => ShortInv'
<1> SUFFICES ASSUME ShortInv, [Next]_vars
             PROVE  ShortInv'
  OBVIOUS
<1>1. CoverInv'
  BY CoverStep DEF ShortInv
<1>2. /\ sched \in Schedulers /\ running \subseteq Tasks /\ calls \in Seq(PlanCalls)
      /\ DOMAIN calls = 1..Len(calls) /\ Len(calls) \in Nat
  <2>1. sched \in Schedulers /\ running \subseteq Tasks /\ calls \in Seq(PlanCalls)
    BY DEF ShortInv, CoverInv, IInv, TypeOK
  <2>2. QED
    BY <2>1, LenProperties
<1>3. ASSUME running' = running, calls' = calls, QueuesBuilt(sched'),
             \A root \in Roots : /\ FewDeep(sched', root)
                                 /\ FewStay(sched'.tasks, sched.tasks, root)
      PROVE  ShortInv'
  <2>1. \A root : Busy(root)' = Busy(root)
    BY <1>3 DEF Busy
  <2>2. \A root \in Roots : FewDeep(sched', root) /\ (Busy(root)' => AtMostOne(DeepAt(sched'.tasks, root)))
    BY <1>3, <2>1 DEF ShortInv, FewStay
  <2>3. QED
    BY <1>1, <1>3, <2>2 DEF ShortInv, QueuesBuilt, FewDeep
<1>4. CASE \E root \in Roots : Request(root) \/ RequestPaths(root) \/ ResumeStored(root)
  BY <1>3, <1>4, ShortRequest DEF Request, RequestPaths, ResumeStored
<1>5. CASE \E root \in Roots : DrainRoot(root)
  <2>1. PICK root \in Roots : DrainRoot(root)
    BY <1>5
  <2>2. sched' = DrainTasksForRoot(sched, root) /\ running' = running /\ calls' = calls
    BY <2>1 DEF DrainRoot
  <2>3. /\ QueuesBuilt(sched')
        /\ \A other : /\ FewStay(sched'.tasks, sched.tasks, other)
                      /\ NoneStays(TaskOf(sched'.delayed), TaskOf(sched.delayed), other)
                      /\ FewStay(TaskOf(sched'.delayed), TaskOf(sched.delayed), other)
    BY <1>2, <2>2, DrainRootFew DEF ShortInv
  <2>4. \A other \in Roots : FewDeep(sched', other)
    BY <2>3 DEF ShortInv, FewDeep, FewStay, NoneStays
  <2>5. QED
    BY <1>3, <2>2, <2>3, <2>4
<1>6. CASE Drain
  <2> DEFINE d == DrainReadyBatch(sched, BatchSize)
  <2>1. /\ running' = {d.batch[i] : i \in DOMAIN d.batch}
        /\ sched' = d.scheduler /\ calls = <<>> /\ calls' = calls
    BY <1>6 DEF Drain
  <2>2. QueuesBuilt(sched) /\ \A root \in Roots : FewDeep(sched, root)
    BY DEF ShortInv
  <2>3. \A root \in Roots :
          /\ QueuesBuilt(d.scheduler) /\ DeepsBuilt(d.batch) /\ FewDeep(d.scheduler, root)
          /\ DeepAt(d.batch, root) # {} => AtMostOne(DeepAt(d.scheduler.tasks, root))
    BY <1>2, <2>2, BoundsAssumption, DrainFew
  <2> HIDE DEF d
  <2>4. \A root : Busy(root)' => DeepAt(d.batch, root) # {}
    BY <2>1 DEF Busy, DeepAt
  <2>5. \A t \in running' : t.root \in Roots /\ \E i \in DOMAIN d.batch : t = d.batch[i]
    BY <1>1, <2>1 DEF CoverInv, IInv, TypeOK, Tasks
  <2>6. \A t \in running' : DeepBuilt(t)
    BY <2>3, <2>5 DEF DeepsBuilt
  <2>7. PICK t \in running' : TRUE
    BY <1>6 DEF Drain
  <2>8. QueuesBuilt(sched')
    BY <2>1, <2>3, <2>5, <2>7
  <2>9. DOMAIN calls' = {}
    BY <2>1
  <2>10. QED
    BY <1>1, <2>1, <2>3, <2>4, <2>6, <2>8, <2>9 DEF ShortInv, QueuesBuilt, FewDeep
<1>7. CASE Resolve
  <2>1. PICK t \in running :
          /\ running' = running \ {t}
          /\ calls' \in AskedOnly(PossibleFollowUps(t) \cup AfterInterruption(t))
          /\ sched' = sched /\ calls = <<>>
    BY <1>7 DEF Resolve, Nothing
  <2>2. t \in Tasks /\ DeepBuilt(t)
    BY <1>2 DEF ShortInv
  <2>3. \A i \in DOMAIN calls' :
          /\ DeepBuilt(calls'[i].task)
          /\ calls'[i].how = "retry" => t.reason \in DeepReasons /\ calls'[i].task.root = t.root
    BY <2>1, <2>2, RetriesAreOwn
  <2>4. \A root : Busy(root)' => Busy(root)
    BY <2>1, <2>3 DEF Busy
  <2>5. QED
    BY <1>1, <2>1, <2>3, <2>4 DEF ShortInv, QueuesBuilt, FewDeep
<1>8. CASE FollowUp
  <2> DEFINE call == Head(calls)
  <2>1. /\ calls # <<>> /\ sched' = CallResult(sched, call).scheduler
        /\ calls' = Tail(calls) /\ running' = running
    BY <1>8 DEF FollowUp, Scheduled
  <2>2. /\ call \in PlanCalls /\ call = calls[1] /\ 1 \in DOMAIN calls
        /\ \A i \in DOMAIN calls' : i + 1 \in DOMAIN calls /\ calls'[i] = calls[i + 1]
    <3>1. call \in PlanCalls /\ call = calls[1] /\ Tail(calls) \in Seq(PlanCalls)
          /\ Len(Tail(calls)) = Len(calls) - 1 /\ Len(calls) > 0
          /\ \A i \in 1..Len(Tail(calls)) : Tail(calls)[i] = calls[i + 1]
      BY <1>2, <2>1, HeadTailProperties, EmptySeq
    <3>2. DOMAIN Tail(calls) = 1..Len(Tail(calls))
      BY <3>1, LenProperties
    <3>3. QED
      BY <1>2, <2>1, <3>1, <3>2
  <2>3. DeepBuilt(call.task)
    BY <2>2 DEF ShortInv
  <2> HIDE DEF call
  <2>4. \A root \in Roots :
          /\ FewDeep(sched, root)
          /\ call.how = "retry" /\ call.task.root = root => AtMostOne(DeepAt(sched.tasks, root))
    BY <2>2 DEF ShortInv, Busy
  <2>5. \A root \in Roots : /\ QueuesBuilt(sched') /\ FewDeep(sched', root)
                            /\ FewStay(sched'.tasks, sched.tasks, root)
    BY <1>2, <2>1, <2>2, <2>3, <2>4, CallFew DEF ShortInv
  <2>6. call.task.root \in Roots
    BY <2>2 DEF PlanCalls, Calls, Tasks
  <2>7. \A root : Busy(root)' => Busy(root)
    BY <2>1, <2>2 DEF Busy
  <2>8. \A i \in DOMAIN calls' : DeepBuilt(calls'[i].task)
    BY <2>2 DEF ShortInv
  <2>9. \A root \in Roots : Busy(root)' => AtMostOne(DeepAt(sched'.tasks, root))
    BY <2>5, <2>7 DEF ShortInv, FewStay
  <2>10. QED
    BY <1>1, <2>1, <2>5, <2>6, <2>8, <2>9 DEF ShortInv, QueuesBuilt, FewDeep
<1>9. ASSUME running' = running, calls' = calls, sched'.tasks = sched.tasks,
             TaskOf(sched'.delayed) = TaskOf(sched.delayed)
      PROVE  ShortInv'
  <2>1. QueuesBuilt(sched') /\ \A root \in Roots : /\ FewDeep(sched', root)
                                                   /\ FewStay(sched'.tasks, sched.tasks, root)
    BY <1>9 DEF ShortInv, QueuesBuilt, FewDeep, FewStay
  <2>2. QED
    BY <1>3, <1>9, <2>1
<1>10. CASE Synchronize
  <2>1. sched'.tasks = sched.tasks /\ sched'.delayed = sched.delayed
    BY <1>2, <1>10 DEF Synchronize, AdvanceGenerationTo, Schedulers
  <2>2. QED
    BY <1>9, <1>10, <2>1 DEF Synchronize
<1>11. CASE Time
  <2>1. /\ sched'.tasks = sched.tasks
        /\ sched'.delayed = [i \in DOMAIN sched.delayed |-> Sooner(sched.delayed[i])]
    BY <1>2, <1>11 DEF Time, Elapse, Schedulers
  <2>2. \A i \in DOMAIN sched.delayed : sched.delayed[i] \in Delayed
    <3>1. sched.delayed \in Seq(Delayed)
      BY <1>2 DEF Schedulers
    <3>2. QED
      BY <3>1, LenProperties, ElementOfSeq
  <2>3. \A i \in DOMAIN sched.delayed : Sooner(sched.delayed[i]).task = sched.delayed[i].task
    BY <2>2 DEF Sooner, Delayed
  <2>4. /\ DOMAIN sched'.delayed = DOMAIN sched.delayed
        /\ \A i \in DOMAIN sched.delayed : sched'.delayed[i].task = sched.delayed[i].task
    BY <2>1, <2>3
  <2>5. TaskOf(sched'.delayed) = TaskOf(sched.delayed)
    BY <2>4 DEF TaskOf
  <2>6. QED
    BY <1>9, <1>11, <2>1, <2>5 DEF Time
<1>12. CASE UNCHANGED vars
  BY <1>9, <1>12 DEF vars
<1>13. QED
  BY <1>4, <1>5, <1>6, <1>7, <1>8, <1>10, <1>11, <1>12 DEF Next

(* ... and holds at the start ... *)
LEMMA ShortInit == Init => ShortInv
<1> SUFFICES ASSUME Init
             PROVE  ShortInv
  OBVIOUS
<1>1. sched.tasks = <<>> /\ sched.delayed = <<>> /\ calls = <<>> /\ running = {}
  BY DEF Init, EmptyScheduler
<1>2. DOMAIN sched.tasks = {} /\ DOMAIN TaskOf(sched.delayed) = {} /\ DOMAIN calls = {}
  BY <1>1 DEF TaskOf
<1>3. QueuesBuilt(sched) /\ \A root : FewDeep(sched, root) /\ ~Busy(root)
  BY <1>1, <1>2 DEF QueuesBuilt, DeepsBuilt, FewDeep, DeepAt, AtMostOne, AtMostTwo, Busy
<1>4. QED
  BY <1>1, <1>2, <1>3, CoverInit DEF ShortInv

(* ... so no behaviour leaves it: a root has a retry waiting, or two deep tasks ready,
   never both, and one ready at most while the task that may retry is in hand. *)
THEOREM ShortInvariance == Spec => []ShortInv
BY ShortInit, ShortStep, PTL DEF Spec

(* At most one, at most two: the cardinalities. *)
LEMMA FewCardinality ==
  ASSUME NEW S
  PROVE  /\ AtMostOne(S) => IsFiniteSet(S) /\ Cardinality(S) \in 0..1
         /\ AtMostTwo(S) => IsFiniteSet(S) /\ Cardinality(S) \in 0..2
<1>1. ASSUME NEW U, AtMostOne(U)
      PROVE  IsFiniteSet(U) /\ Cardinality(U) \in 0..1
  <2>1. CASE U = {}
    BY <2>1, FS_EmptySet
  <2>2. CASE U # {}
    <3>1. PICK x \in U : TRUE
      BY <2>2
    <3>2. U = {x}
      BY <1>1, <3>1 DEF AtMostOne
    <3>3. IsFiniteSet({x}) /\ Cardinality({x}) = 1
      BY FS_Singleton
    <3>4. QED
      BY <3>2, <3>3
  <2>3. QED
    BY <2>1, <2>2
<1>2. ASSUME AtMostTwo(S)
      PROVE  IsFiniteSet(S) /\ Cardinality(S) \in 0..2
  <2>1. CASE S = {}
    BY <2>1, FS_EmptySet
  <2>2. CASE S # {}
    <3>1. PICK x \in S : TRUE
      BY <2>2
    <3> DEFINE U == S \ {x}
    <3>2. AtMostOne(U)
      BY <1>2, <3>1 DEF AtMostOne, AtMostTwo
    <3>3. IsFiniteSet(U) /\ Cardinality(U) \in 0..1
      BY <1>1, <3>2
    <3>4. S = U \cup {x} /\ x \notin U
      BY <3>1
    <3> HIDE DEF U
    <3>5. IsFiniteSet(S) /\ Cardinality(S) = Cardinality(U) + 1
      BY <3>3, <3>4, FS_AddElement
    <3>6. QED
      BY <3>3, <3>5
  <2>3. QED
    BY <2>1, <2>2
<1>3. QED
  BY <1>1, <1>2

(* Outside the deep continuations two ready tasks never share a slot, which   *)
(* cancellation and superseding by slot rely on; of the continuations of a    *)
(* root, which share one slot and whose retries join the ready queue without  *)
(* coalescing, at most two are ready or wait, whatever is requested, resumed  *)
(* and retried meanwhile.                                                     *)
THEOREM SlotsAreExclusive == Spec => []SlotsStayShort
<1>1. ShortInv => SlotsStayShort
  <2> SUFFICES ASSUME ShortInv
               PROVE  SlotsStayShort
    OBVIOUS
  <2>1. SlotsHeld(sched)
    BY DEF ShortInv, CoverInv
  <2>2. ASSUME NEW root \in Roots
        PROVE  Cardinality(DeepReady(root)) + Cardinality(DeepDelayed(root)) <= 2
    <3>1. DeepReady(root) = DeepAt(sched.tasks, root)
      BY DEF DeepReady, DeepAt
    <3>2. DeepDelayed(root) = DeepAt(TaskOf(sched.delayed), root)
      BY DEF DeepDelayed, DeepAt, TaskOf
    <3>3. FewDeep(sched, root)
      BY DEF ShortInv
    <3>4. /\ Cardinality(DeepReady(root)) \in 0..2
          /\ Cardinality(DeepDelayed(root)) \in 0..1
      BY <3>1, <3>2, <3>3, FewCardinality DEF FewDeep
    <3>5. CASE DeepDelayed(root) = {}
      <4>1. Cardinality(DeepDelayed(root)) = 0
        BY <3>5, FS_EmptySet
      <4>2. QED
        BY <3>4, <4>1
    <3>6. CASE AtMostOne(DeepReady(root))
      <4>1. Cardinality(DeepReady(root)) \in 0..1
        BY <3>6, FewCardinality
      <4>2. QED
        BY <3>4, <4>1
    <3>7. QED
      BY <3>1, <3>2, <3>3, <3>5, <3>6 DEF FewDeep
  <2>3. QED
    BY <2>1, <2>2 DEF SlotsHeld, OnePerSlot, Apart, SlotsStayShort
<1>2. QED
  BY <1>1, ShortInvariance, PTL

-----------------------------------------------------------------------------
(* The inductive invariant of the deep refresh, in four parts.                *)

Before(a, b) == <<a, b>> \in {<<"stub", "content">>, <<"stub", "substring">>,
                              <<"content", "substring">>}

(* Catalog and checkpoint go together, and nothing is indexed for a catalog   *)
(* that has no checkpoint yet.                                                *)
CursorInv ==
  /\ \A c \in checkpoint, k \in catalogs : c.generation = k.generation
  /\ pc = "superseding" => checkpoint # {}
  /\ pc = "forgetting" => catalogs = {}
  /\ pc \in {"creating", "starting"} => checkpoint = {}
  /\ pc = "starting" => \A k \in catalogs, t \in task : k.generation = t.generation
  /\ catalogs # {} /\ checkpoint = {} => \A phase \in Phases : indexed[phase] = {}

(* Up to the checkpoint its phase, and every phase before it, is through; no  *)
(* phase after it has begun.                                                  *)
PhaseInv ==
  /\ \A k \in catalogs, c \in checkpoint :
       /\ {f \in k.files : f <= c.last} \subseteq indexed[c.phase]
       /\ \A phase \in Phases :
            /\ Before(phase, c.phase) => k.files \subseteq indexed[phase]
            /\ Before(c.phase, phase) => indexed[phase] = {}
  /\ pc = "advancing" => \A c \in checkpoint : Page(c) # {} /\ Page(c) \subseteq indexed[c.phase]
  /\ \A k \in complete, phase \in Phases : k.files \subseteq indexed[phase]

(* Every task has something to do; one that goes on from a checkpoint exists  *)
(* only where there is one, or no catalog, until a task has failed.           *)
Useful(t) ==
  /\ ~IsEmptyNoop(t)
  /\ t.kind # "changed-paths" \/ t.reason \in DiscoveryReasons \cup ContinuationReasons
  /\ t.reason \in ContinuationReasons => t.kind = "changed-paths"
GoesOn(t) == t.reason \in DeepReasons /\ t.paths = {}

Asking == {call.task : call \in Elements(result.calls)}
Known  == PendingTasks(queue) \cup task \cup Asking

Unstarted == catalogs # {} /\ checkpoint = {} /\ pc # "starting" /\ ~Failed

TaskInv ==
  /\ \A t \in Known \cup rows : Useful(t)
  /\ Unstarted => \A t \in Known : ~GoesOn(t)

(* With nothing pending, nothing can have been superseded, and an unfinished  *)
(* catalog still has its task or the follow-up of its task.                   *)
AliveInv ==
  /\ pc = "down" /\ opener = "idle" => queue = EmptyScheduler
  /\ PendingTasks(queue) = {} =>
       /\ ~cancelled
       /\ ~(pc = "down" /\ opener = "resuming")
       /\ catalogs # {} /\ ~Failed =>
            /\ pc # "idle"
            /\ pc \in {"marking", "clearing", "following"} => result.calls # <<>>

RefreshInv == ResumeTypeOK /\ CursorInv /\ PhaseInv /\ TaskInv /\ AliveInv

-----------------------------------------------------------------------------
(* Pages of files.                                                           *)

(* The order of numbers on a set of them. *)
Ascending(S) == {p \in S \X S : p[1] < p[2]}

LEMMA AscendingOrder ==
  ASSUME NEW S \in SUBSET Nat
  PROVE  TotalOrder(S, Ascending(S))
BY DEF TotalOrder, Ascending

LEMMA AscendingRank ==
  ASSUME NEW S \in SUBSET Nat, NEW f \in S
  PROVE  Rank(S, Ascending(S), f) = Cardinality({g \in S : g < f}) + 1
<1>1. {g \in S : <<g, f>> \in Ascending(S)} = {g \in S : g < f}
  BY DEF Ascending
<1>2. QED
  BY <1>1 DEF Rank

(* A finite set of numbers that is not empty has a largest one. *)
LEMMA LargestExists ==
  ASSUME NEW S \in SUBSET Nat, IsFiniteSet(S), S # {}
  PROVE  \E f \in S : \A g \in S : f >= g
<1> DEFINE R == Ascending(S)
           n == Cardinality(S)
<1>1. TotalOrder(S, R)
  BY AscendingOrder
<1>2. n \in Nat /\ n # 0
  BY FS_CardinalityType, FS_EmptySet
<1>3. n \in 1..n
  BY <1>2
<1>4. \A f, g \in S : f < g => <<f, g>> \in R
  BY DEF Ascending
<1> HIDE DEF R, n
<1>5. PICK f \in S : Rank(S, R, f) = n
  BY <1>1, <1>3, RankOnto DEF n
<1>6. ASSUME NEW g \in S, f < g
      PROVE  FALSE
  <2>1. Rank(S, R, f) < Rank(S, R, g)
    BY <1>1, <1>4, <1>6, RankMonotone
  <2>2. Rank(S, R, g) \in 1..n
    BY <1>1, RankRange DEF n
  <2>3. QED
    BY <1>2, <1>5, <2>1, <2>2
<1>7. QED
  BY <1>6

(* The leading numbers: some, when there are any; with each all before it. *)
LEMMA LeadingProperties ==
  ASSUME NEW S \in SUBSET Nat, IsFiniteSet(S), NEW n \in Nat \ {0}
  PROVE  /\ Leading(S, n) \subseteq S
         /\ S # {} => Leading(S, n) # {}
         /\ \A f \in Leading(S, n), g \in S : g <= f => g \in Leading(S, n)
<1> DEFINE R == Ascending(S)
           Below(f) == {g \in S : g < f}
<1>1. TotalOrder(S, R)
  BY AscendingOrder
<1>2. \A f \in S : Rank(S, R, f) = Cardinality(Below(f)) + 1
  BY AscendingRank
<1>3. \A f \in S : IsFiniteSet(Below(f)) /\ Cardinality(Below(f)) \in Nat
  <2> SUFFICES ASSUME NEW f \in S
               PROVE  IsFiniteSet(Below(f)) /\ Cardinality(Below(f)) \in Nat
    OBVIOUS
  <2>1. Below(f) \in SUBSET S
    OBVIOUS
  <2> HIDE DEF Below
  <2>2. QED
    BY <2>1, FS_Subset, FS_CardinalityType
<1>4. Leading(S, n) = {f \in S : Cardinality(Below(f)) < n}
  BY DEF Leading
<1> HIDE DEF R
<1>5. ASSUME S # {}
      PROVE  Leading(S, n) # {}
  <2>1. 1 \in 1..Cardinality(S)
    BY <1>5, FS_CardinalityType, FS_EmptySet
  <2>2. PICK f \in S : Rank(S, R, f) = 1
    BY <1>1, <2>1, RankOnto
  <2> HIDE DEF Below
  <2>3. Cardinality(Below(f)) = 0
    BY <1>2, <1>3, <2>2
  <2>4. QED
    BY <1>4, <2>3
<1>6. ASSUME NEW f \in Leading(S, n), NEW g \in S, g <= f
      PROVE  g \in Leading(S, n)
  <2>1. f \in S /\ Cardinality(Below(f)) < n
    BY <1>4
  <2>2. Below(g) \in SUBSET Below(f)
    <3>1. \A h \in S : h < g => h < f
      BY <1>6, <2>1
    <3>2. QED
      BY <3>1
  <2> HIDE DEF Below
  <2>3. Cardinality(Below(g)) <= Cardinality(Below(f))
    BY <1>3, <2>1, <2>2, FS_Subset
  <2>4. QED
    BY <1>3, <1>4, <2>1, <2>3
<1>7. QED
  BY <1>4, <1>5, <1>6

(* The newest generation of pending tasks is one of theirs, or the one given. *)
LEMMA NewestType ==
  ASSUME NEW s \in Schedulers, NEW g \in Nat
  PROVE  Newest(PendingTasks(s), g) \in Nat
<1> DEFINE G == {g} \cup {t.generation : t \in PendingTasks(s)}
           a == [i \in DOMAIN s.tasks |-> s.tasks[i].generation]
           b == [i \in DOMAIN s.delayed |-> s.delayed[i].task.generation]
           A == {a[i] : i \in DOMAIN s.tasks}
           B == {b[i] : i \in DOMAIN s.delayed}
<1>1. s.tasks \in Seq(Tasks) /\ s.delayed \in Seq(Delayed)
  BY DEF Schedulers
<1>2. /\ DOMAIN s.tasks = 1..Len(s.tasks) /\ Len(s.tasks) \in Nat
      /\ DOMAIN s.delayed = 1..Len(s.delayed) /\ Len(s.delayed) \in Nat
      /\ \A i \in DOMAIN s.tasks : s.tasks[i] \in Tasks
      /\ \A i \in DOMAIN s.delayed : s.delayed[i] \in Delayed
  BY <1>1, LenProperties, ElementOfSeq
<1>3. G = {g} \cup A \cup B
  BY DEF PendingTasks
<1>4. IsFiniteSet(DOMAIN s.tasks) /\ IsFiniteSet(DOMAIN s.delayed)
  BY <1>2, FS_Interval
<1>5. a \in Surjection(DOMAIN s.tasks, A) /\ b \in Surjection(DOMAIN s.delayed, B)
  BY DEF Surjection
<1>6. A \in SUBSET Nat /\ B \in SUBSET Nat
  <2>1. \A i \in DOMAIN s.tasks : s.tasks[i].generation \in Nat
    BY <1>2 DEF Tasks
  <2>2. \A i \in DOMAIN s.delayed : s.delayed[i].task.generation \in Nat
    BY <1>2 DEF Delayed, Tasks
  <2>3. QED
    BY <2>1, <2>2
<1> HIDE DEF a, b, A, B
<1>7. IsFiniteSet(A) /\ IsFiniteSet(B)
  BY <1>4, <1>5, FS_Surjection
<1>8. IsFiniteSet(G)
  <2>1. IsFiniteSet({g})
    BY FS_Singleton
  <2>2. IsFiniteSet({g} \cup A)
    BY <1>7, <2>1, FS_Union
  <2>3. QED
    BY <1>3, <1>7, <2>2, FS_Union
<1>9. G \in SUBSET Nat /\ G # {}
  BY <1>3, <1>6
<1>10. \E n \in G : \A h \in G : n >= h
  <2> HIDE DEF G
  <2>1. QED
    BY <1>8, <1>9, LargestExists
<1>11. \E n \in G : \A t \in PendingTasks(s) : n >= t.generation /\ n >= g
  BY <1>10
<1>12. Newest(PendingTasks(s), g) \in G
  BY <1>11 DEF Newest
<1>13. QED
  BY <1>9, <1>12

-----------------------------------------------------------------------------
(* The catalog, the checkpoint and the phases.                               *)

LEMMA RootType == Root \in Roots
<1>1. Roots # {}
  BY ResumeAssumption, FS_EmptySet
<1>2. QED
  BY <1>1 DEF Root

(* The files of a catalog from a place on are a finite set of numbers. *)
LEMMA FilesType ==
  ASSUME NEW k \in Catalogs, NEW n
  PROVE  /\ {f \in k.files : f > n} \in SUBSET Nat
         /\ IsFiniteSet({f \in k.files : f > n})
<1>1. {f \in k.files : f > n} \in SUBSET Paths
  BY DEF Catalogs
<1>2. Paths \in SUBSET Nat /\ IsFiniteSet(Paths)
  BY ResumeAssumption
<1>3. QED
  BY <1>1, <1>2, FS_Subset

(* With one catalog, a page is the leading files of it after the checkpoint. *)
LEMMA PageProperties ==
  ASSUME ResumeTypeOK, CursorInv, NEW c \in checkpoint, NEW k \in catalogs
  PROVE  /\ Catalog(c) = catalogs /\ catalogs = {k}
         /\ c \in Checkpoints /\ k \in Catalogs
         /\ Page(c) \subseteq {f \in k.files : f > c.last}
         /\ Page(c) = {} => \A f \in k.files : f <= c.last
         /\ \A f \in Page(c), g \in k.files : g <= f => g <= c.last \/ g \in Page(c)
<1> DEFINE after == {f \in k.files : f > c.last}
<1>1. catalogs = {k} /\ c \in Checkpoints /\ k \in Catalogs
  BY DEF ResumeTypeOK
<1>2. Catalog(c) = {k}
  BY <1>1 DEF Catalog, CursorInv
<1>3. Page(c) = Leading(after, PageSize)
  BY <1>2 DEF Page
<1>4. after \in SUBSET Nat /\ IsFiniteSet(after)
  BY <1>1, FilesType
<1>5. PageSize \in Nat \ {0}
  BY ResumeAssumption
<1>6. /\ Leading(after, PageSize) \subseteq after
      /\ after # {} => Leading(after, PageSize) # {}
      /\ \A f \in Leading(after, PageSize), g \in after : g <= f => g \in Leading(after, PageSize)
  <2> HIDE DEF after
  <2>1. QED
    BY <1>4, <1>5, LeadingProperties
<1>7. c.last \in Nat /\ \A f \in k.files : f \in Nat
  <2>1. \A f \in Paths : f \in Nat
    BY ResumeAssumption
  <2>2. c.last \in Paths \cup {0} /\ k.files \subseteq Paths
    BY <1>1 DEF Checkpoints, Catalogs
  <2>3. QED
    BY <2>1, <2>2
<1>8. \A f \in k.files : f <= c.last \/ f \in after
  BY <1>7
<1> HIDE DEF after
<1>9. QED
  BY <1>1, <1>2, <1>3, <1>6, <1>8 DEF after

(* What leaves the catalog, the checkpoint and the indexed files as they are, *)
(* and does not put the worker at a step of the deep layer.                   *)
Unmoved ==
  /\ UNCHANGED <<catalogs, checkpoint, indexed, complete>>
  /\ \/ pc' \in {"down", "idle", "running", "paging", "marking", "clearing", "following"}
     \/ UNCHANGED <<pc, task>>

LEMMA UnmovedStep ==
  ASSUME CursorInv, PhaseInv, Unmoved
  PROVE  CursorInv' /\ PhaseInv'
<1>1. CursorInv'
  BY DEF CursorInv, Unmoved
<1>2. PhaseInv'
  <2>1. \A c : Page(c)' = Page(c)
    BY DEF Unmoved, Page, Catalog
  <2>2. pc' = "advancing" => pc = "advancing"
    BY DEF Unmoved
  <2>3. QED
    BY <2>1, <2>2 DEF PhaseInv, Unmoved
<1>3. QED
  BY <1>1, <1>2

LEMMA SupersedePhases ==
  ASSUME ResumeTypeOK, CursorInv, PhaseInv, SupersedeCatalog
  PROVE  CursorInv' /\ PhaseInv'
<1>1. catalogs' = {}
  BY DEF SupersedeCatalog, CursorInv
<1>2. /\ pc' = "forgetting" /\ checkpoint' = checkpoint /\ indexed' = indexed
      /\ complete' = complete
  BY DEF SupersedeCatalog, history
<1>3. QED
  BY <1>1, <1>2 DEF CursorInv, PhaseInv

LEMMA ClearPhases ==
  ASSUME ResumeTypeOK, CursorInv, PhaseInv, ClearCursor
  PROVE  CursorInv' /\ PhaseInv'
<1>1. /\ catalogs' = {} /\ checkpoint' = {} /\ pc' = "creating" /\ indexed' = indexed
      /\ complete' = complete
  BY DEF ClearCursor, CursorInv, history
<1>2. QED
  BY <1>1 DEF CursorInv, PhaseInv

LEMMA CreatePhases ==
  ASSUME ResumeTypeOK, CursorInv, PhaseInv, CreateCatalog
  PROVE  CursorInv' /\ PhaseInv'
<1>1. checkpoint = {}
  BY DEF CreateCatalog, CursorInv
<1>2. /\ checkpoint' = {} /\ pc' = "starting" /\ complete' = {}
      /\ indexed' = [phase \in Phases |-> {}] /\ task' = task
  BY <1>1 DEF CreateCatalog, memory
<1>3. \A k \in catalogs', t \in task' : k.generation = t.generation
  BY DEF CreateCatalog, memory, ResumeTypeOK
<1>4. QED
  BY <1>2, <1>3 DEF CursorInv, PhaseInv

LEMMA StartPhases ==
  ASSUME ResumeTypeOK, CursorInv, PhaseInv, StartCursor
  PROVE  CursorInv' /\ PhaseInv'
<1>1. PICK t \in task : checkpoint' = {[generation |-> t.generation, phase |-> "stub", last |-> 0]}
  BY DEF StartCursor
<1> DEFINE c == [generation |-> t.generation, phase |-> "stub", last |-> 0]
<1>2. /\ pc = "starting" /\ checkpoint = {}
      /\ pc' = "paging" /\ catalogs' = catalogs /\ indexed' = indexed /\ complete' = complete
  BY DEF StartCursor, history, CursorInv
<1>3. c.generation = t.generation /\ c.phase = "stub" /\ c.last = 0
  OBVIOUS
<1>4. \A k \in catalogs : k.generation = c.generation
  BY <1>2, <1>3 DEF CursorInv
<1>5. catalogs # {} => \A phase \in Phases : indexed[phase] = {}
  BY <1>2 DEF CursorInv
<1>6. \A k \in catalogs : {f \in k.files : f <= 0} = {}
  <2>1. \A f \in Paths : ~(f <= 0)
    BY ResumeAssumption
  <2>2. \A k \in catalogs : k.files \subseteq Paths
    BY DEF ResumeTypeOK, Catalogs
  <2>3. QED
    BY <2>1, <2>2
<1>7. \A phase \in Phases : ~Before(phase, "stub")
  BY DEF Before
<1> HIDE DEF c
<1>8. CursorInv'
  BY <1>1, <1>2, <1>4 DEF CursorInv, c
<1>9. PhaseInv'
  BY <1>1, <1>2, <1>3, <1>5, <1>6, <1>7 DEF PhaseInv, c
<1>10. QED
  BY <1>8, <1>9

LEMMA NextPhasePhases ==
  ASSUME ResumeTypeOK, CursorInv, PhaseInv, NextPhase
  PROVE  CursorInv' /\ PhaseInv'
<1>1. PICK c \in checkpoint :
        /\ Catalog(c) # {} /\ Page(c) = {} /\ c.phase # "substring"
        /\ checkpoint' = {[c EXCEPT !.phase = After[c.phase], !.last = 0]}
        /\ pc' = "marking"
  BY DEF NextPhase, Goes, Ends
<1> DEFINE d == [c EXCEPT !.phase = After[c.phase], !.last = 0]
<1>2. c \in Checkpoints /\ c.phase \in {"stub", "content"}
  BY <1>1 DEF ResumeTypeOK, Checkpoints, Phases
<1>3. d.generation = c.generation /\ d.phase = After[c.phase] /\ d.last = 0
  BY <1>2 DEF Checkpoints
<1>4. PICK k \in catalogs : TRUE
  BY <1>1 DEF Catalog
<1>5. catalogs = {k} /\ k.files \subseteq Paths /\ \A f \in k.files : f <= c.last
  BY <1>1, PageProperties DEF Catalogs
<1>6. k.files \subseteq indexed[c.phase]
  BY <1>1, <1>5 DEF PhaseInv
<1>7. \A phase \in Phases : Before(phase, d.phase) => phase = c.phase \/ Before(phase, c.phase)
  BY <1>2, <1>3 DEF Before, After, Phases
<1>8. \A phase \in Phases : Before(d.phase, phase) => Before(c.phase, phase)
  BY <1>2, <1>3 DEF Before, After, Phases
<1>9. {f \in k.files : f <= d.last} = {}
  BY <1>3, <1>5, ResumeAssumption
<1>10. catalogs' = catalogs /\ indexed' = indexed /\ complete' = complete
  BY DEF NextPhase, history
<1> HIDE DEF d
<1>11. CursorInv'
  BY <1>1, <1>3, <1>10 DEF CursorInv, d
<1>12. PhaseInv'
  <2>1. checkpoint' = {d}
    BY <1>1 DEF d
  <2>2. \A phase \in Phases : /\ Before(phase, d.phase) => k.files \subseteq indexed[phase]
                              /\ Before(d.phase, phase) => indexed[phase] = {}
    BY <1>1, <1>5, <1>6, <1>7, <1>8 DEF PhaseInv
  <2>3. QED
    BY <1>1, <1>5, <1>9, <1>10, <2>1, <2>2 DEF PhaseInv
<1>13. QED
  BY <1>11, <1>12

LEMMA CompletePhases ==
  ASSUME ResumeTypeOK, CursorInv, PhaseInv, CompleteCatalog
  PROVE  CursorInv' /\ PhaseInv' /\ catalogs' = {} /\ complete' \in SUBSET Catalogs
<1>1. PICK c \in checkpoint :
        /\ Catalog(c) # {} /\ Page(c) = {} /\ c.phase = "substring"
        /\ catalogs' = catalogs \ Catalog(c)
        /\ complete' = Catalog(c)
  BY DEF CompleteCatalog
<1>2. PICK k \in catalogs : TRUE
  BY <1>1 DEF Catalog
<1>3. Catalog(c) = {k} /\ k \in Catalogs /\ catalogs = {k} /\ \A f \in k.files : f <= c.last
  BY <1>1, PageProperties
<1>4. k.files \subseteq indexed[c.phase]
  BY <1>1, <1>3 DEF PhaseInv
<1>5. \A phase \in Phases : phase = c.phase \/ Before(phase, c.phase)
  BY <1>1 DEF Before, Phases
<1>6. \A phase \in Phases : k.files \subseteq indexed[phase]
  BY <1>3, <1>4, <1>5 DEF PhaseInv
<1>7. checkpoint' = {} /\ pc' = "marking" /\ indexed' = indexed
  BY DEF CompleteCatalog, Ends
<1>8. catalogs' = {} /\ complete' = {k}
  BY <1>1, <1>3
<1>9. QED
  BY <1>3, <1>6, <1>7, <1>8 DEF CursorInv, PhaseInv

LEMMA ApplyPhases ==
  ASSUME ResumeTypeOK, CursorInv, PhaseInv, ApplyPage
  PROVE  CursorInv' /\ PhaseInv' /\ indexed' \in [Phases -> SUBSET Paths]
<1>1. PICK c \in checkpoint :
        Page(c) # {} /\ indexed' = [indexed EXCEPT ![c.phase] = @ \cup Page(c)]
  BY DEF ApplyPage
<1>2. PICK k \in catalogs : TRUE
  BY <1>1 DEF Page, Catalog
<1>3. /\ checkpoint = {c} /\ catalogs = {k} /\ c \in Checkpoints /\ k \in Catalogs
      /\ indexed \in [Phases -> SUBSET Paths]
  BY DEF ResumeTypeOK
<1>4. c.phase \in Phases /\ Page(c) \subseteq Paths
  BY <1>3, PageProperties DEF Checkpoints, Catalogs
<1>5. /\ indexed' \in [Phases -> SUBSET Paths]
      /\ indexed'[c.phase] = indexed[c.phase] \cup Page(c)
      /\ \A phase \in Phases : phase # c.phase => indexed'[phase] = indexed[phase]
  BY <1>1, <1>3, <1>4
<1>6. /\ checkpoint' = checkpoint /\ catalogs' = catalogs /\ complete' = complete
      /\ pc' = "advancing" /\ Page(c)' = Page(c)
  BY DEF ApplyPage, database, Page, Catalog
<1>7. CursorInv'
  BY <1>3, <1>6 DEF CursorInv
<1>8. \A phase \in Phases : indexed[phase] \subseteq indexed'[phase]
  BY <1>4, <1>5
<1>9. \A phase \in Phases : Before(c.phase, phase) => indexed'[phase] = {}
  <2>1. \A phase \in Phases : Before(c.phase, phase) => phase # c.phase
    BY DEF Before
  <2>2. QED
    BY <1>3, <1>5, <2>1 DEF PhaseInv
<1>10. PhaseInv'
  BY <1>1, <1>3, <1>4, <1>5, <1>6, <1>8, <1>9 DEF PhaseInv
<1>11. QED
  BY <1>5, <1>7, <1>10

LEMMA AdvancePhases ==
  ASSUME ResumeTypeOK, CursorInv, PhaseInv, AdvanceCursor
  PROVE  CursorInv' /\ PhaseInv' /\ checkpoint' \in SUBSET Checkpoints /\ checkpoint' # {}
         /\ \A c, d \in checkpoint' : c = d
<1>1. PICK c \in checkpoint :
        checkpoint' = {[c EXCEPT !.last = CHOOSE f \in Page(c) : \A g \in Page(c) : f >= g]}
  BY DEF AdvanceCursor
<1>2. /\ pc = "advancing" /\ Page(c) # {} /\ Page(c) \subseteq indexed[c.phase]
      /\ pc' = "marking" /\ catalogs' = catalogs /\ indexed' = indexed /\ complete' = complete
  BY DEF AdvanceCursor, PhaseInv, Goes, Ends, history
<1>3. PICK k \in catalogs : TRUE
  BY <1>2 DEF Page, Catalog
<1>4. /\ checkpoint = {c} /\ catalogs = {k} /\ c \in Checkpoints /\ k \in Catalogs
  BY DEF ResumeTypeOK
<1> DEFINE top == CHOOSE f \in Page(c) : \A g \in Page(c) : f >= g
           d   == [c EXCEPT !.last = top]
<1>5. top \in Page(c) /\ \A g \in Page(c) : top >= g
  <2>1. Page(c) \in SUBSET Nat /\ IsFiniteSet(Page(c))
    <3>1. Page(c) \in SUBSET {f \in k.files : f > c.last}
      BY PageProperties
    <3>2. QED
      BY <1>4, <3>1, FilesType, FS_Subset
  <2>2. QED
    BY <1>2, <2>1, LargestExists
<1>6. top \in k.files /\ top \in Paths
  BY <1>4, <1>5, PageProperties DEF Catalogs
<1> HIDE DEF top
<1>7. d \in Checkpoints /\ d.generation = c.generation /\ d.phase = c.phase /\ d.last = top
  BY <1>4, <1>6 DEF Checkpoints
<1>8. checkpoint' = {d}
  BY <1>1 DEF top
<1> HIDE DEF d
<1>9. CursorInv'
  BY <1>2, <1>4, <1>7, <1>8 DEF CursorInv
<1>10. {f \in k.files : f <= top} \subseteq indexed[c.phase]
  <2>1. \A g \in k.files : g <= top => g <= c.last \/ g \in Page(c)
    BY <1>5, PageProperties
  <2>2. QED
    BY <1>2, <1>4, <2>1 DEF PhaseInv
<1>11. PhaseInv'
  BY <1>2, <1>4, <1>7, <1>8, <1>10 DEF PhaseInv
<1>12. QED
  BY <1>7, <1>8, <1>9, <1>11

-----------------------------------------------------------------------------
(* The tasks: what is pending, what runs and what its result asks for.       *)

LEMMA SmallSequences ==
  ASSUME NEW T, NEW a \in T, NEW b \in T
  PROVE  /\ <<>> \in Seq(T) /\ Elements(<<>>) = {}
         /\ <<a>> \in Seq(T) /\ Elements(<<a>>) = {a} /\ <<a>> # <<>>
         /\ <<a, b>> \in Seq(T) /\ Elements(<<a, b>>) = {a, b} /\ <<a, b>> # <<>>
BY DEF Elements, ValuesAt

(* A call for a useful task leaves useful tasks pending, and some; none that  *)
(* goes on from a checkpoint unless there was one or the task is one.         *)
LEMMA UsefulAddition ==
  ASSUME NEW s, NEW r, NEW t, AddsOnly(s, r, t),
         Useful(t), \A p \in PendingTasks(s) : Useful(p)
  PROVE  /\ PendingTasks(r.scheduler) # {}
         /\ \A p \in PendingTasks(r.scheduler) : Useful(p)
         /\ ~GoesOn(t) /\ (\A p \in PendingTasks(s) : ~GoesOn(p)) =>
              \A p \in PendingTasks(r.scheduler) : ~GoesOn(p)
<1>1. PendingTasks(r.scheduler) # {}
  BY DEF AddsOnly, Useful
<1>2. ASSUME NEW p \in PendingTasks(r.scheduler), p \notin PendingTasks(s)
      PROVE  /\ p.kind = t.kind /\ p.reason = t.reason
             /\ p.paths = {} => t.paths = {}
  BY <1>2 DEF AddsOnly
<1>3. ASSUME NEW p \in PendingTasks(r.scheduler)
      PROVE  Useful(p)
  BY <1>2, <1>3 DEF Useful, IsEmptyNoop
<1>4. ASSUME ~GoesOn(t), \A p \in PendingTasks(s) : ~GoesOn(p),
             NEW p \in PendingTasks(r.scheduler)
      PROVE  ~GoesOn(p)
  BY <1>2, <1>4 DEF GoesOn
<1>5. QED
  BY <1>1, <1>3, <1>4

(* The tasks that are built are useful, and only a deep task without paths    *)
(* goes on from a checkpoint.                                                 *)
LEMMA BuiltAreUseful ==
  ASSUME NEW root, NEW paths, NEW g, NEW why
  PROVE  /\ Useful(OpenTask(root)) /\ ~GoesOn(OpenTask(root))
         /\ why \notin ContinuationReasons =>
              Useful(RefreshTask(root, why)) /\ ~GoesOn(RefreshTask(root, why))
         /\ Useful(DiscoveryTask(root, paths, g)) /\ ~GoesOn(DiscoveryTask(root, paths, g))
         /\ Useful(DeepTask(root, paths, g))
         /\ paths # {} => ~GoesOn(DeepTask(root, paths, g))
         /\ paths # {} => Useful(FileLayerTask(root, paths))
         /\ ~GoesOn(FileLayerTask(root, paths))
BY DEF Useful, GoesOn, IsEmptyNoop, OpenTask, RefreshTask, DiscoveryTask, DeepTask,
       FileLayerTask, Task, DiscoveryReasons, DeepReasons, ContinuationReasons

(* A result that is compared with what is pending next: the task has ended.   *)
LEMMA EndsStep ==
  ASSUME RefreshInv, NEW status \in Outcomes, NEW plan \in Seq(FollowUps), Ends(status, plan),
         UNCHANGED <<queue, task, cancelled, opener, rows, journal>>,
         CursorInv', PhaseInv',
         catalogs' \in SUBSET Catalogs, \A k, l \in catalogs' : k = l,
         checkpoint' \in SUBSET Checkpoints, \A c, d \in checkpoint' : c = d,
         indexed' \in [Phases -> SUBSET Paths], complete' \in SUBSET Catalogs,
         count' \in [Events -> Nat], Failed => Failed',
         \A call \in Elements(plan) : Useful(call.task),
         catalogs' # {} /\ checkpoint' = {} /\ ~Failed' =>
           Unstarted /\ \A call \in Elements(plan) : ~GoesOn(call.task),
         PendingTasks(queue) = {} /\ catalogs' # {} /\ ~Failed' => plan # <<>>
  PROVE  RefreshInv'
<1>1. pc' = "marking" /\ result' = [status |-> status, calls |-> plan]
  BY DEF Ends
<1>2. ResumeTypeOK'
  BY <1>1 DEF RefreshInv, ResumeTypeOK
<1>3. Asking' = {call.task : call \in Elements(plan)} /\ result'.calls = plan
  BY <1>1 DEF Asking
<1>4. TaskInv'
  <2>1. Known' = PendingTasks(queue) \cup task \cup Asking'
    BY DEF Known
  <2>2. \A t \in Asking' : Useful(t)
    BY <1>3
  <2>3. Unstarted' => Unstarted /\ \A t \in Asking' : ~GoesOn(t)
    BY <1>3 DEF Unstarted
  <2>4. \A t \in (Known \cup rows)' : Useful(t)
    BY <2>1, <2>2 DEF RefreshInv, TaskInv, Known
  <2>5. Unstarted' => \A t \in Known' : ~GoesOn(t)
    BY <2>1, <2>3 DEF RefreshInv, TaskInv, Known
  <2>6. QED
    BY <2>4, <2>5 DEF TaskInv
<1>5. AliveInv'
  <2>1. PendingTasks(queue)' = PendingTasks(queue)
    OBVIOUS
  <2>2. PendingTasks(queue) = {} => ~cancelled'
    BY DEF RefreshInv, AliveInv
  <2>3. QED
    BY <1>1, <1>3, <2>1, <2>2 DEF AliveInv
<1>6. QED
  BY <1>2, <1>4, <1>5 DEF RefreshInv

(* An event raises its count and no other. *)
LEMMA HappensType ==
  ASSUME ResumeTypeOK, NEW e \in Events, Happens(e)
  PROVE  /\ count' \in [Events -> Nat]
         /\ \A f \in Events : count'[f] >= count[f]
         /\ count'[e] = count[e] + 1
<1>1. count \in [Events -> Nat] /\ count' = [count EXCEPT ![e] = @ + 1]
  BY DEF ResumeTypeOK, Happens
<1>2. QED
  BY <1>1

LEMMA FailureIsAnEvent == \A e \in {"open", "refresh", "yield", "failure", "crash"} : e \in Events
BY DEF Events

(* A failure is not forgotten. *)
LEMMA FailureStays ==
  ASSUME ResumeTypeOK, count' = count \/ \E e \in Events : Happens(e)
  PROVE  count' \in [Events -> Nat] /\ (Failed => Failed')
<1>1. CASE count' = count
  BY <1>1 DEF ResumeTypeOK, Failed
<1>2. CASE \E e \in Events : Happens(e)
  <2>1. count' \in [Events -> Nat] /\ \A f \in Events : count'[f] >= count[f]
    BY <1>2, HappensType
  <2>2. /\ count["failure"] \in Nat /\ count'["failure"] \in Nat
        /\ count'["failure"] >= count["failure"]
    BY <2>1, FailureIsAnEvent DEF ResumeTypeOK
  <2>3. QED
    BY <2>1, <2>2 DEF Failed
<1>3. QED
  BY <1>1, <1>2

(* A deep task that asks for itself again. *)
LEMMA GoesStep ==
  ASSUME RefreshInv, NEW how \in {"progress", "retry"}, NEW t \in task, Goes(how, t),
         UNCHANGED <<queue, task, cancelled, opener, rows, journal>>,
         CursorInv', PhaseInv', catalogs' = catalogs,
         checkpoint' \in SUBSET Checkpoints, \A c, d \in checkpoint' : c = d, checkpoint' # {},
         indexed' \in [Phases -> SUBSET Paths], complete' = complete,
         count' \in [Events -> Nat], Failed => Failed'
  PROVE  RefreshInv'
<1> DEFINE call == Call(how, DeepTask(Root, {}, t.generation))
<1>1. call \in FollowUps /\ call.task = DeepTask(Root, {}, t.generation)
  <2>1. t.generation \in Nat
    BY DEF RefreshInv, ResumeTypeOK, Tasks
  <2>2. DeepTask(Root, {}, t.generation) \in Tasks
    BY <2>1, RootType, BuiltTasks
  <2>3. QED
    BY <2>2 DEF Call, FollowUps
<1>2. Ends("partial", <<call>>)
  BY DEF Goes
<1>3. Useful(call.task)
  <2>1. Useful(DeepTask(Root, {}, t.generation))
    BY BuiltAreUseful
  <2>2. QED
    BY <1>1, <2>1
<1> HIDE DEF call
<1>4. <<call>> \in Seq(FollowUps) /\ Elements(<<call>>) = {call} /\ <<call>> # <<>>
  BY <1>1, SmallSequences
<1>5. catalogs \in SUBSET Catalogs /\ (\A k, l \in catalogs : k = l) /\ complete \in SUBSET Catalogs
  BY DEF RefreshInv, ResumeTypeOK
<1>6. "partial" \in Outcomes
  BY DEF Outcomes
<1>7. QED
  BY <1>2, <1>3, <1>4, <1>5, <1>6, EndsStep

-----------------------------------------------------------------------------
(* The worker's steps up to the result.                                      *)

LEMMA OutcomeTypes == \A s \in {"superseded", "skipped", "ready", "continued", "partial", "failed"} :
                        s \in Outcomes
BY DEF Outcomes

(* What every part of the invariant says of a step that ends a task and       *)
(* leaves the database as it is.                                              *)
LEMMA EndsHereStep ==
  ASSUME RefreshInv, NEW status \in Outcomes, NEW plan \in Seq(FollowUps), Ends(status, plan),
         UNCHANGED <<queue, task, cancelled, opener, database, indexed, complete>>,
         count' \in [Events -> Nat], Failed => Failed', pc = "starting" => Failed',
         \A call \in Elements(plan) : Useful(call.task) /\ ~GoesOn(call.task),
         PendingTasks(queue) = {} /\ catalogs # {} /\ ~Failed' => plan # <<>>
  PROVE  RefreshInv'
<1>1. UNCHANGED <<catalogs, checkpoint, rows, journal>>
  BY DEF database
<1>2. CursorInv' /\ PhaseInv'
  <2>1. Unmoved
    BY <1>1 DEF Unmoved, Ends
  <2>2. QED
    BY <2>1, UnmovedStep DEF RefreshInv
<1>3. /\ catalogs' \in SUBSET Catalogs /\ \A k, l \in catalogs' : k = l
      /\ checkpoint' \in SUBSET Checkpoints /\ \A c, d \in checkpoint' : c = d
      /\ indexed' \in [Phases -> SUBSET Paths] /\ complete' \in SUBSET Catalogs
  BY <1>1 DEF RefreshInv, ResumeTypeOK
<1>4. catalogs' # {} /\ checkpoint' = {} /\ ~Failed' => Unstarted
  BY <1>1 DEF Unstarted
<1>5. PendingTasks(queue) = {} /\ catalogs' # {} /\ ~Failed' => plan # <<>>
  BY <1>1
<1>6. QED
  BY <1>1, <1>2, <1>3, <1>4, <1>5, EndsStep

LEMMA RunCancelledStep == RefreshInv /\ RunCancelled => RefreshInv'
<1> SUFFICES ASSUME RefreshInv, RunCancelled
             PROVE  RefreshInv'
  OBVIOUS
<1>1. PendingTasks(queue) # {}
  BY DEF RunCancelled, RefreshInv, AliveInv
<1>2. "superseded" \in Outcomes /\ <<>> \in Seq(FollowUps) /\ Elements(<<>>) = {}
  BY OutcomeTypes DEF Elements, ValuesAt
<1>3. count' \in [Events -> Nat] /\ (Failed => Failed')
  BY DEF RunCancelled, history, RefreshInv, ResumeTypeOK, Failed
<1>4. /\ Ends("superseded", <<>>) /\ pc = "running"
      /\ UNCHANGED <<queue, task, cancelled, opener, database, indexed, complete>>
  BY DEF RunCancelled, history
<1>5. QED
  BY <1>1, <1>2, <1>3, <1>4, EndsHereStep

LEMMA RunOpenStep == RefreshInv /\ RunOpen => RefreshInv'
<1> SUFFICES ASSUME RefreshInv, RunOpen
             PROVE  RefreshInv'
  OBVIOUS
<1> DEFINE a == Call("schedule", DiscoveryTask(Root, {}, 0))
           b == Call("schedule", RefreshTask(Root, "background-refresh-after-open"))
<1>1. a \in FollowUps /\ b \in FollowUps
  <2>1. DiscoveryTask(Root, {}, 0) \in Tasks /\ RefreshTask(Root, "background-refresh-after-open") \in Tasks
    BY RootType, BuiltTasks
  <2>2. QED
    BY <2>1 DEF Call, FollowUps
<1>2. Useful(a.task) /\ ~GoesOn(a.task) /\ Useful(b.task) /\ ~GoesOn(b.task)
  <2>1. a.task = DiscoveryTask(Root, {}, 0) /\ b.task = RefreshTask(Root, "background-refresh-after-open")
    BY DEF Call
  <2>2. "background-refresh-after-open" \notin ContinuationReasons
    BY DEF ContinuationReasons, DeepReasons
  <2>3. /\ Useful(DiscoveryTask(Root, {}, 0)) /\ ~GoesOn(DiscoveryTask(Root, {}, 0))
        /\ Useful(RefreshTask(Root, "background-refresh-after-open"))
        /\ ~GoesOn(RefreshTask(Root, "background-refresh-after-open"))
    BY <2>2, BuiltAreUseful
  <2>4. QED
    BY <2>1, <2>3
<1>3. Ends("skipped", <<a>>) \/ Ends("ready", <<b>>)
  BY DEF RunOpen
<1>4. count' \in [Events -> Nat] /\ (Failed => Failed')
  BY DEF RunOpen, history, RefreshInv, ResumeTypeOK, Failed
<1>5. /\ pc # "starting"
      /\ UNCHANGED <<queue, task, cancelled, opener, database, indexed, complete>>
  BY DEF RunOpen, history
<1> HIDE DEF a, b
<1>6. /\ <<a>> \in Seq(FollowUps) /\ Elements(<<a>>) = {a} /\ <<a>> # <<>>
      /\ <<b>> \in Seq(FollowUps) /\ Elements(<<b>>) = {b} /\ <<b>> # <<>>
  BY <1>1, SmallSequences
<1>7. CASE Ends("skipped", <<a>>)
  BY <1>2, <1>4, <1>5, <1>6, <1>7, OutcomeTypes, EndsHereStep
<1>8. CASE Ends("ready", <<b>>)
  BY <1>2, <1>4, <1>5, <1>6, <1>8, OutcomeTypes, EndsHereStep
<1>9. QED
  BY <1>3, <1>7, <1>8

LEMMA RunFileLayerStep == RefreshInv /\ RunFileLayer => RefreshInv'
<1> SUFFICES ASSUME RefreshInv, RunFileLayer
             PROVE  RefreshInv'
  OBVIOUS
<1>1. PICK t \in task : t.kind = "refresh-workspace" \/ t.reason = "full-refresh-files"
  BY DEF RunFileLayer
<1> DEFINE files == IF t.kind = "refresh-workspace" THEN Paths ELSE t.paths
           chunk == Leading(files, ChunkSize)
           rest  == files \ chunk
           a     == Call("schedule", FileLayerTask(Root, rest))
           b     == Call("schedule", DeepTask(Root, chunk, 0))
<1>2. \/ rest = {} /\ Ends("ready", <<b>>)
      \/ rest # {} /\ Ends("continued", <<a, b>>)
  BY <1>1 DEF RunFileLayer, RefreshInv, ResumeTypeOK
<1>3. t \in Tasks /\ Useful(t)
  BY DEF RefreshInv, ResumeTypeOK, TaskInv, Known
<1>4. files \in SUBSET Paths /\ files # {}
  <2>1. CASE t.kind = "refresh-workspace"
    BY <2>1, ResumeAssumption
  <2>2. CASE t.kind # "refresh-workspace"
    <3>1. t.reason = "full-refresh-files"
      BY <1>1, <2>2
    <3>2. t.paths # {}
      BY <1>3, <3>1 DEF Useful, IsEmptyNoop, DiscoveryReasons, ContinuationReasons, DeepReasons
    <3>3. QED
      BY <1>3, <2>2, <3>2 DEF Tasks
  <2>3. QED
    BY <2>1, <2>2
<1>5. chunk \in SUBSET Paths /\ chunk # {} /\ rest \in SUBSET Paths
  <2>1. files \in SUBSET Nat /\ IsFiniteSet(files)
    BY <1>4, ResumeAssumption, FS_Subset
  <2>2. ChunkSize \in Nat \ {0}
    BY ResumeAssumption
  <2> HIDE DEF files
  <2>3. chunk \subseteq files /\ chunk # {}
    BY <1>4, <2>1, <2>2, LeadingProperties
  <2>4. QED
    BY <1>4, <2>3
<1> HIDE DEF chunk, rest
<1>6. a \in FollowUps /\ b \in FollowUps
  <2>1. FileLayerTask(Root, rest) \in Tasks /\ DeepTask(Root, chunk, 0) \in Tasks
    BY <1>5, RootType, BuiltTasks
  <2>2. QED
    BY <2>1 DEF Call, FollowUps
<1>7. /\ Useful(b.task) /\ ~GoesOn(b.task)
      /\ rest # {} => Useful(a.task) /\ ~GoesOn(a.task)
  <2>1. a.task = FileLayerTask(Root, rest) /\ b.task = DeepTask(Root, chunk, 0)
    BY DEF Call
  <2>2. /\ Useful(DeepTask(Root, chunk, 0)) /\ ~GoesOn(DeepTask(Root, chunk, 0))
        /\ rest # {} => Useful(FileLayerTask(Root, rest)) /\ ~GoesOn(FileLayerTask(Root, rest))
    BY <1>5, BuiltAreUseful
  <2>3. QED
    BY <2>1, <2>2
<1>8. count' \in [Events -> Nat] /\ (Failed => Failed')
  BY DEF RunFileLayer, history, RefreshInv, ResumeTypeOK, Failed
<1>9. /\ pc # "starting"
      /\ UNCHANGED <<queue, task, cancelled, opener, database, indexed, complete>>
  BY DEF RunFileLayer, history
<1> HIDE DEF a, b
<1> HIDE DEF files
<1>10. /\ <<b>> \in Seq(FollowUps) /\ Elements(<<b>>) = {b} /\ <<b>> # <<>>
       /\ <<a, b>> \in Seq(FollowUps) /\ Elements(<<a, b>>) = {a, b} /\ <<a, b>> # <<>>
  <2>1. \A x \in FollowUps : <<x>> \in Seq(FollowUps) /\ Elements(<<x>>) = {x} /\ <<x>> # <<>>
    BY SmallSequences
  <2>2. ASSUME NEW x \in FollowUps, NEW y \in FollowUps
        PROVE  <<x, y>> \in Seq(FollowUps) /\ Elements(<<x, y>>) = {x, y} /\ <<x, y>> # <<>>
    BY DEF Elements, ValuesAt
  <2>3. QED
    BY <1>6, <2>1, <2>2
<1>11. CASE rest = {} /\ Ends("ready", <<b>>)
  BY <1>7, <1>8, <1>9, <1>10, <1>11, OutcomeTypes, EndsHereStep
<1>12. CASE rest # {} /\ Ends("continued", <<a, b>>)
  BY <1>7, <1>8, <1>9, <1>10, <1>12, OutcomeTypes, EndsHereStep
<1>13. QED
  BY <1>2, <1>11, <1>12

-----------------------------------------------------------------------------
(* The worker's steps inside the deep layer.                                 *)

(* A step from one place of the deep layer to the next. *)
LEMMA MovesStep ==
  ASSUME RefreshInv, pc' \in Registered, Unstarted' => Unstarted,
         UNCHANGED <<queue, task, cancelled, result, opener, rows, journal, count>>,
         CursorInv', PhaseInv',
         catalogs' \in SUBSET Catalogs, \A k, l \in catalogs' : k = l,
         checkpoint' \in SUBSET Checkpoints, \A c, d \in checkpoint' : c = d,
         indexed' \in [Phases -> SUBSET Paths], complete' \in SUBSET Catalogs
  PROVE  RefreshInv'
<1>1. ResumeTypeOK'
  BY DEF RefreshInv, ResumeTypeOK
<1>2. TaskInv'
  <2>1. (Known \cup rows)' = Known \cup rows /\ Known' = Known
    BY DEF Known, Asking
  <2>2. QED
    BY <2>1 DEF RefreshInv, TaskInv
<1>3. AliveInv'
  <2>1. pc' \notin {"down", "idle", "marking", "clearing", "following"}
    BY DEF Registered
  <2>2. PendingTasks(queue)' = PendingTasks(queue)
    OBVIOUS
  <2>3. PendingTasks(queue) = {} => ~cancelled
    BY DEF RefreshInv, AliveInv
  <2>4. QED
    BY <2>1, <2>2, <2>3 DEF AliveInv
<1>4. QED
  BY <1>1, <1>2, <1>3 DEF RefreshInv

(* The database as it is typed. *)
LEMMA DatabaseType ==
  ASSUME RefreshInv
  PROVE  /\ catalogs \in SUBSET Catalogs /\ \A k, l \in catalogs : k = l
         /\ checkpoint \in SUBSET Checkpoints /\ \A c, d \in checkpoint : c = d
         /\ indexed \in [Phases -> SUBSET Paths] /\ complete \in SUBSET Catalogs
         /\ count \in [Events -> Nat] /\ task \in SUBSET Tasks /\ \A t, u \in task : t = u
         /\ CursorInv /\ PhaseInv /\ ResumeTypeOK
BY DEF RefreshInv, ResumeTypeOK

LEMMA RegisteredPlaces ==
  \A place \in {"running", "superseding", "forgetting", "creating", "starting", "paging",
                "advancing"} : place \in Registered
BY DEF Registered

LEMMA LoadCursorStep == RefreshInv /\ LoadCursor => RefreshInv'
<1> SUFFICES ASSUME RefreshInv, LoadCursor
             PROVE  RefreshInv'
  OBVIOUS
<1>1. PICK t \in task :
        /\ t.reason \in DeepReasons
        /\ \/ t.paths = {} /\ checkpoint = {} /\ Ends("failed", <<>>)
           \/ t.paths = {} /\ checkpoint # {} /\ pc' = "paging" /\ result' = result
           \/ checkpoint = {} /\ pc' = "creating" /\ result' = result
           \/ checkpoint # {} /\ pc' = "superseding" /\ result' = result
  BY DEF LoadCursor
<1>2. /\ pc = "running"
      /\ UNCHANGED <<queue, task, cancelled, opener, rows, journal, count>>
      /\ UNCHANGED <<catalogs, checkpoint, indexed, complete>>
  BY DEF LoadCursor, database, history
<1>3. CASE t.paths = {} /\ checkpoint = {} /\ Ends("failed", <<>>)
  <2>1. catalogs = {} \/ Failed
    <3>1. t \in Known /\ GoesOn(t)
      BY <1>1, <1>3 DEF Known, GoesOn
    <3>2. ~Unstarted
      BY <3>1 DEF RefreshInv, TaskInv
    <3>3. QED
      BY <1>2, <1>3, <3>2 DEF Unstarted
  <2>2. "failed" \in Outcomes /\ <<>> \in Seq(FollowUps) /\ Elements(<<>>) = {}
    BY OutcomeTypes DEF Elements, ValuesAt
  <2>3. /\ UNCHANGED <<queue, task, cancelled, opener, database, indexed, complete>>
        /\ count' \in [Events -> Nat] /\ (Failed => Failed')
    BY <1>2, DatabaseType DEF database, Failed
  <2>4. QED
    BY <1>2, <1>3, <2>1, <2>2, <2>3, EndsHereStep
<1>4. CASE result' = result /\ pc' \in {"paging", "creating", "superseding"}
                            /\ (pc' = "creating" => checkpoint = {})
                            /\ (pc' = "superseding" => checkpoint # {})
  <2>1. CursorInv'
    BY <1>2, <1>4, DatabaseType DEF CursorInv
  <2>2. PhaseInv'
    <3>1. \A c : Page(c)' = Page(c)
      BY <1>2 DEF Page, Catalog
    <3>2. QED
      BY <1>2, <1>4, <3>1, DatabaseType DEF PhaseInv
  <2>3. Unstarted' => Unstarted
    BY <1>2 DEF Unstarted, Failed
  <2>4. pc' \in Registered
    BY <1>4, RegisteredPlaces
  <2>5. QED
    BY <1>2, <1>4, <2>1, <2>2, <2>3, <2>4, DatabaseType, MovesStep
<1>5. QED
  BY <1>1, <1>3, <1>4

LEMMA SupersedeCatalogStep == RefreshInv /\ SupersedeCatalog => RefreshInv'
<1> SUFFICES ASSUME RefreshInv, SupersedeCatalog
             PROVE  RefreshInv'
  OBVIOUS
<1>1. CursorInv' /\ PhaseInv'
  BY DatabaseType, SupersedePhases
<1>2. /\ pc' = "forgetting"
      /\ UNCHANGED <<queue, task, cancelled, result, opener, rows, journal, count>>
      /\ UNCHANGED <<checkpoint, indexed, complete>>
  BY DEF SupersedeCatalog, memory, history
<1>3. catalogs' = {}
  BY <1>1, <1>2 DEF CursorInv
<1>4. ~Unstarted' /\ pc' \in Registered
  BY <1>2, <1>3, RegisteredPlaces DEF Unstarted
<1>5. QED
  BY <1>1, <1>2, <1>3, <1>4, DatabaseType, MovesStep

LEMMA ClearCursorStep == RefreshInv /\ ClearCursor => RefreshInv'
<1> SUFFICES ASSUME RefreshInv, ClearCursor
             PROVE  RefreshInv'
  OBVIOUS
<1>1. CursorInv' /\ PhaseInv'
  BY DatabaseType, ClearPhases
<1>2. /\ pc = "forgetting" /\ pc' = "creating" /\ checkpoint' = {}
      /\ UNCHANGED <<queue, task, cancelled, result, opener, rows, journal, count>>
      /\ UNCHANGED <<catalogs, indexed, complete>>
  BY DEF ClearCursor, memory, history
<1>3. catalogs = {}
  BY <1>2, DatabaseType DEF CursorInv
<1>4. ~Unstarted' /\ pc' \in Registered
  BY <1>2, <1>3, RegisteredPlaces DEF Unstarted
<1>5. QED
  BY <1>1, <1>2, <1>4, DatabaseType, MovesStep

LEMMA CreateCatalogStep == RefreshInv /\ CreateCatalog => RefreshInv'
<1> SUFFICES ASSUME RefreshInv, CreateCatalog
             PROVE  RefreshInv'
  OBVIOUS
<1>1. CursorInv' /\ PhaseInv'
  BY DatabaseType, CreatePhases
<1>2. PICK t \in task : /\ catalogs' = {[generation |-> t.generation, files |-> t.paths]}
                        /\ checkpoint' = {c \in checkpoint : c.generation = t.generation}
  BY DEF CreateCatalog
<1>3. /\ pc' = "starting" /\ indexed' = [phase \in Phases |-> {}] /\ complete' = {}
      /\ UNCHANGED <<queue, task, cancelled, result, opener, rows, journal, count>>
  BY DEF CreateCatalog, memory
<1>4. catalogs' \in SUBSET Catalogs /\ \A k, l \in catalogs' : k = l
  <2>1. t \in Tasks
    BY DatabaseType
  <2>2. [generation |-> t.generation, files |-> t.paths] \in Catalogs
    BY <2>1 DEF Tasks, Catalogs
  <2>3. QED
    BY <1>2, <2>2
<1>5. ~Unstarted' /\ pc' \in Registered
  BY <1>3, RegisteredPlaces DEF Unstarted
<1>6. indexed' \in [Phases -> SUBSET Paths]
  BY <1>3
<1>7. checkpoint' \in SUBSET Checkpoints /\ \A c, d \in checkpoint' : c = d
  BY <1>2, DatabaseType
<1>8. QED
  BY <1>1, <1>3, <1>4, <1>5, <1>6, <1>7, MovesStep

LEMMA StartCursorStep == RefreshInv /\ StartCursor => RefreshInv'
<1> SUFFICES ASSUME RefreshInv, StartCursor
             PROVE  RefreshInv'
  OBVIOUS
<1>1. CursorInv' /\ PhaseInv'
  BY DatabaseType, StartPhases
<1>2. PICK t \in task : checkpoint' = {[generation |-> t.generation, phase |-> "stub", last |-> 0]}
  BY DEF StartCursor
<1>3. /\ pc' = "paging"
      /\ UNCHANGED <<queue, task, cancelled, result, opener, rows, journal, count>>
      /\ UNCHANGED <<catalogs, indexed, complete>>
  BY DEF StartCursor, memory, history
<1>4. checkpoint' \in SUBSET Checkpoints /\ \A c, d \in checkpoint' : c = d
  <2>1. t \in Tasks
    BY DatabaseType
  <2>2. [generation |-> t.generation, phase |-> "stub", last |-> 0] \in Checkpoints
    BY <2>1 DEF Tasks, Checkpoints, Phases
  <2>3. QED
    BY <1>2, <2>2
<1>5. ~Unstarted' /\ pc' \in Registered
  BY <1>2, <1>3, RegisteredPlaces DEF Unstarted
<1>6. QED
  BY <1>1, <1>3, <1>4, <1>5, DatabaseType, MovesStep

LEMMA ApplyPageStep == RefreshInv /\ ApplyPage => RefreshInv'
<1> SUFFICES ASSUME RefreshInv, ApplyPage
             PROVE  RefreshInv'
  OBVIOUS
<1>1. CursorInv' /\ PhaseInv' /\ indexed' \in [Phases -> SUBSET Paths]
  BY DatabaseType, ApplyPhases
<1>2. /\ pc = "paging" /\ pc' = "advancing"
      /\ UNCHANGED <<queue, task, cancelled, result, opener, rows, journal, count>>
      /\ UNCHANGED <<catalogs, checkpoint, complete>>
  BY DEF ApplyPage, memory, database
<1>3. (Unstarted' => Unstarted) /\ pc' \in Registered
  BY <1>2, RegisteredPlaces DEF Unstarted, Failed
<1>4. QED
  BY <1>1, <1>2, <1>3, DatabaseType, MovesStep

LEMMA NextPhaseStep == RefreshInv /\ NextPhase => RefreshInv'
<1> SUFFICES ASSUME RefreshInv, NextPhase
             PROVE  RefreshInv'
  OBVIOUS
<1>1. CursorInv' /\ PhaseInv'
  BY DatabaseType, NextPhasePhases
<1>2. PICK c \in checkpoint, t \in task :
        /\ c.phase # "substring"
        /\ checkpoint' = {[c EXCEPT !.phase = After[c.phase], !.last = 0]}
        /\ Goes("progress", t)
  BY DEF NextPhase
<1>3. /\ UNCHANGED <<queue, task, cancelled, opener, rows, journal, count>>
      /\ UNCHANGED <<catalogs, indexed, complete>>
  BY DEF NextPhase, history
<1>4. checkpoint' \in SUBSET Checkpoints /\ (\A d, e \in checkpoint' : d = e) /\ checkpoint' # {}
  <2>1. c \in Checkpoints /\ After[c.phase] \in Phases
    BY <1>2, DatabaseType DEF Checkpoints, After, Phases
  <2>2. [c EXCEPT !.phase = After[c.phase], !.last = 0] \in Checkpoints
    BY <2>1 DEF Checkpoints
  <2>3. QED
    BY <1>2, <2>2
<1>5. count' \in [Events -> Nat] /\ (Failed => Failed')
  BY <1>3, DatabaseType DEF Failed
<1>6. indexed' \in [Phases -> SUBSET Paths]
  BY <1>3, DatabaseType
<1>7. QED
  BY <1>1, <1>2, <1>3, <1>4, <1>5, <1>6, GoesStep

LEMMA AdvanceCursorStep == RefreshInv /\ AdvanceCursor => RefreshInv'
<1> SUFFICES ASSUME RefreshInv, AdvanceCursor
             PROVE  RefreshInv'
  OBVIOUS
<1>1. CursorInv' /\ PhaseInv' /\ checkpoint' \in SUBSET Checkpoints /\ checkpoint' # {}
      /\ \A c, d \in checkpoint' : c = d
  BY DatabaseType, AdvancePhases
<1>2. PICK t \in task : Goes("progress", t)
  BY DEF AdvanceCursor
<1>3. /\ UNCHANGED <<queue, task, cancelled, opener, rows, journal, count>>
      /\ UNCHANGED <<catalogs, indexed, complete>>
  BY DEF AdvanceCursor, history
<1>4. count' \in [Events -> Nat] /\ (Failed => Failed')
  BY <1>3, DatabaseType DEF Failed
<1>5. indexed' \in [Phases -> SUBSET Paths]
  BY <1>3, DatabaseType
<1>6. QED
  BY <1>1, <1>2, <1>3, <1>4, <1>5, GoesStep

(* A turn that is given away. *)
LEMMA YieldStep == RefreshInv /\ Yield => RefreshInv'
<1> SUFFICES ASSUME RefreshInv, Yield
             PROVE  RefreshInv'
  OBVIOUS
<1>1. PICK t \in task : checkpoint # {} /\ Goes("retry", t)
  BY DEF Yield
<1>2. /\ UNCHANGED <<queue, task, cancelled, opener, rows, journal>>
      /\ UNCHANGED <<catalogs, checkpoint, indexed, complete>>
  BY DEF Yield, database
<1>3. CursorInv' /\ PhaseInv'
  <2>1. Unmoved
    BY <1>1, <1>2 DEF Unmoved, Goes, Ends
  <2>2. QED
    BY <2>1, DatabaseType, UnmovedStep
<1>4. count' \in [Events -> Nat] /\ (Failed => Failed')
  <2>1. Happens("yield")
    BY DEF Yield
  <2>2. QED
    BY <2>1, DatabaseType, FailureIsAnEvent, FailureStays
<1>5. /\ checkpoint' \in SUBSET Checkpoints /\ (\A c, d \in checkpoint' : c = d) /\ checkpoint' # {}
      /\ indexed' \in [Phases -> SUBSET Paths]
  BY <1>1, <1>2, DatabaseType
<1>6. QED
  BY <1>1, <1>2, <1>3, <1>4, <1>5, GoesStep

LEMMA CompleteCatalogStep == RefreshInv /\ CompleteCatalog => RefreshInv'
<1> SUFFICES ASSUME RefreshInv, CompleteCatalog
             PROVE  RefreshInv'
  OBVIOUS
<1>1. CursorInv' /\ PhaseInv' /\ catalogs' = {} /\ complete' \in SUBSET Catalogs
  BY DatabaseType, CompletePhases
<1>2. /\ Ends("ready", <<>>) /\ checkpoint' = {}
      /\ UNCHANGED <<queue, task, cancelled, opener, rows, journal>>
      /\ indexed' = indexed /\ count' = count
  BY DEF CompleteCatalog
<1>3. "ready" \in Outcomes /\ <<>> \in Seq(FollowUps) /\ Elements(<<>>) = {}
  BY OutcomeTypes DEF Elements, ValuesAt
<1>4. /\ catalogs' \in SUBSET Catalogs /\ (\A k, l \in catalogs' : k = l)
      /\ checkpoint' \in SUBSET Checkpoints /\ (\A c, d \in checkpoint' : c = d)
      /\ indexed' \in [Phases -> SUBSET Paths]
      /\ count' \in [Events -> Nat] /\ (Failed => Failed')
  BY <1>1, <1>2, DatabaseType DEF Failed
<1>5. QED
  BY <1>1, <1>2, <1>3, <1>4, EndsStep

(* A task that fails. *)
LEMMA FailTaskStep == RefreshInv /\ FailTask => RefreshInv'
<1> SUFFICES ASSUME RefreshInv, FailTask
             PROVE  RefreshInv'
  OBVIOUS
<1>1. /\ Ends("failed", <<>>)
      /\ UNCHANGED <<queue, task, cancelled, opener, database, indexed, complete>>
  BY DEF FailTask
<1>2. count' \in [Events -> Nat] /\ Failed'
  <2>1. Happens("failure")
    BY DEF FailTask
  <2>2. count' \in [Events -> Nat] /\ count'["failure"] = count["failure"] + 1
    BY <2>1, DatabaseType, FailureIsAnEvent, HappensType
  <2>3. count["failure"] \in Nat
    BY DatabaseType, FailureIsAnEvent
  <2>4. QED
    BY <2>2, <2>3 DEF Failed
<1>3. "failed" \in Outcomes /\ <<>> \in Seq(FollowUps) /\ Elements(<<>>) = {}
  BY OutcomeTypes DEF Elements, ValuesAt
<1>4. QED
  BY <1>1, <1>2, <1>3, EndsHereStep

(* A page that is cancelled: what cancelled it is pending. *)
LEMMA CancelPageStep == RefreshInv /\ CancelPage => RefreshInv'
<1> SUFFICES ASSUME RefreshInv, CancelPage
             PROVE  RefreshInv'
  OBVIOUS
<1>1. /\ cancelled /\ checkpoint # {} /\ pc = "paging" /\ pc' = "idle" /\ task' = {}
      /\ UNCHANGED <<queue, cancelled, result, opener, rows, journal, count>>
      /\ UNCHANGED <<catalogs, checkpoint, indexed, complete>>
  BY DEF CancelPage, database, history
<1>2. PendingTasks(queue) # {}
  BY <1>1 DEF RefreshInv, AliveInv
<1>3. CursorInv' /\ PhaseInv'
  <2>1. Unmoved
    BY <1>1 DEF Unmoved
  <2>2. QED
    BY <2>1, DatabaseType, UnmovedStep
<1>4. ResumeTypeOK'
  BY <1>1, DatabaseType DEF ResumeTypeOK
<1>5. TaskInv'
  <2>1. Known' \subseteq Known /\ rows' = rows /\ ~Unstarted'
    BY <1>1 DEF Known, Asking, Unstarted, Failed
  <2>2. QED
    BY <2>1 DEF RefreshInv, TaskInv
<1>6. AliveInv'
  BY <1>1, <1>2 DEF AliveInv
<1>7. QED
  BY <1>3, <1>4, <1>5, <1>6 DEF RefreshInv

-----------------------------------------------------------------------------
(* After the task.                                                           *)

(* A step that leaves the database, its row set apart, and starts nothing. *)
LEMMA KeepsPhases ==
  ASSUME RefreshInv, UNCHANGED <<catalogs, checkpoint, indexed, complete>>,
         \/ pc' \in {"down", "idle", "running", "clearing", "following"}
         \/ UNCHANGED <<pc, task>>
  PROVE  CursorInv' /\ PhaseInv'
<1>1. Unmoved
  BY DEF Unmoved
<1>2. QED
  BY <1>1, DatabaseType, UnmovedStep

LEMMA MarkSupersededStep == RefreshInv /\ MarkSuperseded => RefreshInv'
<1> SUFFICES ASSUME RefreshInv, MarkSuperseded
             PROVE  RefreshInv'
  OBVIOUS
<1>1. /\ pc = "marking" /\ pc' = "clearing"
      /\ UNCHANGED <<queue, task, cancelled, opener, rows, journal, count>>
      /\ UNCHANGED <<catalogs, checkpoint, indexed, complete>>
  BY DEF MarkSuperseded, database, history
<1>2. \/ result' = result
      \/ PendingTasks(queue) # {} /\ result' = [status |-> "superseded", calls |-> <<>>]
  BY DEF MarkSuperseded
<1>3. CursorInv' /\ PhaseInv'
  BY <1>1, KeepsPhases
<1>4. result' \in [status : Outcomes, calls : Seq(FollowUps)]
  <2>1. result \in [status : Outcomes, calls : Seq(FollowUps)]
    BY DEF RefreshInv, ResumeTypeOK
  <2>2. "superseded" \in Outcomes /\ <<>> \in Seq(FollowUps)
    BY OutcomeTypes
  <2>3. [status |-> "superseded", calls |-> <<>>] \in [status : Outcomes, calls : Seq(FollowUps)]
    BY <2>2
  <2>4. QED
    BY <1>2, <2>1, <2>3
<1>5. ResumeTypeOK'
  BY <1>1, <1>4, DatabaseType DEF ResumeTypeOK
<1>6. Asking' \subseteq Asking
  <2>1. CASE result' = result
    BY <2>1 DEF Asking
  <2>2. CASE result' = [status |-> "superseded", calls |-> <<>>]
    <3>1. Elements(<<>>) = {}
      BY DEF Elements, ValuesAt
    <3>2. QED
      BY <2>2, <3>1 DEF Asking
  <2>3. QED
    BY <1>2, <2>1, <2>2
<1>7. TaskInv'
  <2>1. Known' \subseteq Known /\ rows' = rows /\ (Unstarted' => Unstarted)
    BY <1>1, <1>6 DEF Known, Unstarted, Failed
  <2>2. QED
    BY <2>1 DEF RefreshInv, TaskInv
<1>8. AliveInv'
  BY <1>1, <1>2 DEF RefreshInv, AliveInv, Failed
<1>9. QED
  BY <1>3, <1>5, <1>7, <1>8 DEF RefreshInv

LEMMA ClearRowStep == RefreshInv /\ ClearRow => RefreshInv'
<1> SUFFICES ASSUME RefreshInv, ClearRow
             PROVE  RefreshInv'
  OBVIOUS
<1>1. /\ pc = "clearing" /\ pc' = "following" /\ rows' \subseteq rows
      /\ UNCHANGED <<queue, task, cancelled, result, opener, journal, count>>
      /\ UNCHANGED <<catalogs, checkpoint, indexed, complete>>
  BY DEF ClearRow, memory, history
<1>2. CursorInv' /\ PhaseInv'
  BY <1>1, KeepsPhases
<1>3. ResumeTypeOK'
  BY <1>1, DatabaseType DEF ResumeTypeOK
<1>4. TaskInv'
  <2>1. Known' = Known /\ (Unstarted' => Unstarted)
    BY <1>1 DEF Known, Asking, Unstarted, Failed
  <2>2. QED
    BY <1>1, <2>1 DEF RefreshInv, TaskInv
<1>5. AliveInv'
  BY <1>1 DEF RefreshInv, AliveInv, Failed
<1>6. QED
  BY <1>2, <1>3, <1>4, <1>5 DEF RefreshInv

(* Where a task of a reason is pending, the one saved is such a task. *)
LEMMA PendingFound ==
  ASSUME NEW s \in Schedulers, NEW reason, \E p \in PendingTasks(s) : p.reason = reason
  PROVE  Pending(s, reason) \in PendingTasks(s) /\ Pending(s, reason).reason = reason
<1> DEFINE ready == {i \in DOMAIN s.tasks : s.tasks[i].reason = reason}
           later == {i \in DOMAIN s.delayed : s.delayed[i].task.reason = reason}
<1>1. s.tasks \in Seq(Tasks) /\ s.delayed \in Seq(Delayed)
  BY DEF Schedulers
<1>2. /\ DOMAIN s.tasks = 1..Len(s.tasks) /\ Len(s.tasks) \in Nat
      /\ DOMAIN s.delayed = 1..Len(s.delayed) /\ Len(s.delayed) \in Nat
  BY <1>1, LenProperties
<1>3. ready \in SUBSET (1..Len(s.tasks)) /\ later \in SUBSET (1..Len(s.delayed))
  BY <1>2
<1>4. CASE ready # {}
  <2>1. First(ready) \in ready
    <3> HIDE DEF ready
    <3>1. QED
      BY <1>2, <1>3, <1>4, FirstProperties
  <2>2. QED
    BY <1>4, <2>1 DEF Pending, PendingTasks
<1>5. CASE ready = {}
  <2>1. later # {}
    BY <1>5 DEF PendingTasks
  <2>2. First(later) \in later
    <3> HIDE DEF later
    <3>1. QED
      BY <1>2, <1>3, <2>1, FirstProperties
  <2>3. QED
    BY <1>5, <2>2 DEF Pending, PendingTasks
<1>6. QED
  BY <1>4, <1>5

(* A ready task is found before one that waits. *)
LEMMA PendingReady ==
  ASSUME NEW s \in Schedulers, NEW p \in Elements(s.tasks)
  PROVE  Pending(s, p.reason) \in Elements(s.tasks) /\ Pending(s, p.reason).reason = p.reason
<1> DEFINE ready == {i \in DOMAIN s.tasks : s.tasks[i].reason = p.reason}
<1>1. DOMAIN s.tasks = 1..Len(s.tasks) /\ Len(s.tasks) \in Nat
  BY LenProperties DEF Schedulers
<1>2. ready \in SUBSET (1..Len(s.tasks)) /\ ready # {}
  BY <1>1 DEF Elements, ValuesAt
<1>3. First(ready) \in ready
  <2> HIDE DEF ready
  <2>1. QED
    BY <1>1, <1>2, FirstProperties
<1>4. Pending(s, p.reason) = s.tasks[First(ready)]
  BY <1>2 DEF Pending
<1>5. QED
  BY <1>3, <1>4 DEF Elements, ValuesAt

(* schedule_and_save keeps one row for a reason, and each useful. *)
LEMMA SavedType ==
  ASSUME RefreshInv, NEW t, NEW r, r.scheduler \in Schedulers, AddsOnly(queue, r, t),
         \A p \in PendingTasks(r.scheduler) : Useful(p)
  PROVE  /\ Saved(r, t) \in SUBSET {u \in Tasks : u.reason \in ContinuationReasons}
         /\ \A u, v \in Saved(r, t) : u.reason = v.reason => u = v
         /\ \A u \in Saved(r, t) : Useful(u)
<1>1. /\ rows \in SUBSET {u \in Tasks : u.reason \in ContinuationReasons}
      /\ \A u, v \in rows : u.reason = v.reason => u = v
      /\ \A u \in rows : Useful(u)
  BY DEF RefreshInv, ResumeTypeOK, TaskInv
<1>2. CASE ~(r.scheduled /\ t.reason \in ContinuationReasons)
  BY <1>1, <1>2 DEF Saved
<1>3. CASE r.scheduled /\ t.reason \in ContinuationReasons
  <2> DEFINE new == Pending(r.scheduler, t.reason)
  <2>1. new \in PendingTasks(r.scheduler) /\ new.reason = t.reason
    BY <1>3, PendingFound DEF AddsOnly
  <2>2. new \in Tasks
    BY <2>1, PendingType
  <2>3. Saved(r, t) = {new} \cup (rows \ Row(t.reason))
    BY <1>3 DEF Saved
  <2> HIDE DEF new
  <2>4. \A u \in rows \ Row(t.reason) : u.reason # t.reason
    BY DEF Row
  <2>5. QED
    BY <1>1, <1>3, <2>1, <2>2, <2>3, <2>4
<1>4. QED
  BY <1>2, <1>3

(* A step of a call for a useful task: what is pending afterwards. *)
LEMMA UsefulCall ==
  ASSUME RefreshInv, NEW call \in Calls, Useful(call.task), Unstarted => ~GoesOn(call.task)
  PROVE  LET r == CallResult(queue, call)
         IN  /\ r.scheduler \in Schedulers /\ AddsOnly(queue, r, call.task)
             /\ PendingTasks(r.scheduler) # {}
             /\ \A p \in PendingTasks(r.scheduler) : Useful(p)
             /\ Unstarted => \A p \in PendingTasks(r.scheduler) : ~GoesOn(p)
<1> DEFINE r == CallResult(queue, call)
<1>1. queue \in Schedulers
  BY DEF RefreshInv, ResumeTypeOK
<1>2. r.scheduler \in Schedulers
  BY <1>1, CallProperties DEF GoodResult
<1>3. AddsOnly(queue, r, call.task)
  BY <1>1, CallAdds
<1>4. /\ \A p \in PendingTasks(queue) : Useful(p)
      /\ Unstarted => \A p \in PendingTasks(queue) : ~GoesOn(p)
  BY DEF RefreshInv, TaskInv, Known
<1> HIDE DEF r
<1>5. QED
  BY <1>2, <1>3, <1>4, UsefulAddition DEF r

LEMMA ScheduleNextStep == RefreshInv /\ ScheduleNext => RefreshInv'
<1> SUFFICES ASSUME RefreshInv, ScheduleNext
             PROVE  RefreshInv'
  OBVIOUS
<1> DEFINE plan == result.calls
           call == Head(plan)
           r    == CallResult(queue, call)
<1>1. /\ pc = "following" /\ plan # <<>>
      /\ queue' = r.scheduler /\ rows' = Saved(r, call.task)
      /\ result' = [result EXCEPT !.calls = Tail(plan)]
      /\ UNCHANGED <<pc, task, cancelled, opener, journal, count>>
      /\ UNCHANGED <<catalogs, checkpoint, indexed, complete>>
  BY DEF ScheduleNext, history
<1>2. /\ result \in [status : Outcomes, calls : Seq(FollowUps)]
      /\ plan \in Seq(FollowUps)
  BY DEF RefreshInv, ResumeTypeOK
<1>3. /\ call \in FollowUps /\ Tail(plan) \in Seq(FollowUps)
      /\ Len(Tail(plan)) = Len(plan) - 1
      /\ \A i \in 1..Len(Tail(plan)) : Tail(plan)[i] = plan[i + 1]
  BY <1>1, <1>2, HeadTailProperties
<1>4. /\ Len(plan) \in Nat \ {0} /\ DOMAIN plan = 1..Len(plan)
      /\ DOMAIN Tail(plan) = 1..Len(Tail(plan))
  BY <1>1, <1>2, <1>3, LenProperties, EmptySeq
<1>5. call \in Elements(plan) /\ Elements(Tail(plan)) \subseteq Elements(plan)
  <2>1. call = plan[1] /\ 1 \in DOMAIN plan
    BY <1>4
  <2>2. \A i \in DOMAIN Tail(plan) : i + 1 \in DOMAIN plan /\ Tail(plan)[i] = plan[i + 1]
    BY <1>3, <1>4
  <2>3. QED
    BY <2>1, <2>2 DEF Elements, ValuesAt
<1>6. result'.calls = Tail(plan) /\ result' \in [status : Outcomes, calls : Seq(FollowUps)]
  BY <1>1, <1>2, <1>3
<1>7. Asking' \subseteq Asking /\ call.task \in Asking
  BY <1>5, <1>6 DEF Asking
<1> HIDE DEF plan, call
<1>8. Useful(call.task) /\ (Unstarted => ~GoesOn(call.task)) /\ call \in Calls
  BY <1>3, <1>7 DEF RefreshInv, TaskInv, Known, Calls, FollowUps
<1>9. /\ r.scheduler \in Schedulers /\ AddsOnly(queue, r, call.task)
      /\ PendingTasks(r.scheduler) # {}
      /\ \A p \in PendingTasks(r.scheduler) : Useful(p)
      /\ Unstarted => \A p \in PendingTasks(r.scheduler) : ~GoesOn(p)
  BY <1>8, UsefulCall
<1> HIDE DEF r
<1>10. /\ rows' \in SUBSET {u \in Tasks : u.reason \in ContinuationReasons}
       /\ \A u, v \in rows' : u.reason = v.reason => u = v
       /\ \A u \in rows' : Useful(u)
  BY <1>1, <1>9, SavedType
<1>11. CursorInv' /\ PhaseInv'
  BY <1>1, KeepsPhases
<1>12. ResumeTypeOK'
  BY <1>1, <1>6, <1>9, <1>10, DatabaseType DEF ResumeTypeOK
<1>13. TaskInv'
  <2>1. Known' \subseteq PendingTasks(r.scheduler) \cup Known
    BY <1>1, <1>7 DEF Known
  <2>2. Unstarted' => Unstarted
    BY <1>1 DEF Unstarted, Failed
  <2>3. QED
    BY <1>9, <1>10, <2>1, <2>2 DEF RefreshInv, TaskInv
<1>14. AliveInv'
  BY <1>1, <1>9 DEF AliveInv
<1>15. QED
  BY <1>11, <1>12, <1>13, <1>14 DEF RefreshInv

LEMMA ScheduleInterruptedStep == RefreshInv /\ ScheduleInterrupted => RefreshInv'
<1> SUFFICES ASSUME RefreshInv, ScheduleInterrupted
             PROVE  RefreshInv'
  OBVIOUS
<1>1. /\ pc = "following" /\ result.calls = <<>> /\ pc' = "idle" /\ task' = {} /\ result' = NoResult
      /\ journal' = Newest(PendingTasks(queue'), journal)
      /\ UNCHANGED <<cancelled, opener, rows, count>>
      /\ UNCHANGED <<catalogs, checkpoint, indexed, complete>>
  BY DEF ScheduleInterrupted, history
<1>2. \/ queue' = queue
      \/ \E t \in Interrupted : queue' = CallResult(queue, Call("resume", t)).scheduler
  BY DEF ScheduleInterrupted
<1>3. ASSUME NEW t \in Interrupted, queue' = CallResult(queue, Call("resume", t)).scheduler
      PROVE  /\ queue' \in Schedulers /\ PendingTasks(queue') # {}
             /\ \A p \in PendingTasks(queue') : Useful(p)
             /\ Unstarted => \A p \in PendingTasks(queue') : ~GoesOn(p)
  <2> DEFINE call == Call("resume", t)
  <2>1. t \in rows /\ Recoverable(t)
    BY DEF Interrupted
  <2>2. t \in Tasks /\ Useful(t)
    BY <2>1 DEF RefreshInv, ResumeTypeOK, TaskInv
  <2>3. call \in Calls /\ call.task = t
    BY <2>2 DEF Call, Calls
  <2>4. Unstarted => ~GoesOn(t)
    BY <2>1 DEF Unstarted, GoesOn, Recoverable
  <2> HIDE DEF call
  <2>5. QED
    BY <1>3, <2>2, <2>3, <2>4, UsefulCall DEF call
<1>4. CursorInv' /\ PhaseInv'
  BY <1>1, KeepsPhases
<1>5. queue' \in Schedulers
  BY <1>2, <1>3 DEF RefreshInv, ResumeTypeOK
<1>6. result' \in [status : Outcomes, calls : Seq(FollowUps)] /\ Asking' = {}
  <2>1. "none" \in Outcomes /\ <<>> \in Seq(FollowUps) /\ Elements(<<>>) = {}
    BY DEF Outcomes, Elements, ValuesAt
  <2>2. result' = [status |-> "none", calls |-> <<>>]
    BY <1>1 DEF NoResult
  <2>3. QED
    BY <2>1, <2>2 DEF Asking
<1>7. ResumeTypeOK'
  <2>1. journal' \in Nat
    BY <1>1, <1>5, NewestType DEF RefreshInv, ResumeTypeOK
  <2>2. QED
    BY <1>1, <1>5, <1>6, <2>1, DatabaseType DEF ResumeTypeOK
<1>8. TaskInv'
  <2>1. Known' = PendingTasks(queue')
    BY <1>1, <1>6 DEF Known
  <2>2. Unstarted' => Unstarted
    BY <1>1 DEF Unstarted, Failed
  <2>3. \A t \in Known' : Useful(t)
    BY <1>2, <1>3, <2>1 DEF RefreshInv, TaskInv, Known
  <2>4. Unstarted => \A t \in Known' : ~GoesOn(t)
    BY <1>2, <1>3, <2>1 DEF RefreshInv, TaskInv, Known
  <2>5. QED
    BY <1>1, <2>2, <2>3, <2>4 DEF RefreshInv, TaskInv
<1>9. AliveInv'
  <2>1. PendingTasks(queue') = {} => PendingTasks(queue) = {}
    BY <1>2, <1>3
  <2>2. QED
    BY <1>1, <2>1 DEF RefreshInv, AliveInv, Failed
<1>10. QED
  BY <1>4, <1>7, <1>8, <1>9 DEF RefreshInv

-----------------------------------------------------------------------------
(* The callers, the loop of the worker and the crash.                        *)

(* A caller asks for a useful task that starts from scratch. *)
LEMMA AskedStep ==
  ASSUME RefreshInv, NEW s \in Schedulers, PendingTasks(s) = PendingTasks(queue),
         NEW t \in Tasks, Useful(t), ~GoesOn(t), Asks(s, t),
         UNCHANGED <<pc, task, result, catalogs, checkpoint, rows, indexed, complete>>,
         opener' \in {"idle", "resuming"}, ~(pc = "down" /\ opener' = "idle"),
         count' \in [Events -> Nat], Failed => Failed'
  PROVE  RefreshInv'
<1> DEFINE r == ScheduleWithResult(s, t)
<1>1. queue' = r.scheduler /\ cancelled' \in BOOLEAN /\ journal' = Newest(PendingTasks(queue'), journal)
  BY DEF Asks, Cancels, RefreshInv, ResumeTypeOK
<1>2. r.scheduler \in Schedulers /\ AddsOnly(s, r, t)
  BY ScheduleProperties, ScheduleAdds DEF GoodResult
<1> HIDE DEF r
<1>3. /\ PendingTasks(r.scheduler) # {}
      /\ \A p \in PendingTasks(r.scheduler) : Useful(p)
      /\ Unstarted => \A p \in PendingTasks(r.scheduler) : ~GoesOn(p)
  <2>1. \A p \in PendingTasks(s) : Useful(p)
    BY DEF RefreshInv, TaskInv, Known
  <2>2. Unstarted => \A p \in PendingTasks(s) : ~GoesOn(p)
    BY DEF RefreshInv, TaskInv, Known
  <2>3. QED
    BY <1>2, <2>1, <2>2, UsefulAddition
<1>4. CursorInv' /\ PhaseInv'
  BY KeepsPhases
<1>5. ResumeTypeOK'
  <2>1. journal' \in Nat
    BY <1>1, <1>2, NewestType DEF RefreshInv, ResumeTypeOK
  <2>2. QED
    BY <1>1, <1>2, <2>1, DatabaseType DEF ResumeTypeOK
<1>6. TaskInv'
  <2>1. Known' \subseteq PendingTasks(r.scheduler) \cup Known
    BY <1>1 DEF Known, Asking
  <2>2. Unstarted' => Unstarted
    BY DEF Unstarted
  <2>3. QED
    BY <1>3, <2>1, <2>2 DEF RefreshInv, TaskInv
<1>7. AliveInv'
  BY <1>1, <1>3 DEF AliveInv
<1>8. QED
  BY <1>4, <1>5, <1>6, <1>7 DEF RefreshInv

LEMMA OpenStep == RefreshInv /\ Open => RefreshInv'
<1> SUFFICES ASSUME RefreshInv, Open
             PROVE  RefreshInv'
  OBVIOUS
<1> DEFINE s == AdvanceGenerationTo(queue, journal)
<1>1. /\ Asks(s, OpenTask(Root)) /\ opener' = "resuming"
      /\ UNCHANGED <<pc, task, result, catalogs, checkpoint, rows, indexed, complete>>
  BY DEF Open
<1>2. s \in Schedulers /\ PendingTasks(s) = PendingTasks(queue)
  BY AdvanceKeeps DEF RefreshInv, ResumeTypeOK
<1>3. OpenTask(Root) \in Tasks /\ Useful(OpenTask(Root)) /\ ~GoesOn(OpenTask(Root))
  BY RootType, BuiltTasks, BuiltAreUseful
<1>4. count' \in [Events -> Nat] /\ (Failed => Failed')
  <2>1. count' = count \/ Happens("open")
    BY DEF Open
  <2>2. QED
    BY <2>1, DatabaseType, FailureIsAnEvent, FailureStays
<1> HIDE DEF s
<1>5. QED
  BY <1>1, <1>2, <1>3, <1>4, AskedStep

LEMMA RefreshStep == RefreshInv /\ Refresh => RefreshInv'
<1> SUFFICES ASSUME RefreshInv, Refresh
             PROVE  RefreshInv'
  OBVIOUS
<1> DEFINE t == RefreshTask(Root, "refresh-workspace")
<1>1. /\ Asks(queue, t) /\ opener = "idle" /\ pc # "down"
      /\ UNCHANGED <<pc, task, result, opener, catalogs, checkpoint, rows, indexed, complete>>
  BY DEF Refresh
<1>2. queue \in Schedulers
  BY DEF RefreshInv, ResumeTypeOK
<1>3. t \in Tasks /\ Useful(t) /\ ~GoesOn(t)
  <2>1. "refresh-workspace" \notin ContinuationReasons
    BY DEF ContinuationReasons, DeepReasons
  <2>2. QED
    BY <2>1, RootType, BuiltTasks, BuiltAreUseful
<1>4. count' \in [Events -> Nat] /\ (Failed => Failed')
  <2>1. Happens("refresh")
    BY DEF Refresh
  <2>2. QED
    BY <2>1, DatabaseType, FailureIsAnEvent, FailureStays
<1> HIDE DEF t
<1>5. QED
  BY <1>1, <1>2, <1>3, <1>4, AskedStep

(* Stored tasks come back after what is pending. *)
LEMMA AllScheduledProperties ==
  ASSUME NEW s \in Schedulers, NEW T \in SUBSET Tasks,
         \A t \in T : Useful(t), \A p \in PendingTasks(s) : Useful(p)
  PROVE  LET after == AllScheduled(s, T)
         IN  /\ after \in Schedulers
             /\ PendingTasks(s) # {} => PendingTasks(after) # {}
             /\ \A p \in PendingTasks(after) : Useful(p)
             /\ (\A p \in PendingTasks(s) : ~GoesOn(p)) /\ (\A t \in T : ~GoesOn(t)) =>
                  \A p \in PendingTasks(after) : ~GoesOn(p)
<1>1. CASE T = {}
  BY <1>1 DEF AllScheduled
<1>2. CASE T # {}
  <2> DEFINE t == CHOOSE u \in T : TRUE
             r == ScheduleWithResult(s, t)
  <2>1. t \in T
    BY <1>2
  <2>2. AllScheduled(s, T) = r.scheduler
    BY <1>2 DEF AllScheduled
  <2> HIDE DEF t
  <2>3. r.scheduler \in Schedulers /\ AddsOnly(s, r, t)
    BY <2>1, ScheduleProperties, ScheduleAdds DEF GoodResult
  <2> HIDE DEF r
  <2>4. QED
    BY <2>1, <2>2, <2>3, UsefulAddition
<1>3. QED
  BY <1>1, <1>2

LEMMA ScheduleStoredStep == RefreshInv /\ ScheduleStored => RefreshInv'
<1> SUFFICES ASSUME RefreshInv, ScheduleStored
             PROVE  RefreshInv'
  OBVIOUS
<1> DEFINE stored == {t \in rows : Recoverable(t)}
           first  == {t \in stored : \A u \in stored : t.priority >= u.priority}
           then   == AllScheduled(queue, first)
           after  == AllScheduled(then, stored \ first)
<1>1. /\ opener = "resuming" /\ pc # "following"
      /\ queue' = after /\ journal' = Newest(PendingTasks(after), journal)
      /\ opener' = "idle" /\ pc' = IF pc = "down" THEN "idle" ELSE pc
      /\ UNCHANGED <<task, cancelled, result, rows, count>>
      /\ UNCHANGED <<catalogs, checkpoint, indexed, complete>>
  BY DEF ScheduleStored, history
<1>2. /\ stored \subseteq Tasks
      /\ \A t \in stored : Useful(t) /\ (Unstarted => ~GoesOn(t))
  BY DEF RefreshInv, ResumeTypeOK, TaskInv, Recoverable, Unstarted, GoesOn
<1>3. first \in SUBSET stored /\ stored \ first \in SUBSET stored
  OBVIOUS
<1>4. /\ queue \in Schedulers
      /\ \A p \in PendingTasks(queue) : Useful(p)
      /\ Unstarted => \A p \in PendingTasks(queue) : ~GoesOn(p)
  BY DEF RefreshInv, ResumeTypeOK, TaskInv, Known
<1> HIDE DEF stored, first
<1>5. /\ then \in Schedulers
      /\ PendingTasks(queue) # {} => PendingTasks(then) # {}
      /\ \A p \in PendingTasks(then) : Useful(p)
      /\ Unstarted => \A p \in PendingTasks(then) : ~GoesOn(p)
  BY <1>2, <1>3, <1>4, AllScheduledProperties
<1> HIDE DEF then
<1>6. /\ after \in Schedulers
      /\ PendingTasks(queue) # {} => PendingTasks(after) # {}
      /\ \A p \in PendingTasks(after) : Useful(p)
      /\ Unstarted => \A p \in PendingTasks(after) : ~GoesOn(p)
  BY <1>2, <1>3, <1>5, AllScheduledProperties
<1> HIDE DEF after
<1>7. CursorInv' /\ PhaseInv'
  BY <1>1, KeepsPhases
<1>8. ResumeTypeOK'
  <2>1. journal' \in Nat
    BY <1>1, <1>6, NewestType DEF RefreshInv, ResumeTypeOK
  <2>2. QED
    BY <1>1, <1>6, <2>1, DatabaseType DEF ResumeTypeOK
<1>9. TaskInv'
  <2>1. Known' \subseteq PendingTasks(after) \cup Known
    BY <1>1 DEF Known, Asking
  <2>2. Unstarted' => Unstarted
    BY <1>1 DEF Unstarted, Failed
  <2>3. QED
    BY <1>1, <1>6, <2>1, <2>2 DEF RefreshInv, TaskInv
<1>10. AliveInv'
  <2>1. PendingTasks(queue') = {} => PendingTasks(queue) = {} /\ pc # "down" /\ pc' = pc
    BY <1>1, <1>6 DEF RefreshInv, AliveInv
  <2>2. pc' # "down"
    BY <1>1
  <2>3. QED
    BY <1>1, <2>1, <2>2 DEF RefreshInv, AliveInv, Failed
<1>11. QED
  BY <1>7, <1>8, <1>9, <1>10 DEF RefreshInv

LEMMA TakeTaskStep == RefreshInv /\ TakeTask => RefreshInv'
<1> SUFFICES ASSUME RefreshInv, TakeTask
             PROVE  RefreshInv'
  OBVIOUS
<1> DEFINE d == DrainReadyBatch(queue, 1)
<1>1. /\ d.batch # <<>> /\ queue' = d.scheduler /\ task' = {d.batch[1]}
      /\ journal' = Larger(journal, d.batch[1].generation)
      /\ pc' = "running" /\ cancelled' = FALSE
      /\ UNCHANGED <<result, opener, rows, count>>
      /\ UNCHANGED <<catalogs, checkpoint, indexed, complete>>
  BY DEF TakeTask, history
<1>2. queue \in Schedulers /\ 1 \in Nat \ {0} /\ journal \in Nat
  BY DEF RefreshInv, ResumeTypeOK
<1>3. /\ d.batch \in Seq(Tasks) /\ d.scheduler \in Schedulers
      /\ Elements(d.batch) \cup PendingTasks(d.scheduler) = PendingTasks(queue)
  BY <1>2, DrainProperties
<1> HIDE DEF d
<1>4. d.batch[1] \in Elements(d.batch) /\ d.batch[1] \in Tasks
  <2>1. Len(d.batch) \in Nat \ {0} /\ DOMAIN d.batch = 1..Len(d.batch)
    BY <1>1, <1>3, EmptySeq, LenProperties
  <2>2. 1 \in DOMAIN d.batch
    BY <2>1
  <2>3. d.batch[1] \in Tasks
    BY <1>3, <2>1, <2>2, ElementOfSeq
  <2>4. QED
    BY <2>2, <2>3 DEF Elements, ValuesAt
<1>5. CursorInv' /\ PhaseInv'
  BY <1>1, KeepsPhases
<1>6. ResumeTypeOK'
  <2>1. journal' \in Nat
    BY <1>1, <1>2, <1>4 DEF Larger, Tasks
  <2>2. pc' \in Registered
    BY <1>1, RegisteredPlaces
  <2>3. QED
    BY <1>1, <1>3, <1>4, <2>1, <2>2, DatabaseType DEF ResumeTypeOK
<1>7. TaskInv'
  <2>1. Known' \subseteq Known
    BY <1>1, <1>3, <1>4 DEF Known, Asking
  <2>2. Unstarted' => Unstarted
    BY <1>1 DEF Unstarted, TakeTask, Failed
  <2>3. QED
    BY <1>1, <2>1, <2>2 DEF RefreshInv, TaskInv
<1>8. AliveInv'
  <2>1. opener \in {"idle", "resuming"}
    BY DEF RefreshInv, ResumeTypeOK
  <2>2. QED
    BY <1>1, <2>1 DEF AliveInv
<1>9. QED
  BY <1>5, <1>6, <1>7, <1>8 DEF RefreshInv

LEMMA WaitStep == RefreshInv /\ Wait => RefreshInv'
<1> SUFFICES ASSUME RefreshInv, Wait
             PROVE  RefreshInv'
  OBVIOUS
<1>1. /\ queue' = Elapse(queue)
      /\ UNCHANGED <<pc, task, cancelled, result, opener, rows, journal, count>>
      /\ UNCHANGED <<catalogs, checkpoint, indexed, complete>>
  BY DEF Wait, database, history
<1>2. queue' \in Schedulers /\ PendingTasks(queue') = PendingTasks(queue)
  BY <1>1, ElapseKeeps DEF RefreshInv, ResumeTypeOK
<1>3. CursorInv' /\ PhaseInv'
  BY <1>1, KeepsPhases
<1>4. ResumeTypeOK'
  BY <1>1, <1>2, DatabaseType DEF ResumeTypeOK
<1>5. TaskInv'
  <2>1. Known' = Known /\ (Unstarted' => Unstarted)
    BY <1>1, <1>2 DEF Known, Asking, Unstarted, Failed
  <2>2. QED
    BY <1>1, <2>1 DEF RefreshInv, TaskInv
<1>6. AliveInv'
  BY <1>1, <1>2 DEF Wait, RefreshInv, AliveInv, Failed
<1>7. QED
  BY <1>3, <1>4, <1>5, <1>6 DEF RefreshInv

(* Before a task has run there is nothing to follow up. *)
LEMMA NoResultProperties ==
  /\ NoResult \in [status : Outcomes, calls : Seq(FollowUps)]
  /\ {call.task : call \in Elements(NoResult.calls)} = {}
<1>1. "none" \in Outcomes /\ <<>> \in Seq(FollowUps) /\ Elements(<<>>) = {}
  BY DEF Outcomes, Elements, ValuesAt
<1>2. QED
  BY <1>1 DEF NoResult

LEMMA CrashStep == RefreshInv /\ Crash => RefreshInv'
<1> SUFFICES ASSUME RefreshInv, Crash
             PROVE  RefreshInv'
  OBVIOUS
<1>1. /\ queue' = EmptyScheduler /\ pc' = "down" /\ task' = {} /\ cancelled' = FALSE
      /\ result' = NoResult /\ opener' = "idle"
      /\ UNCHANGED <<catalogs, checkpoint, rows, journal, indexed, complete>>
  BY DEF Crash, database
<1>2. count' \in [Events -> Nat]
  <2>1. Happens("crash")
    BY DEF Crash
  <2>2. QED
    BY <2>1, DatabaseType, FailureIsAnEvent, HappensType
<1>3. CursorInv' /\ PhaseInv'
  BY <1>1, KeepsPhases
<1>4. ResumeTypeOK'
  BY <1>1, <1>2, EmptyProperties, NoResultProperties, DatabaseType DEF ResumeTypeOK, RefreshInv
<1>5. TaskInv'
  <2>1. Known' = {}
    BY <1>1, EmptyProperties, NoResultProperties DEF Known, Asking
  <2>2. QED
    BY <1>1, <2>1 DEF RefreshInv, TaskInv
<1>6. AliveInv'
  BY <1>1 DEF AliveInv
<1>7. QED
  BY <1>3, <1>4, <1>5, <1>6 DEF RefreshInv

-----------------------------------------------------------------------------
(* The theorems about the deep refresh.                                      *)

LEMMA ResumeInitial == ResumeInit => RefreshInv
<1> SUFFICES ASSUME ResumeInit
             PROVE  RefreshInv
  OBVIOUS
<1>1. ResumeTypeOK
  BY EmptyProperties, NoResultProperties DEF ResumeInit, ResumeTypeOK
<1>2. CursorInv /\ PhaseInv
  BY DEF ResumeInit, CursorInv, PhaseInv
<1>3. TaskInv
  <2>1. Known \cup rows = {}
    BY EmptyProperties, NoResultProperties DEF ResumeInit, Known, Asking
  <2>2. QED
    BY <2>1 DEF TaskInv
<1>4. AliveInv
  BY DEF ResumeInit, AliveInv
<1>5. QED
  BY <1>1, <1>2, <1>3, <1>4 DEF RefreshInv

LEMMA DeepLayerStep == RefreshInv /\ DeepLayer => RefreshInv'
BY LoadCursorStep, SupersedeCatalogStep, ClearCursorStep, CreateCatalogStep, StartCursorStep,
   NextPhaseStep, CompleteCatalogStep, YieldStep, CancelPageStep, ApplyPageStep,
   AdvanceCursorStep DEF DeepLayer

LEMMA ResumeStep == RefreshInv /\ [ResumeNext]_refreshVars => RefreshInv'
<1> SUFFICES ASSUME RefreshInv, [ResumeNext]_refreshVars
             PROVE  RefreshInv'
  OBVIOUS
<1>1. CASE Open
  BY <1>1, OpenStep
<1>2. CASE ScheduleStored
  BY <1>2, ScheduleStoredStep
<1>3. CASE Refresh
  BY <1>3, RefreshStep
<1>4. CASE Worker
  BY <1>4, TakeTaskStep, WaitStep, RunCancelledStep, RunOpenStep, RunFileLayerStep, FailTaskStep,
     DeepLayerStep,
     MarkSupersededStep, ClearRowStep, ScheduleNextStep, ScheduleInterruptedStep DEF Worker
<1>5. CASE Crash
  BY <1>5, CrashStep
<1>6. CASE UNCHANGED refreshVars
  <2>1. UNCHANGED <<queue, pc, task, cancelled, result, opener, rows, journal, count>>
        /\ UNCHANGED <<catalogs, checkpoint, indexed, complete>>
    BY <1>6 DEF refreshVars
  <2>2. CursorInv' /\ PhaseInv'
    BY <2>1, KeepsPhases
  <2>3. ResumeTypeOK' /\ AliveInv'
    BY <2>1 DEF RefreshInv, ResumeTypeOK, AliveInv, Failed
  <2>4. TaskInv'
    <3>1. Known' = Known /\ (Unstarted' => Unstarted)
      BY <2>1 DEF Known, Asking, Unstarted, Failed
    <3>2. QED
      BY <2>1, <3>1 DEF RefreshInv, TaskInv
  <2>5. QED
    BY <2>2, <2>3, <2>4 DEF RefreshInv
<1>7. QED
  BY <1>1, <1>2, <1>3, <1>4, <1>5, <1>6 DEF ResumeNext

(* In every behaviour the state of a deep refresh is typed, catalog and checkpoint go
   together, every phase is through up to its place, every task has something to do, and
   an unfinished catalog has its next task: the invariant the three theorems start from. *)
THEOREM RefreshInvariance == ResumeSpec => []RefreshInv
BY ResumeInitial, ResumeStep, PTL DEF ResumeSpec

(* Every value the worker, the scheduler and the tables of a deep refresh     *)
(* take stays of its type, and there is one catalog, one checkpoint and one   *)
(* row for a reason at most, whatever crashes in between.                     *)
THEOREM ResumeTypeCorrect == ResumeSpec => []ResumeTypeOK
<1>1. RefreshInv => ResumeTypeOK
  BY DEF RefreshInv
<1>2. QED
  BY <1>1, RefreshInvariance, PTL

(* For any files, chunks and pages and any number of crashes, yields,         *)
(* failures and refreshes: a catalog is complete only when every phase        *)
(* indexed every file of it, and no phase starts before the previous one is   *)
(* through.                                                                   *)
THEOREM PhasesAreThrough == ResumeSpec => []PhasesThrough
<1>1. RefreshInv => PhasesThrough
  <2> SUFFICES ASSUME RefreshInv
               PROVE  PhasesThrough
    OBVIOUS
  <2>1. \A k \in complete, phase \in Phases : k.files \subseteq indexed[phase]
    BY DEF RefreshInv, PhaseInv
  <2>2. ASSUME NEW k \in catalogs, NEW phase \in {"stub", "content"}, indexed[After[phase]] # {}
        PROVE  k.files \subseteq indexed[phase]
    <3>1. /\ phase \in Phases /\ After[phase] \in Phases /\ Before(phase, After[phase])
      BY DEF Phases, After, Before
    <3>2. PICK c \in checkpoint : c \in Checkpoints
      BY <2>2, <3>1, DatabaseType DEF CursorInv
    <3>3. ~Before(c.phase, After[phase])
      BY <2>2, <3>1 DEF RefreshInv, PhaseInv
    <3>4. c.phase \in Phases
      BY <3>2 DEF Checkpoints
    <3>5. Before(phase, c.phase)
      BY <2>2, <3>3, <3>4 DEF Before, Phases, After
    <3>6. QED
      BY <3>1, <3>5 DEF RefreshInv, PhaseInv
  <2>3. QED
    BY <2>1, <2>2 DEF PhasesThrough
<1>2. QED
  BY <1>1, RefreshInvariance, PTL

(* However tasks are superseded, cancelled, retried and resumed, the worker   *)
(* never sits between two tasks with an unfinished catalog and nothing that   *)
(* goes on with it or starts it over, unless a task failed.                   *)
THEOREM RefreshIsNotDropped == ResumeSpec => []NeverDropped
<1>1. RefreshInv => NeverDropped
  BY DEF RefreshInv, TaskInv, AliveInv, Known, Useful, NeverDropped
<1>2. QED
  BY <1>1, RefreshInvariance, PTL

-----------------------------------------------------------------------------
(* The queue of one worker.  Pending deep tasks share a slot, so there is one *)
(* at most; the file layer goes before them.                                  *)

Deep(t)        == t.reason \in DeepReasons
Continues(t)   == t.reason \in ContinuationReasons
NoDeep(q)      == \A t \in Elements(q) : ~Deep(t)
OneDeep(q)     == \A i, j \in DOMAIN q : Deep(q[i]) /\ Deep(q[j]) => i = j
AllContinue(q) == \A t \in Elements(q) : Continues(t)

(* What a task of the refresh is built with, and keeps when it joins another. *)
Formed(t) ==
  /\ t.root = Root
  /\ Continues(t) => t.kind = "changed-paths"
  /\ Deep(t) => t.priority = Background
  /\ Continues(t) /\ ~Deep(t) => t.priority = FullRefresh

LEMMA FormsCoalesce ==
  ASSUME NEW a, NEW b, Formed(a), Formed(b), Deep(a), Deep(b)
  PROVE  TasksCanCoalesce(a, b)
<1>1. Continues(a) /\ Continues(b)
  BY DEF Deep, Continues, ContinuationReasons
<1>2. /\ a.root = b.root /\ a.kind = "changed-paths" /\ b.kind = "changed-paths"
      /\ a.priority = Background /\ b.priority = Background
  BY <1>1 DEF Formed
<1>3. a.reason = b.reason
  BY DEF Deep, DeepReasons
<1>4. TaskAdmission(a) = <<"deep-content", "workspace">> /\ TaskAdmission(b) = <<"deep-content", "workspace">>
  BY <1>2 DEF TaskAdmission, ChangedPathsAdmission, Background, ForegroundCompletion,
     ForegroundNavigation, VisibleFiles, Deep
<1>5. QED
  BY <1>2, <1>3, <1>4 DEF TasksCanCoalesce

LEMMA SelectionKeepsOneDeep ==
  ASSUME NEW s, NEW a, Selects(a, s), OneDeep(s)
  PROVE  OneDeep(a) /\ Elements(a) \subseteq Elements(s)
<1> PICK f \in [DOMAIN a -> DOMAIN s] :
           /\ \A k \in DOMAIN a : a[k] = s[f[k]]
           /\ \A k, m \in DOMAIN a : k # m => f[k] # f[m]
  BY DEF Selects
<1>1. ASSUME NEW k \in DOMAIN a, NEW m \in DOMAIN a, Deep(a[k]), Deep(a[m])
      PROVE  k = m
  <2>1. f[k] \in DOMAIN s /\ f[m] \in DOMAIN s
    OBVIOUS
  <2>2. Deep(s[f[k]]) /\ Deep(s[f[m]])
    BY <1>1
  <2>3. f[k] = f[m]
    BY <2>1, <2>2 DEF OneDeep
  <2>4. QED
    BY <2>3
<1>2. Elements(a) \subseteq Elements(s)
  BY DEF Elements, ValuesAt
<1>3. QED
  BY <1>1, <1>2 DEF OneDeep

(* A new task, or one that took another in, has the shape of the call. *)
LEMMA NewForms ==
  ASSUME NEW s \in Schedulers, NEW t \in Tasks, Formed(t)
  PROVE  /\ Formed(Stamped(s, t))
         /\ \A e \in Tasks : Formed(e) /\ TasksCanCoalesce(e, t) => Formed(Coalesced(e, Numbered(s, t)))
<1>1. /\ Stamped(s, t).root = t.root /\ Stamped(s, t).kind = t.kind
      /\ Stamped(s, t).priority = t.priority /\ Stamped(s, t).reason = t.reason
      /\ Numbered(s, t).root = t.root /\ Numbered(s, t).kind = t.kind
      /\ Numbered(s, t).priority = t.priority /\ Numbered(s, t).reason = t.reason
  BY DEF Stamped, Numbered, Tasks
<1>2. Formed(Stamped(s, t)) /\ Formed(Numbered(s, t))
  BY <1>1 DEF Formed, Deep, Continues
<1>3. ASSUME NEW e \in Tasks, Formed(e), TasksCanCoalesce(e, t)
      PROVE  Formed(Coalesced(e, Numbered(s, t)))
  <2> DEFINE n == Numbered(s, t)
             c == Coalesced(e, n)
  <2>1. e.reason = n.reason /\ e.kind = n.kind /\ e.root = n.root
    BY <1>1, <1>3 DEF TasksCanCoalesce
  <2>2. CASE LatestWins(n)
    BY <1>2, <2>2 DEF Coalesced
  <2>3. CASE ~LatestWins(n)
    <3>1. c = [e EXCEPT !.paths = e.paths \cup n.paths, !.generation = n.generation,
                        !.priority = Larger(e.priority, n.priority)]
      BY <2>3 DEF Coalesced
    <3>2. /\ c.root = e.root /\ c.kind = e.kind /\ c.reason = e.reason
          /\ c.priority = Larger(e.priority, n.priority)
      BY <3>1 DEF Tasks
    <3>3. e.priority = n.priority => c.priority = e.priority
      BY <3>2 DEF Larger
    <3> HIDE DEF c
    <3>4. QED
      BY <1>2, <1>3, <2>1, <3>2, <3>3 DEF Formed, Deep, Continues, c
  <2>4. QED
    BY <2>2, <2>3
<1>4. QED
  BY <1>2, <1>3

(* What a call leaves ready: at most one deep task again, and tasks that were *)
(* there or have the reason of the call.                                      *)
LEMMA ScheduleForms ==
  ASSUME NEW s \in Schedulers, NEW t \in Tasks, Formed(t),
         OneDeep(s.tasks), \A p \in Elements(s.tasks) : Formed(p)
  PROVE  LET r == ScheduleWithResult(s, t)
         IN  /\ r.scheduler.delayed = s.delayed
             /\ OneDeep(r.scheduler.tasks)
             /\ \A p \in Elements(r.scheduler.tasks) :
                  p \in Elements(s.tasks) \/ (p.reason = t.reason /\ Formed(p) /\ r.scheduled)
             /\ NoDeep(s.tasks) /\ Deep(t) => r.scheduled
             /\ s.tasks = <<>> => Len(r.scheduler.tasks) <= 1
<1> DEFINE q == s.tasks
           r == ScheduleWithResult(s, t)
<1>1. /\ q \in Seq(Tasks) /\ DOMAIN q = 1..Len(q) /\ Len(q) \in Nat
      /\ \A i \in DOMAIN q : q[i] \in Tasks /\ q[i] \in Elements(q)
  <2>1. q \in Seq(Tasks)
    BY DEF Schedulers
  <2>2. DOMAIN q = 1..Len(q) /\ Len(q) \in Nat
    BY <2>1, LenProperties
  <2>3. QED
    BY <2>1, <2>2, ElementOfSeq DEF Elements, ValuesAt
<1>2. CASE /\ r = Result(s, {}, FALSE)
           /\ \/ IsEmptyNoop(t)
              \/ \E i \in DOMAIN q : TasksCanCoalesce(q[i], t) /\ IsChangedPathNoop(q[i], t)
  <2>1. r.scheduler = s
    BY <1>2 DEF Result
  <2>2. ~(NoDeep(q) /\ Deep(t))
    <3>1. Deep(t) => ~IsEmptyNoop(t)
      BY DEF Deep, IsEmptyNoop
    <3>2. \A i \in DOMAIN q : TasksCanCoalesce(q[i], t) /\ Deep(t) => Deep(q[i])
      BY DEF TasksCanCoalesce, Deep
    <3>3. QED
      BY <1>1, <1>2, <3>1, <3>2 DEF NoDeep
  <2>3. q = <<>> => Len(q) <= 1
    BY <1>1, EmptySeq
  <2>4. QED
    BY <2>1, <2>2, <2>3
<1>3. ASSUME NEW i \in DOMAIN q, TasksCanCoalesce(q[i], t), r = ScheduleCoalesced(s, t, i)
      PROVE  /\ r.scheduler.delayed = s.delayed
             /\ OneDeep(r.scheduler.tasks)
             /\ \A p \in Elements(r.scheduler.tasks) :
                  p \in Elements(q) \/ (p.reason = t.reason /\ Formed(p) /\ r.scheduled)
             /\ r.scheduled
             /\ q = <<>> => Len(r.scheduler.tasks) <= 1
  <2> DEFINE new == Coalesced(q[i], Numbered(s, t))
             w   == [q EXCEPT ![i] = new]
  <2>1. r.scheduled /\ r.scheduler = [s EXCEPT !.generation = @ + 1, !.tasks[i] = new]
    BY <1>3 DEF ScheduleCoalesced, Result
  <2>2. r.scheduler.delayed = s.delayed /\ r.scheduler.tasks = w
    BY <2>1 DEF Schedulers
  <2>3. Formed(new) /\ new \in Tasks /\ new.reason = t.reason /\ q[i].reason = t.reason
    <3>1. /\ Numbered(s, t) \in Tasks /\ TasksCanCoalesce(Numbered(s, t), t)
          /\ Numbered(s, t).reason = t.reason
      BY NumberedSlot, StampedProperties, StampedFields
    <3>2. q[i] \in Tasks /\ Formed(q[i])
      BY <1>1
    <3>3. TasksCanCoalesce(q[i], Numbered(s, t))
      BY <1>3, <3>1 DEF TasksCanCoalesce
    <3>4. new \in Tasks /\ new.reason = t.reason
      BY <3>1, <3>2, <3>3, CoalescedProperties, CoalescedFields
    <3>5. QED
      BY <1>3, <3>2, <3>4, NewForms DEF TasksCanCoalesce
  <2> HIDE DEF new
  <2>4. \A k \in DOMAIN w : k \in DOMAIN q /\ w[k].reason = q[k].reason
    BY <1>1, <2>3
  <2>5. OneDeep(w)
    BY <2>4 DEF OneDeep, Deep
  <2>6. Elements(w) \subseteq Elements(q) \cup {new}
    BY <1>1, <2>3, PutProperties
  <2>7. q # <<>>
    BY <1>1, <1>3, EmptySeq
  <2> HIDE DEF w
  <2>8. QED
    BY <2>1, <2>2, <2>3, <2>5, <2>6, <2>7
<1>4. CASE /\ r = ScheduleAppended(s, t)
           /\ t.kind = "changed-paths" => \A i \in DOMAIN q : ~TasksCanCoalesce(q[i], t)
  <2> DEFINE new  == Stamped(s, t)
             kept == {i \in DOMAIN q : ~Replaces(new, q[i])}
             k    == Keep(q, kept)
             w    == Append(k, new)
  <2>1. r.scheduled /\ r.scheduler.delayed = s.delayed /\ r.scheduler.tasks = w
    <3> HIDE DEF w
    <3>1. /\ r.scheduled
          /\ r.scheduler = [s EXCEPT !.generation = Larger(s.generation, new.generation), !.tasks = w]
      BY <1>4 DEF ScheduleAppended, Result, w
    <3> HIDE DEF r, new
    <3>2. QED
      BY <3>1 DEF Schedulers
  <2>2. Formed(new) /\ new \in Tasks /\ new.reason = t.reason
    BY NewForms, StampedProperties, StampedFields
  <2>3. kept \in SUBSET DOMAIN q
    OBVIOUS
  <2> HIDE DEF new, kept
  <2>4. k \in Seq(Tasks) /\ OneDeep(k) /\ Elements(k) \subseteq Elements(q)
    BY <1>1, <2>3, KeepProperties, KeepSelects, SelectionKeepsOneDeep
  <2>5. q = <<>> => k = <<>>
    <3>1. q = <<>> => Elements(k) = {}
      BY <2>4, EmptySeq DEF Elements, ValuesAt
    <3> HIDE DEF k
    <3>2. k # <<>> => Elements(k) # {}
      <4>1. k # <<>> => Len(k) \in Nat \ {0} /\ DOMAIN k = 1..Len(k)
        BY <2>4, EmptySeq, LenProperties
      <4>2. k # <<>> => 1 \in DOMAIN k
        BY <4>1
      <4>3. QED
        BY <4>2 DEF Elements, ValuesAt
    <3>3. QED
      BY <3>1, <3>2
  <2> HIDE DEF k
  <2>6. /\ Len(w) = Len(k) + 1 /\ Len(k) \in Nat /\ DOMAIN k = 1..Len(k) /\ DOMAIN w = 1..(Len(k) + 1)
        /\ \A i \in 1..(Len(k) + 1) : w[i] = IF i <= Len(k) THEN k[i] ELSE new
    BY <2>2, <2>4, LenProperties
  <2>7. Elements(w) = Elements(k) \cup {new}
    BY <2>2, <2>4, AppendElements
  <2> HIDE DEF w
  <2>8. Deep(new) => NoDeep(k)
    <3> SUFFICES ASSUME Deep(new), NEW p \in Elements(k), Deep(p)
                 PROVE  FALSE
      BY DEF NoDeep
    <3>1. Deep(t) /\ Continues(t)
      BY <2>2 DEF Deep, Continues, ContinuationReasons
    <3>2. p \in Elements(q) /\ Formed(p)
      BY <2>4
    <3>3. TasksCanCoalesce(p, t)
      BY <3>1, <3>2, FormsCoalesce
    <3>4. t.kind = "changed-paths"
      BY <3>1 DEF Formed
    <3>5. QED
      BY <1>4, <3>2, <3>3, <3>4 DEF Elements, ValuesAt
  <2>9. OneDeep(w)
    <3> SUFFICES ASSUME NEW i \in DOMAIN w, NEW j \in DOMAIN w, Deep(w[i]), Deep(w[j])
                 PROVE  i = j
      BY DEF OneDeep
    <3>1. CASE Deep(new)
      <4>1. \A n \in DOMAIN k : ~Deep(k[n])
        BY <2>8, <3>1 DEF NoDeep, Elements, ValuesAt
      <4>2. QED
        BY <2>6, <4>1
    <3>2. CASE ~Deep(new)
      <4>1. i \in DOMAIN k /\ j \in DOMAIN k /\ w[i] = k[i] /\ w[j] = k[j]
        BY <2>6, <3>2
      <4>2. QED
        BY <2>4, <4>1 DEF OneDeep
    <3>3. QED
      BY <3>1, <3>2
  <2>10. q = <<>> => Len(w) <= 1
    BY <2>5, <2>6, EmptySeq
  <2>11. QED
    BY <2>1, <2>2, <2>4, <2>7, <2>9, <2>10
<1> HIDE DEF q, r
<1>5. QED
  BY <1>2, <1>3, <1>4, ScheduleCases DEF q, r

(* Sorted by priority, the first of a queue has the highest. *)
LEMMA HighestFirst ==
  ASSUME NEW q \in Seq(Tasks), NEW t \in Elements(q)
  PROVE  ByPriority(q)[1].priority >= t.priority
<1> DEFINE I == DOMAIN q
           R == {p \in I \X I : Precedes(q, p[1], p[2])}
           h == At(I, R, 1)
           Earlier == {j \in I : <<j, h>> \in R}
<1>1. I = 1..Len(q) /\ Len(q) \in Nat /\ \A i \in I : q[i] \in Tasks
  BY LenProperties, ElementOfSeq
<1>2. IsFiniteSet(I) /\ Cardinality(I) = Len(q)
  BY <1>1, FS_Interval
<1>3. TotalOrder(I, R)
  BY PriorityOrder
<1>4. PICK i \in I : t = q[i]
  BY DEF Elements, ValuesAt
<1>5. 1 \in 1..Cardinality(I)
  BY <1>1, <1>2
<1>6. ByPriority(q)[1] = q[h]
  BY <1>5 DEF ByPriority, Arrange
<1>7. \A j \in I : <<h, j>> \in R => q[h].priority >= q[j].priority
  <2>1. \A j \in I : q[j].priority \in Int
    BY <1>1 DEF Tasks, Priorities
  <2>2. \A j \in I : <<h, j>> \in R => h \in I /\ Precedes(q, h, j)
    BY Zenon
  <2> HIDE DEF h, I, R
  <2>3. QED
    BY <2>1, <2>2 DEF Precedes
<1> HIDE DEF I, R
<1>8. h \in I /\ Rank(I, R, h) = 1
  BY <1>2, <1>3, <1>5, AtRank
<1> HIDE DEF h
<1>9. Cardinality(Earlier) + 1 = 1
  BY <1>8 DEF Rank
<1>10. Earlier = {}
  <2>1. Earlier \in SUBSET I
    OBVIOUS
  <2> HIDE DEF Earlier
  <2>2. IsFiniteSet(Earlier) /\ Cardinality(Earlier) \in Nat
    BY <1>2, <2>1, FS_Subset, FS_CardinalityType
  <2>3. QED
    BY <1>9, <2>2, FS_EmptySet
<1>11. i = h \/ <<h, i>> \in R
  BY <1>3, <1>4, <1>8, <1>10 DEF TotalOrder
<1>12. q[h].priority \in Int
  BY <1>1, <1>8 DEF Tasks, Priorities, I
<1>13. QED
  BY <1>4, <1>6, <1>7, <1>11, <1>12

(* The next task of the one worker, and what it leaves ready. *)
LEMMA NextTask ==
  ASSUME NEW s \in Schedulers, DrainReadyBatch(s, 1).batch # <<>>,
         OneDeep(PromoteReadyDelayedTasks(s).tasks)
  PROVE  LET q    == PromoteReadyDelayedTasks(s).tasks
             d    == DrainReadyBatch(s, 1)
             next == d.batch[1]
             rest == d.scheduler.tasks
         IN  /\ next \in Elements(q) /\ Elements(rest) \subseteq Elements(q)
             /\ Len(rest) = Len(q) - 1 /\ Len(q) \in Nat
             /\ OneDeep(rest) /\ (Deep(next) => NoDeep(rest))
             /\ AllContinue(q) /\ (\A t \in Elements(q) : Formed(t)) /\ Deep(next) => rest = <<>>
             /\ d.scheduler.delayed = PromoteReadyDelayedTasks(s).delayed
<1> DEFINE p     == PromoteReadyDelayedTasks(s)
           q     == p.tasks
           d     == DrainReadyBatch(s, 1)
           o     == ByPriority(q)
           turns == {i \in DOMAIN o : IsBackgroundTurn(o[i].priority)}
           w     == DispatchOrder(s)
           limit == BatchLimit(w, 1)
           batch == SubSeq(w, 1, limit)
           rest  == SubSeq(w, limit + 1, Len(w))
<1>1. p \in Schedulers /\ q \in Seq(Tasks) /\ s.burst \in Nat
  <2>1. p \in Schedulers
    BY PromoteProperties
  <2>2. QED
    BY <2>1 DEF Schedulers
<1>2. d.batch = batch /\ d.scheduler = [p EXCEPT !.tasks = rest, !.burst = RecordDispatch(p.burst, batch)]
  BY DEF DrainReadyBatch
<1>3. w = PromoteBackgroundTurn(o, s.burst)
  BY DEF DispatchOrder
<1>4. w = o \/ (IsForegroundBurst(o[1].priority) /\ turns # {} /\ w = Swapped(o, 1, First(turns)))
  BY <1>3 DEF PromoteBackgroundTurn
<1> HIDE DEF w, d, p
<1>5. d.scheduler.tasks = rest /\ d.scheduler.delayed = p.delayed
  <2> HIDE DEF rest, batch
  <2>1. QED
    BY <1>1, <1>2 DEF Schedulers
<1>6. o \in Seq(Tasks) /\ Len(o) = Len(q) /\ OneDeep(o) /\ Elements(o) = Elements(q)
  BY <1>1, ByPriorityProperties, ByPrioritySelects, SelectionKeepsOneDeep DEF p
<1> HIDE DEF o
<1>7. DOMAIN o = 1..Len(o) /\ Len(o) \in Nat /\ turns \in SUBSET (1..Len(o))
  BY <1>6, LenProperties
<1> HIDE DEF turns
<1>8. w \in Seq(Tasks) /\ Len(w) = Len(q) /\ OneDeep(w) /\ Elements(w) = Elements(q)
  <2>1. CASE w = o
    BY <1>6, <2>1
  <2>2. CASE turns # {} /\ w = Swapped(o, 1, First(turns))
    <3>1. First(turns) \in 1..Len(o)
      BY <1>7, <2>2, FirstProperties
    <3>2. First(turns) \in DOMAIN o /\ 1 \in DOMAIN o
      BY <1>7, <3>1
    <3>3. QED
      BY <1>6, <2>2, <3>2, SwappedProperties, SwappedSelects, SelectionKeepsOneDeep
  <2>3. QED
    BY <1>4, <2>1, <2>2
<1>9. Len(w) \in Nat /\ DOMAIN w = 1..Len(w)
  BY <1>8, LenProperties
<1>10. limit = 1 /\ Len(w) >= 1
  <2>1. limit \in 0..Len(w) /\ limit <= 1
    BY <1>9 DEF BatchLimit, Smaller
  <2> HIDE DEF limit
  <2>2. Len(batch) = limit
    BY <1>8, <2>1, SplitProperties
  <2>3. limit # 0
    <3>1. limit = 0 => batch = <<>>
      <4>1. batch \in Seq(Tasks)
        BY <1>8, <2>1, SplitProperties
      <4> HIDE DEF batch
      <4>2. QED
        BY <2>2, <4>1, EmptySeq
    <3>2. QED
      BY <1>2, <3>1 DEF d
  <2>4. QED
    BY <1>9, <2>1, <2>3
<1> HIDE DEF limit
<1>11. /\ batch[1] = w[1] /\ rest \in Seq(Tasks) /\ Len(rest) = Len(w) - 1
       /\ \A i \in DOMAIN rest : i + 1 \in DOMAIN w /\ rest[i] = w[i + 1]
  <2>1. 1 \in 0..Len(w) /\ 1 \in 1..1
    BY <1>9, <1>10
  <2>2. rest \in Seq(Tasks) /\ batch[1] = w[1]
    BY <1>8, <1>10, <2>1, SplitProperties
  <2>3. rest = Tail(w) /\ w # <<>>
    <3>1. w # <<>>
      BY <1>10, EmptySeq
    <3>2. limit + 1 = 2
      BY <1>10
    <3>3. QED
      BY <1>8, <3>1, <3>2, TailIsSubSeq
  <2> HIDE DEF rest
  <2>4. Len(rest) = Len(w) - 1 /\ \A i \in 1..Len(rest) : rest[i] = w[i + 1]
    BY <1>8, <2>3, HeadTailProperties
  <2>5. DOMAIN rest = 1..Len(rest)
    BY <2>2, LenProperties
  <2>6. \A i \in 1..Len(rest) : i + 1 \in DOMAIN w
    BY <1>9, <2>4
  <2> HIDE DEF batch
  <2>7. QED
    BY <2>2, <2>4, <2>5, <2>6
<1> HIDE DEF batch, rest
<1>12. 1 \in DOMAIN w /\ w[1] \in Elements(q)
  <2>1. 1 \in DOMAIN w
    BY <1>9, <1>10
  <2>2. QED
    BY <1>8, <2>1 DEF Elements, ValuesAt
<1>13. Elements(rest) \subseteq Elements(q)
  BY <1>8, <1>11 DEF Elements, ValuesAt
<1>14. DOMAIN rest = 1..Len(rest) /\ Len(rest) \in Nat
  BY <1>11, LenProperties
<1>15. OneDeep(rest)
  <2> SUFFICES ASSUME NEW i \in DOMAIN rest, NEW j \in DOMAIN rest, Deep(rest[i]), Deep(rest[j])
               PROVE  i = j
    BY DEF OneDeep
  <2>1. i + 1 \in DOMAIN w /\ j + 1 \in DOMAIN w /\ Deep(w[i + 1]) /\ Deep(w[j + 1])
    BY <1>11
  <2>2. i + 1 = j + 1
    BY <1>8, <2>1 DEF OneDeep
  <2>3. QED
    BY <1>14, <2>2
<1>16. ASSUME Deep(w[1])
       PROVE  NoDeep(rest)
  <2> SUFFICES ASSUME NEW i \in DOMAIN rest, Deep(rest[i])
               PROVE  FALSE
    BY DEF NoDeep, Elements, ValuesAt
  <2>1. i + 1 \in DOMAIN w /\ Deep(w[i + 1])
    BY <1>11
  <2>2. i + 1 = 1
    BY <1>8, <1>12, <1>16, <2>1 DEF OneDeep
  <2>3. QED
    BY <1>14, <2>2
<1>17. ASSUME AllContinue(q), \A t \in Elements(q) : Formed(t), Deep(w[1])
       PROVE  rest = <<>>
  <2>1. 1 \in DOMAIN o /\ o[1] \in Elements(q)
    <3>1. 1 \in DOMAIN o
      BY <1>6, <1>7, <1>8, <1>10
    <3>2. QED
      BY <1>6, <3>1 DEF Elements, ValuesAt
  <2>2. Continues(o[1]) /\ Formed(o[1])
    BY <1>17, <2>1 DEF AllContinue
  <2>3. w = o
    BY <1>4, <2>2 DEF Formed, IsForegroundBurst, Background, FullRefresh, VisibleFiles,
       ForegroundCompletion, ForegroundNavigation
  <2>4. o[1].priority = Background
    BY <1>17, <2>2, <2>3 DEF Formed
  <2>5. ASSUME NEW i \in DOMAIN rest
        PROVE  FALSE
    <3>1. rest[i] \in Elements(q)
      BY <1>13 DEF Elements, ValuesAt
    <3>2. Background >= rest[i].priority
      BY <1>1, <2>4, <3>1, HighestFirst DEF o
    <3>3. Continues(rest[i]) /\ Formed(rest[i])
      BY <1>17, <3>1 DEF AllContinue
    <3>4. Deep(rest[i])
      BY <3>2, <3>3 DEF Formed, Background, FullRefresh
    <3>5. QED
      BY <1>16, <1>17, <3>4 DEF NoDeep, Elements, ValuesAt
  <2>6. Len(rest) = 0
    BY <1>14, <2>5
  <2>7. QED
    BY <1>11, <2>6, EmptySeq
<1>18. QED
  BY <1>2, <1>5, <1>8, <1>9, <1>11, <1>12, <1>13, <1>15, <1>16, <1>17 DEF d, p

(* The retries that are due join the queue. *)
LEMMA RetriesJoin ==
  ASSUME NEW s \in Schedulers, Len(s.delayed) <= 1, OneDeep(s.tasks),
         DueAt(s) # {} => NoDeep(s.tasks)
  PROVE  LET p == PromoteReadyDelayedTasks(s)
         IN  /\ OneDeep(p.tasks)
             /\ \A t \in Elements(p.tasks) :
                  t \in Elements(s.tasks) \/ \E e \in Elements(s.delayed) : t = e.task
             /\ DueAt(s) = {} => p.tasks = s.tasks
             /\ DueAt(s) # {} => p.delayed = <<>> /\ Len(p.tasks) = Len(s.tasks) + 1
             /\ Len(p.delayed) <= 1
             /\ \A e \in Elements(p.delayed) : e \in Elements(s.delayed) /\ e.wait # 0
<1> DEFINE late == TaskOf(Keep(s.delayed, DueAt(s)))
           rest == DOMAIN s.delayed \ DueAt(s)
           p    == PromoteReadyDelayedTasks(s)
<1>1. /\ s.tasks \in Seq(Tasks) /\ DOMAIN s.tasks = 1..Len(s.tasks) /\ Len(s.tasks) \in Nat
      /\ s.delayed \in Seq(Delayed) /\ DOMAIN s.delayed = 1..Len(s.delayed) /\ Len(s.delayed) \in Nat
  <2>1. s.tasks \in Seq(Tasks) /\ s.delayed \in Seq(Delayed)
    BY DEF Schedulers
  <2>2. QED
    BY <2>1, LenProperties
<1>2. DueAt(s) \in SUBSET DOMAIN s.delayed /\ rest \in SUBSET DOMAIN s.delayed
  BY DEF DueAt
<1>3. /\ p.tasks = s.tasks \o late /\ late \in Seq(Tasks)
      /\ \A t \in Elements(late) : \E i \in DOMAIN s.delayed : t = s.delayed[i].task
      /\ p.delayed = Keep(s.delayed, rest)
      /\ \A e \in Elements(p.delayed) : e \in Elements(s.delayed)
  BY PromotedParts
<1>4. ASSUME NEW I \in SUBSET DOMAIN s.delayed
      PROVE  /\ Keep(s.delayed, I) \in Seq(Delayed)
             /\ Len(Keep(s.delayed, I)) = Cardinality(I) /\ Cardinality(I) \in Nat
             /\ Cardinality(I) <= 1
             /\ I = {} => Cardinality(I) = 0
             /\ I # {} => Cardinality(I) = 1 /\ I = DOMAIN s.delayed
             /\ Elements(Keep(s.delayed, I)) = ValuesAt(s.delayed, I)
  <2> DEFINE R == {q \in I \X I : q[1] < q[2]}
  <2>1. TotalOrder(I, R)
    BY <1>1 DEF TotalOrder
  <2>2. Keep(s.delayed, I) = Arrange(s.delayed, I, R)
    BY DEF Keep
  <2> HIDE DEF R
  <2>3. /\ Keep(s.delayed, I) \in Seq(Delayed)
        /\ Len(Keep(s.delayed, I)) = Cardinality(I)
        /\ Elements(Keep(s.delayed, I)) = ValuesAt(s.delayed, I)
    BY <1>1, <2>1, <2>2, ArrangeProperties
  <2>4. DOMAIN s.delayed = {} \/ DOMAIN s.delayed = {1}
    BY <1>1
  <2>5. I = {} \/ (I = {1} /\ I = DOMAIN s.delayed)
    BY <2>4
  <2>6. Cardinality({}) = 0 /\ Cardinality({1}) = 1
    BY FS_EmptySet, FS_Singleton
  <2>7. /\ Cardinality(I) \in Nat /\ Cardinality(I) <= 1
        /\ I = {} => Cardinality(I) = 0
        /\ I # {} => Cardinality(I) = 1 /\ I = DOMAIN s.delayed
    <3>1. CASE I = {}
      <4>1. Cardinality(I) = 0
        BY <2>6, <3>1
      <4>2. QED
        BY <3>1, <4>1
    <3>2. CASE I = {1} /\ I = DOMAIN s.delayed
      <4>1. Cardinality(I) = 1 /\ I # {}
        BY <2>6, <3>2
      <4>2. QED
        BY <3>2, <4>1
    <3>3. QED
      BY <2>5, <3>1, <3>2
  <2>8. QED
    BY <2>3, <2>7
<1> HIDE DEF p, rest
<1>5. /\ late \in Seq(Tasks) /\ Len(late) = Cardinality(DueAt(s)) /\ DOMAIN late = 1..Len(late)
      /\ Len(late) \in Nat /\ Len(late) <= 1
  <2> DEFINE due == Keep(s.delayed, DueAt(s))
  <2>1. due \in Seq(Delayed) /\ Len(due) = Cardinality(DueAt(s)) /\ Cardinality(DueAt(s)) \in Nat
    BY <1>2, <1>4
  <2>2. DOMAIN due = 1..Len(due)
    BY <2>1, LenProperties
  <2>3. DOMAIN late = DOMAIN due
    BY DEF TaskOf
  <2> HIDE DEF late, due
  <2>4. DOMAIN late = 1..Len(late) /\ Len(late) \in Nat
    BY <1>3, LenProperties
  <2>5. Len(late) = Len(due)
    BY <2>1, <2>2, <2>3, <2>4
  <2>6. QED
    BY <1>2, <1>3, <1>4, <2>1, <2>4, <2>5
<1> HIDE DEF late
<1>6. DueAt(s) = {} => p.tasks = s.tasks
  <2>1. DueAt(s) = {} => Len(late) = 0
    BY <1>2, <1>4, <1>5
  <2>2. DueAt(s) = {} => late = <<>>
    BY <1>5, <2>1, EmptySeq
  <2>3. QED
    BY <1>1, <1>3, <2>2, ConcatEmptySeq
<1>7. /\ p.tasks \in Seq(Tasks) /\ Len(p.tasks) = Len(s.tasks) + Len(late)
      /\ Elements(p.tasks) = Elements(s.tasks) \cup Elements(late)
      /\ \A i \in 1..(Len(s.tasks) + Len(late)) :
           p.tasks[i] = IF i <= Len(s.tasks) THEN s.tasks[i] ELSE late[i - Len(s.tasks)]
  BY <1>1, <1>3, ConcatProperties, ConcatElements
<1>8. DOMAIN p.tasks = 1..(Len(s.tasks) + Len(late))
  BY <1>7, LenProperties
<1>9. \A t \in Elements(p.tasks) :
        t \in Elements(s.tasks) \/ \E e \in Elements(s.delayed) : t = e.task
  BY <1>3, <1>7 DEF Elements, ValuesAt
<1>10. DueAt(s) # {} => p.delayed = <<>> /\ Len(p.tasks) = Len(s.tasks) + 1
  <2>1. DueAt(s) # {} => rest = {} /\ Cardinality(DueAt(s)) = 1
    BY <1>2, <1>4 DEF rest
  <2>2. rest = {} => Len(p.delayed) = 0 /\ p.delayed \in Seq(Delayed)
    BY <1>2, <1>3, <1>4
  <2>3. rest = {} => p.delayed = <<>>
    BY <2>2, EmptySeq
  <2>4. QED
    BY <1>5, <1>7, <2>1, <2>3
<1>11. Len(p.delayed) <= 1
  BY <1>2, <1>3, <1>4
<1>12. \A e \in Elements(p.delayed) : e.wait # 0
  <2>1. Elements(p.delayed) = ValuesAt(s.delayed, rest)
    BY <1>2, <1>3, <1>4
  <2>2. \A i \in rest : s.delayed[i].wait # 0
    BY DEF rest, DueAt
  <2>3. QED
    BY <2>1, <2>2 DEF ValuesAt
<1>13. OneDeep(p.tasks)
  <2>1. CASE DueAt(s) = {}
    BY <1>6, <2>1
  <2>2. CASE DueAt(s) # {}
    <3> SUFFICES ASSUME NEW i \in DOMAIN p.tasks, NEW j \in DOMAIN p.tasks,
                        Deep(p.tasks[i]), Deep(p.tasks[j])
                 PROVE  i = j
      BY DEF OneDeep
    <3>1. ASSUME NEW k \in DOMAIN p.tasks, Deep(p.tasks[k])
          PROVE  k > Len(s.tasks)
      <4>1. CASE k <= Len(s.tasks)
        <5>1. k \in DOMAIN s.tasks /\ p.tasks[k] = s.tasks[k]
          BY <1>1, <1>7, <1>8, <4>1
        <5>2. QED
          BY <2>2, <3>1, <5>1 DEF NoDeep, Elements, ValuesAt
      <4>2. QED
        BY <1>1, <1>5, <1>8, <4>1
    <3>2. i > Len(s.tasks) /\ j > Len(s.tasks)
      BY <3>1
    <3>3. i \in 1..(Len(s.tasks) + Len(late)) /\ j \in 1..(Len(s.tasks) + Len(late))
      BY <1>8
    <3>4. QED
      BY <1>1, <1>5, <3>2, <3>3
  <2>3. QED
    BY <2>1, <2>2
<1>14. QED
  BY <1>3, <1>6, <1>9, <1>10, <1>11, <1>12, <1>13 DEF p

(* The first retry of a deep task waits a while before it is due. *)
LEMMA FirstRetry ==
  ASSUME NEW s \in Schedulers, NEW t \in Tasks, s.delayed = <<>>, Deep(t), Formed(t)
  PROVE  LET r == ScheduleBackgroundRetry(s, t)
         IN  /\ r.scheduler.tasks = s.tasks /\ r.scheduled
             /\ Len(r.scheduler.delayed) = 1
             /\ \A e \in Elements(r.scheduler.delayed) :
                  /\ e.wait # 0 /\ e.task.paths = t.paths
                  /\ e.task.reason = t.reason /\ Formed(e.task)
<1> DEFINE key     == <<t.root, t.reason>>
           c       == [s EXCEPT !.attempts[key] = Smaller(@ + 1, LastDoubling)]
           delay   == BackgroundRetryDelay(c.attempts[key])
           matches == {i \in DOMAIN s.delayed : TasksCanCoalesce(s.delayed[i].task, t)}
           r       == ScheduleBackgroundRetry(s, t)
           new     == Stamped(c, t)
           entry   == [task |-> new, wait |-> delay]
<1>1. c.tasks = s.tasks /\ c.delayed = s.delayed /\ c.generation = s.generation
  BY DEF Schedulers
<1>2. matches = {}
  <2>1. DOMAIN s.delayed = {}
    OBVIOUS
  <2>2. QED
    BY <2>1
<1>3. r = RetryAppended(c, t, delay)
  BY <1>2 DEF ScheduleBackgroundRetry
<1>4. delay # 0
  <2> DEFINE n == c.attempts[key]
             k == Smaller(Larger(n - 1, 0), 4)
  <2>1. n \in Nat
    <3>1. key \in Roots \X Reasons /\ s.attempts \in [Roots \X Reasons -> Nat]
      BY DEF Schedulers, Tasks
    <3>2. n = Smaller(s.attempts[key] + 1, LastDoubling)
      BY <3>1 DEF Schedulers
    <3> HIDE DEF n, key
    <3>3. QED
      BY <3>1, <3>2 DEF Smaller, LastDoubling
  <2> HIDE DEF n
  <2>2. k \in {0, 1, 2, 3, 4}
    BY <2>1 DEF Smaller, Larger
  <2>3. BackgroundRetryDelay(n) = Smaller(2 ^ k, MaxDelay)
    BY DEF BackgroundRetryDelay
  <2> HIDE DEF k
  <2>4. /\ 2 ^ 0 \in Nat \ {0} /\ 2 ^ 1 \in Nat \ {0} /\ 2 ^ 2 \in Nat \ {0}
        /\ 2 ^ 3 \in Nat \ {0} /\ 2 ^ 4 \in Nat \ {0}
    BY SMT
  <2>5. 2 ^ k \in Nat \ {0}
    BY <2>2, <2>4
  <2>6. BackgroundRetryDelay(n) # 0
    BY <2>3, <2>5 DEF Smaller, MaxDelay
  <2>7. QED
    BY <2>6 DEF n
<1>5. /\ r.scheduled
      /\ r.scheduler = [c EXCEPT !.generation = Larger(c.generation, new.generation),
                                 !.delayed = Append(c.delayed, entry)]
  BY <1>3 DEF RetryAppended, Result
<1>6. new.paths = t.paths /\ new.reason = t.reason /\ Formed(new)
  <2>1. /\ new.root = t.root /\ new.kind = t.kind /\ new.paths = t.paths
        /\ new.priority = t.priority /\ new.reason = t.reason
    BY DEF Stamped, Numbered, Tasks
  <2> HIDE DEF new
  <2>2. QED
    BY <2>1 DEF Formed, Deep, Continues
<1> HIDE DEF r, delay, new
<1>7. r.scheduler.tasks = s.tasks /\ r.scheduler.delayed = Append(s.delayed, entry)
  <2>1. DOMAIN c = DOMAIN s
    BY DEF Schedulers
  <2>2. {"generation", "tasks", "delayed"} \subseteq DOMAIN s
    BY DEF Schedulers
  <2> HIDE DEF c, entry
  <2>3. QED
    BY <1>1, <1>5, <2>1, <2>2
<1>8. Append(s.delayed, entry) = <<entry>>
  OBVIOUS
<1>9. Len(<<entry>>) = 1 /\ Elements(<<entry>>) = {entry}
  BY DEF Elements, ValuesAt
<1>10. entry.wait # 0 /\ entry.task = new
  BY <1>4
<1> HIDE DEF entry
<1>11. \A e \in Elements(r.scheduler.delayed) : e = entry
  BY <1>7, <1>8, <1>9
<1>12. r.scheduler.tasks = s.tasks /\ r.scheduled /\ Len(r.scheduler.delayed) = 1
  BY <1>5, <1>7, <1>8, <1>9
<1>13. QED
  BY <1>6, <1>10, <1>11, <1>12 DEF r

-----------------------------------------------------------------------------
(* The row of a deep refresh, until the workspace is opened a second time or  *)
(* crashes.                                                                   *)

Undisturbed ==
  /\ count["open"] = 0 /\ count["crash"] = 0
  /\ count["refresh"] = 0 \/ count["yield"] <= 1

DeepRuns   == \E t \in task : Deep(t)
HasRow     == \E r \in rows : Deep(r)
PathRow    == \E r \in rows : Deep(r) /\ r.paths # {}
RetryAsked == \E c \in Elements(result.calls) : c.how = "retry"

(* A task is in its turn, up to its last follow-up. *)
Working == pc \in Registered \cup {"marking", "clearing"}
Ahead   == Working \/ (pc = "following" /\ result.calls # <<>>)

(* There is one deep task at most: running, ready, or to be scheduled by the  *)
(* one that runs.  Besides it there is at most one retry, which becomes due   *)
(* only when nothing is ready.                                                *)
QueueInv ==
  /\ \A t \in Known \cup rows : Formed(t)
  /\ OneDeep(queue.tasks)
  /\ Ahead /\ DeepRuns => NoDeep(queue.tasks)
  /\ Len(queue.delayed) <= 1
  /\ \A e \in Elements(queue.delayed) : Deep(e.task) /\ e.task.paths = {}
  /\ DueAt(queue) # {} => pc = "idle" /\ NoDeep(queue.tasks)
  /\ RetryAsked => queue.delayed = <<>>
  /\ count["yield"] = 0 => queue.delayed = <<>> /\ ~RetryAsked

(* What the follow-ups of a task are: a deep task asks for itself, once. *)
PlanInv ==
  /\ pc \in Registered \cup {"idle", "down"} => result.calls = <<>>
  /\ pc \in Registered \ {"running"} => DeepRuns
  /\ pc \in {"superseding", "forgetting", "creating"} => \A t \in task : t.paths # {}
  /\ \A c \in Elements(result.calls) :
       /\ DeepRuns <=> c.how # "schedule"
       /\ DeepRuns => Deep(c.task) /\ c.task.paths = {}
       /\ Deep(c.task) /\ ~DeepRuns => c.task.paths # {}
       /\ ~Continues(c.task) => \A t \in task : ~Continues(t)
  /\ Len(result.calls) > 1 => ~DeepRuns /\ \A c \in Elements(result.calls) : Continues(c.task)
  /\ result.status = "superseded" => result.calls = <<>>
  /\ pc \in {"marking", "clearing"} /\ DeepRuns /\ result.status \in {"ready", "skipped", "partial"} =>
       catalogs = {} \/ result.calls # <<>>

(* A deep task with paths has its row from when it is pending, a catalog from *)
(* when it is made; the row is away only while its follow-up is scheduled.    *)
(* The row of a catalog without a checkpoint has the paths to start it over.  *)
RowInv ==
  /\ catalogs # {} => HasRow \/ (pc = "following" /\ result.calls # <<>> /\ DeepRuns)
  /\ \A t \in Elements(queue.tasks) : Deep(t) /\ t.paths # {} => PathRow
  /\ \A t \in task : Deep(t) /\ t.paths # {} /\ pc # "following" => PathRow
  /\ catalogs # {} /\ checkpoint = {} => PathRow /\ (DeepRuns => result.calls = <<>>)

StartInv ==
  /\ opener = "resuming" => pc = "down"
  /\ pc = "down" =>
       /\ rows = {} /\ catalogs = {} /\ queue.delayed = <<>>
       /\ Len(queue.tasks) <= 1 /\ \A t \in Elements(queue.tasks) : ~Continues(t)

(* Without a refresh in between, the tasks of the workspace form a chain: one *)
(* is ready at a time, but for a deep task that waits for the file layer.     *)
ChainInv ==
  /\ AllContinue(queue.tasks) \/ Len(queue.tasks) <= 1
  /\ queue.delayed # <<>> => queue.tasks = <<>>
  /\ Ahead \/ (pc = "following" /\ result.status = "superseded") =>
       /\ queue.delayed = <<>> /\ AllContinue(queue.tasks)
       /\ DeepRuns => queue.tasks = <<>>
  /\ /\ \A t \in task : ~Continues(t)
     /\ Working \/ (\E c \in Elements(result.calls) : ~Continues(c.task))
     => queue.tasks = <<>>

SaveInv ==
  /\ QueueInv /\ PlanInv /\ RowInv /\ StartInv
  /\ count["refresh"] = 0 => ChainInv

(* A step of the deep layer that goes on with its turn. *)
LEMMA TurnSaved ==
  ASSUME SaveInv, pc \in Registered, pc' \in Registered \ {"running"}, DeepRuns,
         UNCHANGED <<queue, task, result, opener, rows, count>>,
         pc' \in {"superseding", "forgetting", "creating"} => \A t \in task : t.paths # {},
         catalogs' # {} => HasRow,
         catalogs' # {} /\ checkpoint' = {} => PathRow
  PROVE  SaveInv'
<1>1. pc \notin {"idle", "down", "following"} /\ pc' \notin {"idle", "down", "following", "marking", "clearing"}
  BY DEF Registered
<1>2. /\ Known' = Known /\ DeepRuns' /\ (HasRow' <=> HasRow) /\ (PathRow' <=> PathRow)
      /\ RetryAsked' <=> RetryAsked
  BY DEF Known, Asking, DeepRuns, HasRow, PathRow, RetryAsked
<1>3. Working /\ Working' /\ Ahead /\ Ahead'
  BY DEF Working, Ahead
<1>4. QueueInv'
  <2>1. DueAt(queue)' = DueAt(queue)
    OBVIOUS
  <2>2. QED
    BY <1>1, <1>2, <1>3, <2>1 DEF SaveInv, QueueInv
<1>5. PlanInv'
  <2>1. result.calls = <<>> /\ Elements(<<>>) = {} /\ Len(<<>>) = 0
    BY DEF SaveInv, PlanInv, Elements, ValuesAt
  <2>2. QED
    BY <1>1, <1>2, <2>1 DEF PlanInv
<1>6. RowInv'
  <2>1. result'.calls = <<>>
    BY DEF SaveInv, PlanInv
  <2>2. QED
    BY <1>1, <1>2, <2>1 DEF SaveInv, RowInv
<1>7. StartInv'
  BY <1>1 DEF SaveInv, StartInv
<1>8. count["refresh"] = 0 => ChainInv'
  <2>1. result.calls = <<>> /\ Elements(<<>>) = {}
    BY DEF SaveInv, PlanInv, Elements, ValuesAt
  <2>2. QED
    BY <1>1, <1>2, <1>3, <2>1 DEF SaveInv, ChainInv, DeepRuns
<1>9. QED
  BY <1>4, <1>5, <1>6, <1>7, <1>8 DEF SaveInv

(* A task that ends with a result: what the result may ask for. *)
LEMMA EndSaved ==
  ASSUME SaveInv, pc \in Registered, NEW status, NEW plan, Ends(status, plan),
         UNCHANGED <<queue, task, opener, rows>>,
         count'["refresh"] = 0 => count["refresh"] = 0,
         count'["yield"] = 0 => count["yield"] = 0 /\ \A c \in Elements(plan) : c.how # "retry",
         \A c \in Elements(plan) :
           /\ Formed(c.task)
           /\ DeepRuns <=> c.how # "schedule"
           /\ DeepRuns => Deep(c.task) /\ c.task.paths = {}
           /\ Deep(c.task) /\ ~DeepRuns => c.task.paths # {}
           /\ ~Continues(c.task) => \A t \in task : ~Continues(t)
           /\ c.how = "retry" => queue.delayed = <<>>,
         Len(plan) > 1 => ~DeepRuns /\ \A c \in Elements(plan) : Continues(c.task),
         status = "superseded" => plan = <<>>,
         DeepRuns /\ status \in {"ready", "skipped", "partial"} => catalogs' = {} \/ plan # <<>>,
         catalogs' # {} => HasRow,
         catalogs' # {} /\ checkpoint' = {} => PathRow /\ (DeepRuns => plan = <<>>)
  PROVE  SaveInv'
<1>1. /\ pc' = "marking" /\ result' = [status |-> status, calls |-> plan]
      /\ result'.status = status /\ result'.calls = plan
  BY DEF Ends
<1>2. pc \notin {"idle", "down", "following"}
  BY DEF Registered
<1>3. /\ Asking' = {c.task : c \in Elements(plan)} /\ (DeepRuns' <=> DeepRuns) /\ (HasRow' <=> HasRow)
      /\ PathRow' <=> PathRow
      /\ RetryAsked' <=> \E c \in Elements(plan) : c.how = "retry"
  BY <1>1 DEF Asking, DeepRuns, HasRow, PathRow, RetryAsked
<1>4. Working /\ Working' /\ Ahead /\ Ahead'
  BY <1>1 DEF Working, Ahead
<1>5. QueueInv'
  <2>1. DueAt(queue)' = DueAt(queue) /\ DueAt(queue) = {}
    BY <1>2 DEF SaveInv, QueueInv
  <2>2. \A t \in (Known \cup rows)' : Formed(t)
    BY <1>3 DEF SaveInv, QueueInv, Known
  <2>3. count'["yield"] = 0 => queue.delayed = <<>>
    BY DEF SaveInv, QueueInv
  <2>4. QED
    BY <1>2, <1>3, <1>4, <2>1, <2>2, <2>3 DEF SaveInv, QueueInv
<1>6. PlanInv'
  <2>1. pc' \notin Registered \cup {"idle", "down"}
    BY <1>1 DEF Registered
  <2>2. QED
    BY <1>1, <1>3, <2>1 DEF PlanInv
<1>7. RowInv'
  BY <1>1, <1>2, <1>3 DEF SaveInv, RowInv
<1>8. StartInv'
  BY <1>1, <1>2 DEF SaveInv, StartInv
<1>9. count'["refresh"] = 0 => ChainInv'
  BY <1>1, <1>2, <1>3, <1>4 DEF SaveInv, ChainInv
<1>10. QED
  BY <1>5, <1>6, <1>7, <1>8, <1>9 DEF SaveInv

(* ... and it asks for nothing, or for one task. *)
LEMMA EndSavedPlain ==
  ASSUME SaveInv, pc \in Registered, NEW status, Ends(status, <<>>),
         UNCHANGED <<queue, task, opener, rows>>,
         count'["refresh"] = 0 => count["refresh"] = 0,
         count'["yield"] = 0 => count["yield"] = 0,
         DeepRuns /\ status \in {"ready", "skipped", "partial"} => catalogs' = {},
         catalogs' # {} => HasRow,
         catalogs' # {} /\ checkpoint' = {} => PathRow
  PROVE  SaveInv'
<1>1. Elements(<<>>) = {} /\ Len(<<>>) = 0
  BY DEF Elements, ValuesAt
<1> DEFINE plan == <<>>
<1>2. Elements(plan) = {} /\ ~(Len(plan) > 1) /\ Ends(status, plan) /\ plan = <<>>
  BY <1>1
<1> HIDE DEF plan
<1>3. QED
  BY <1>2, EndSaved

LEMMA EndSavedOnce ==
  ASSUME SaveInv, pc \in Registered, NEW status, NEW call, Ends(status, <<call>>),
         UNCHANGED <<queue, task, opener, rows>>,
         count'["refresh"] = 0 => count["refresh"] = 0,
         count'["yield"] = 0 => count["yield"] = 0 /\ call.how # "retry",
         Formed(call.task),
         DeepRuns <=> call.how # "schedule",
         DeepRuns => Deep(call.task) /\ call.task.paths = {},
         Deep(call.task) /\ ~DeepRuns => call.task.paths # {},
         ~Continues(call.task) => \A t \in task : ~Continues(t),
         call.how = "retry" => queue.delayed = <<>>,
         status # "superseded",
         catalogs' # {} => HasRow,
         catalogs' # {} /\ checkpoint' = {} => PathRow /\ ~DeepRuns
  PROVE  SaveInv'
<1> DEFINE plan == <<call>>
<1>1. Elements(plan) = {call} /\ Len(plan) = 1 /\ plan # <<>>
  BY DEF Elements, ValuesAt
<1>2. Elements(plan) = {call} /\ ~(Len(plan) > 1) /\ Ends(status, plan) /\ plan # <<>>
  BY <1>1
<1> HIDE DEF plan
<1>3. QED
  BY <1>2, EndSaved

-----------------------------------------------------------------------------
(* The steps of a turn, up to its result.                                    *)

(* An event raises its count and no other. *)
LEMMA EventCounts ==
  ASSUME RefreshInv, NEW e \in {"open", "refresh", "yield", "failure", "crash"}, Happens(e)
  PROVE  /\ \A f \in Events : count[f] \in Nat /\ count'[f] \in Nat /\ count'[f] >= count[f]
         /\ count'[e] = count[e] + 1
<1>1. e \in Events
  BY FailureIsAnEvent
<1>2. ResumeTypeOK
  BY DEF RefreshInv
<1>3. QED
  BY <1>1, <1>2, HappensType DEF ResumeTypeOK

LEMMA RowInTurn ==
  ASSUME SaveInv, pc \in Registered
  PROVE  /\ catalogs # {} => HasRow
         /\ catalogs # {} /\ checkpoint = {} => PathRow
BY DEF SaveInv, RowInv, Registered

LEMMA OneTask ==
  ASSUME RefreshInv, NEW t \in task
  PROVE  task = {t} /\ t \in Tasks /\ (DeepRuns <=> Deep(t))
BY DEF RefreshInv, ResumeTypeOK, DeepRuns

LEMMA RunCancelledSaved == RefreshInv /\ SaveInv /\ RunCancelled => SaveInv'
<1> SUFFICES ASSUME RefreshInv, SaveInv, RunCancelled
             PROVE  SaveInv'
  OBVIOUS
<1>1. /\ pc = "running" /\ Ends("superseded", <<>>)
      /\ UNCHANGED <<queue, task, opener, rows, count, catalogs, checkpoint>>
  BY DEF RunCancelled, database, history
<1>2. pc \in Registered
  BY <1>1 DEF Registered
<1>3. QED
  BY <1>1, <1>2, RowInTurn, EndSavedPlain

LEMMA RunOpenSaved == RefreshInv /\ SaveInv /\ RunOpen => SaveInv'
<1> SUFFICES ASSUME RefreshInv, SaveInv, RunOpen
             PROVE  SaveInv'
  OBVIOUS
<1>1. /\ pc = "running"
      /\ UNCHANGED <<queue, task, opener, rows, count, catalogs, checkpoint>>
  BY DEF RunOpen, database, history
<1>2. PICK t \in task :
        \/ /\ t.kind = "open-workspace"
           /\ Ends("skipped", <<Call("schedule", DiscoveryTask(Root, {}, 0))>>)
        \/ /\ t.reason \in DiscoveryReasons
           /\ Ends("ready", <<Call("schedule", RefreshTask(Root, "background-refresh-after-open"))>>)
  BY DEF RunOpen
<1>3. pc \in Registered
  BY <1>1 DEF Registered
<1>4. Formed(t)
  BY DEF SaveInv, QueueInv, Known
<1>5. ~Continues(t) /\ ~DeepRuns /\ \A u \in task : ~Continues(u)
  <2>1. ~Continues(t) /\ ~Deep(t)
    BY <1>2, <1>4 DEF Formed, Continues, Deep, ContinuationReasons, DiscoveryReasons, DeepReasons
  <2>2. QED
    BY <2>1, OneTask
<1>6. ASSUME NEW status \in {"skipped", "ready"}, NEW u, Ends(status, <<Call("schedule", u)>>),
             Formed(u), ~Continues(u)
      PROVE  SaveInv'
  <2> DEFINE call == Call("schedule", u)
  <2>1. call.how = "schedule" /\ call.task = u
    BY DEF Call
  <2>2. Ends(status, <<call>>)
    BY <1>6
  <2> HIDE DEF call
  <2>3. status # "superseded"
    OBVIOUS
  <2>4. ~Deep(call.task)
    BY <1>6, <2>1 DEF Continues, Deep, ContinuationReasons
  <2>5. QED
    BY <1>1, <1>3, <1>5, <1>6, <2>1, <2>2, <2>3, <2>4, RowInTurn, EndSavedOnce
<1>7. /\ Formed(DiscoveryTask(Root, {}, 0)) /\ ~Continues(DiscoveryTask(Root, {}, 0))
      /\ Formed(RefreshTask(Root, "background-refresh-after-open"))
      /\ ~Continues(RefreshTask(Root, "background-refresh-after-open"))
  BY DEF Formed, Continues, Deep, DiscoveryTask, RefreshTask, Task, ContinuationReasons, DeepReasons
<1>8. QED
  BY <1>2, <1>6, <1>7

LEMMA RunFileLayerSaved == RefreshInv /\ SaveInv /\ RunFileLayer => SaveInv'
<1> SUFFICES ASSUME RefreshInv, SaveInv, RunFileLayer
             PROVE  SaveInv'
  OBVIOUS
<1>1. /\ pc = "running"
      /\ UNCHANGED <<queue, task, opener, rows, count, catalogs, checkpoint>>
  BY DEF RunFileLayer, database, history
<1>2. PICK t \in task :
        /\ t.kind = "refresh-workspace" \/ t.reason = "full-refresh-files"
        /\ \E chunk, rest \in SUBSET UNION {Paths, t.paths} :
             LET deep == Call("schedule", DeepTask(Root, chunk, 0))
             IN  /\ chunk # {}
                 /\ \/ Ends("ready", <<deep>>)
                    \/ Ends("continued", <<Call("schedule", FileLayerTask(Root, rest)), deep>>)
  <2>1. PICK t \in task :
          /\ t.kind = "refresh-workspace" \/ t.reason = "full-refresh-files"
          /\ LET files == IF t.kind = "refresh-workspace" THEN Paths ELSE t.paths
                 chunk == Leading(files, ChunkSize)
                 rest  == files \ chunk
                 deep  == Call("schedule", DeepTask(Root, chunk, 0))
             IN  IF rest = {} THEN Ends("ready", <<deep>>)
                 ELSE Ends("continued", <<Call("schedule", FileLayerTask(Root, rest)), deep>>)
    BY DEF RunFileLayer
  <2> DEFINE files == IF t.kind = "refresh-workspace" THEN Paths ELSE t.paths
             chunk == Leading(files, ChunkSize)
             rest  == files \ chunk
  <2>2. chunk \in SUBSET UNION {Paths, t.paths} /\ rest \in SUBSET UNION {Paths, t.paths}
    BY DEF Leading
  <2>3. LET deep == Call("schedule", DeepTask(Root, chunk, 0))
        IN  \/ Ends("ready", <<deep>>)
            \/ Ends("continued", <<Call("schedule", FileLayerTask(Root, rest)), deep>>)
    BY <2>1
  <2>4. chunk # {}
    <3>1. t \in Tasks /\ Useful(t)
      BY DEF RefreshInv, ResumeTypeOK, TaskInv, Known
    <3>2. t.kind # "refresh-workspace" => t.reason = "full-refresh-files" /\ t.paths # {}
      BY <2>1, <3>1 DEF Useful, IsEmptyNoop, DiscoveryReasons, ContinuationReasons, DeepReasons
    <3>3. files \in SUBSET Paths /\ files # {}
      BY <3>1, <3>2, ResumeAssumption DEF Tasks
    <3>4. files \in SUBSET Nat /\ IsFiniteSet(files) /\ ChunkSize \in Nat \ {0}
      BY <3>3, ResumeAssumption, FS_Subset
    <3> HIDE DEF files
    <3>5. QED
      BY <3>3, <3>4, LeadingProperties
  <2> HIDE DEF files, chunk, rest
  <2>5. QED
    BY <2>1, <2>2, <2>3, <2>4
<1>3. pc \in Registered
  BY <1>1 DEF Registered
<1>4. ~DeepRuns
  <2>1. Formed(t)
    BY DEF SaveInv, QueueInv, Known
  <2>2. ~Deep(t)
    BY <1>2, <2>1 DEF Formed, Continues, Deep, ContinuationReasons, DeepReasons
  <2>3. QED
    BY <2>2, OneTask
<1>5. PICK chunk, rest :
        /\ chunk # {}
        /\ \/ Ends("ready", <<Call("schedule", DeepTask(Root, chunk, 0))>>)
           \/ Ends("continued", <<Call("schedule", FileLayerTask(Root, rest)),
                                  Call("schedule", DeepTask(Root, chunk, 0))>>)
  BY <1>2
<1> DEFINE deep == Call("schedule", DeepTask(Root, chunk, 0))
           more == Call("schedule", FileLayerTask(Root, rest))
<1>6. /\ deep.how = "schedule" /\ more.how = "schedule"
      /\ Formed(deep.task) /\ Continues(deep.task) /\ Formed(more.task) /\ Continues(more.task)
      /\ deep.task.paths # {} /\ ~Deep(more.task)
  BY <1>5 DEF Call, Formed, Continues, Deep, DeepTask, FileLayerTask, Task, ContinuationReasons, DeepReasons
<1>7. Ends("ready", <<deep>>) \/ Ends("continued", <<more, deep>>)
  BY <1>5
<1> HIDE DEF deep, more
<1>8. /\ Elements(<<deep>>) = {deep} /\ Len(<<deep>>) = 1
      /\ Elements(<<more, deep>>) = {more, deep} /\ <<more, deep>> # <<>> /\ <<deep>> # <<>>
  BY DEF Elements, ValuesAt
<1>9. CASE Ends("ready", <<deep>>)
  BY <1>1, <1>3, <1>4, <1>6, <1>9, RowInTurn, EndSavedOnce
<1>10. CASE Ends("continued", <<more, deep>>)
  BY <1>1, <1>3, <1>4, <1>6, <1>8, <1>10, RowInTurn, EndSaved
<1>11. QED
  BY <1>7, <1>9, <1>10

LEMMA LoadCursorSaved == RefreshInv /\ SaveInv /\ LoadCursor => SaveInv'
<1> SUFFICES ASSUME RefreshInv, SaveInv, LoadCursor
             PROVE  SaveInv'
  OBVIOUS
<1>1. /\ pc = "running"
      /\ UNCHANGED <<queue, task, opener, rows, count, catalogs, checkpoint>>
  BY DEF LoadCursor, database, history
<1>2. PICK t \in task :
        /\ t.reason \in DeepReasons
        /\ IF t.paths = {}
           THEN IF checkpoint = {} THEN Ends("failed", <<>>) ELSE pc' = "paging" /\ UNCHANGED result
           ELSE pc' = (IF checkpoint = {} THEN "creating" ELSE "superseding") /\ UNCHANGED result
  BY DEF LoadCursor
<1>3. pc \in Registered /\ DeepRuns
  BY <1>1, <1>2 DEF Registered, DeepRuns, Deep
<1>4. CASE Ends("failed", <<>>)
  BY <1>1, <1>3, <1>4, RowInTurn, EndSavedPlain
<1>5. CASE pc' \in {"paging", "creating", "superseding"} /\ UNCHANGED result /\ (pc' # "paging" => t.paths # {})
  <2>1. pc' \in Registered \ {"running"}
    BY <1>5 DEF Registered
  <2>2. pc' \in {"superseding", "forgetting", "creating"} => \A u \in task : u.paths # {}
    BY <1>5, OneTask
  <2>3. QED
    BY <1>1, <1>3, <1>5, <2>1, <2>2, RowInTurn, TurnSaved
<1>6. QED
  BY <1>2, <1>4, <1>5

LEMMA SupersedeCatalogSaved == RefreshInv /\ SaveInv /\ SupersedeCatalog => SaveInv'
<1> SUFFICES ASSUME RefreshInv, SaveInv, SupersedeCatalog
             PROVE  SaveInv'
  OBVIOUS
<1>1. /\ pc = "superseding" /\ pc' = "forgetting" /\ catalogs' \subseteq catalogs
      /\ UNCHANGED <<queue, task, result, opener, rows, count, checkpoint>>
  BY DEF SupersedeCatalog, memory, history
<1>2. pc \in Registered /\ pc' \in Registered \ {"running"}
  BY <1>1 DEF Registered
<1>3. DeepRuns /\ \A t \in task : t.paths # {}
  BY <1>1, <1>2 DEF SaveInv, PlanInv, Registered
<1>4. QED
  BY <1>1, <1>2, <1>3, RowInTurn, TurnSaved

LEMMA ClearCursorSaved == RefreshInv /\ SaveInv /\ ClearCursor => SaveInv'
<1> SUFFICES ASSUME RefreshInv, SaveInv, ClearCursor
             PROVE  SaveInv'
  OBVIOUS
<1>1. /\ pc = "forgetting" /\ pc' = "creating"
      /\ UNCHANGED <<queue, task, result, opener, rows, count, catalogs>>
  BY DEF ClearCursor, memory, history
<1>2. pc \in Registered /\ pc' \in Registered \ {"running"}
  BY <1>1 DEF Registered
<1>3. DeepRuns /\ \A t \in task : t.paths # {}
  BY <1>1, <1>2 DEF SaveInv, PlanInv, Registered
<1>4. catalogs = {}
  BY <1>1 DEF RefreshInv, CursorInv
<1>5. QED
  BY <1>1, <1>2, <1>3, <1>4, TurnSaved

LEMMA CreateCatalogSaved == RefreshInv /\ SaveInv /\ CreateCatalog => SaveInv'
<1> SUFFICES ASSUME RefreshInv, SaveInv, CreateCatalog
             PROVE  SaveInv'
  OBVIOUS
<1>1. /\ pc = "creating" /\ pc' = "starting"
      /\ UNCHANGED <<queue, task, result, opener, rows, count>>
  BY DEF CreateCatalog, memory
<1>2. pc \in Registered /\ pc' \in Registered \ {"running"}
  BY <1>1 DEF Registered
<1>3. DeepRuns /\ \A t \in task : t.paths # {}
  BY <1>1, <1>2 DEF SaveInv, PlanInv, Registered
<1>4. PathRow /\ HasRow
  BY <1>1, <1>3 DEF DeepRuns, SaveInv, RowInv, PathRow, HasRow
<1>5. QED
  BY <1>1, <1>2, <1>3, <1>4, TurnSaved

LEMMA StartCursorSaved == RefreshInv /\ SaveInv /\ StartCursor => SaveInv'
<1> SUFFICES ASSUME RefreshInv, SaveInv, StartCursor
             PROVE  SaveInv'
  OBVIOUS
<1>1. /\ pc = "starting" /\ pc' = "paging" /\ checkpoint' # {}
      /\ UNCHANGED <<queue, task, result, opener, rows, count, catalogs>>
  BY DEF StartCursor, memory, history
<1>2. pc \in Registered /\ pc' \in Registered \ {"running"}
  BY <1>1 DEF Registered
<1>3. DeepRuns
  BY <1>1, <1>2 DEF SaveInv, PlanInv, Registered
<1>4. catalogs # {} => HasRow
  BY <1>1 DEF SaveInv, RowInv
<1>5. QED
  BY <1>1, <1>2, <1>3, <1>4, TurnSaved

LEMMA ApplyPageSaved == RefreshInv /\ SaveInv /\ ApplyPage => SaveInv'
<1> SUFFICES ASSUME RefreshInv, SaveInv, ApplyPage
             PROVE  SaveInv'
  OBVIOUS
<1>1. /\ pc = "paging" /\ pc' = "advancing"
      /\ UNCHANGED <<queue, task, result, opener, rows, count, catalogs, checkpoint>>
  BY DEF ApplyPage, memory, database
<1>2. pc \in Registered /\ pc' \in Registered \ {"running"}
  BY <1>1 DEF Registered
<1>3. DeepRuns
  BY <1>1, <1>2 DEF SaveInv, PlanInv, Registered
<1>4. QED
  BY <1>1, <1>2, <1>3, RowInTurn, TurnSaved

(* A deep task that asks for itself again. *)
LEMMA GoesSaved ==
  ASSUME RefreshInv, SaveInv, pc \in Registered \ {"running"},
         NEW how \in {"progress", "retry"}, NEW t \in task, Goes(how, t),
         UNCHANGED <<queue, task, opener, rows, catalogs>>,
         count'["refresh"] = 0 => count["refresh"] = 0,
         count'["yield"] = 0 => count["yield"] = 0 /\ how # "retry",
         how = "retry" => queue.delayed = <<>>,
         checkpoint' # {}
  PROVE  SaveInv'
<1> DEFINE call == Call(how, DeepTask(Root, {}, t.generation))
<1>1. /\ call.how = how /\ Formed(call.task) /\ Deep(call.task) /\ Continues(call.task)
      /\ call.task.paths = {}
  BY DEF Call, Formed, Continues, Deep, DeepTask, Task, ContinuationReasons, DeepReasons
<1>2. Ends("partial", <<call>>)
  BY DEF Goes
<1> HIDE DEF call
<1>3. DeepRuns /\ pc \in Registered
  BY DEF SaveInv, PlanInv
<1>4. catalogs' # {} => HasRow
  BY RowInTurn
<1>5. QED
  BY <1>1, <1>2, <1>3, <1>4, EndSavedOnce

LEMMA NextPhaseSaved == RefreshInv /\ SaveInv /\ NextPhase => SaveInv'
<1> SUFFICES ASSUME RefreshInv, SaveInv, NextPhase
             PROVE  SaveInv'
  OBVIOUS
<1>1. /\ pc = "paging" /\ checkpoint' # {} /\ \E t \in task : Goes("progress", t)
      /\ UNCHANGED <<queue, task, opener, rows, catalogs, count>>
  BY DEF NextPhase, history
<1>2. pc \in Registered \ {"running"}
  BY <1>1 DEF Registered
<1>3. QED
  BY <1>1, <1>2, GoesSaved

LEMMA AdvanceCursorSaved == RefreshInv /\ SaveInv /\ AdvanceCursor => SaveInv'
<1> SUFFICES ASSUME RefreshInv, SaveInv, AdvanceCursor
             PROVE  SaveInv'
  OBVIOUS
<1>1. /\ pc = "advancing" /\ checkpoint' # {} /\ \E t \in task : Goes("progress", t)
      /\ UNCHANGED <<queue, task, opener, rows, catalogs, count>>
  BY DEF AdvanceCursor, history
<1>2. pc \in Registered \ {"running"}
  BY <1>1 DEF Registered
<1>3. QED
  BY <1>1, <1>2, GoesSaved

(* A turn given away: the first one finds no retry that waits, and without a  *)
(* refresh no turn does.                                                      *)
LEMMA YieldSaved == RefreshInv /\ SaveInv /\ Undisturbed' /\ Yield => SaveInv'
<1> SUFFICES ASSUME RefreshInv, SaveInv, Undisturbed', Yield
             PROVE  SaveInv'
  OBVIOUS
<1>1. /\ pc = "paging" /\ checkpoint # {} /\ (\E t \in task : Goes("retry", t)) /\ Happens("yield")
      /\ UNCHANGED <<queue, task, opener, rows, catalogs, checkpoint>>
  BY DEF Yield, database
<1>2. pc \in Registered \ {"running"} /\ Ahead /\ DeepRuns
  <2>1. pc \in Registered \ {"running"}
    BY <1>1 DEF Registered
  <2>2. QED
    BY <2>1 DEF SaveInv, PlanInv, Ahead, Working
<1>3. /\ count'["yield"] = count["yield"] + 1 /\ count["yield"] \in Nat
      /\ count'["refresh"] = 0 => count["refresh"] = 0
  <2>1. /\ \A f \in Events : count[f] \in Nat /\ count'[f] \in Nat /\ count'[f] >= count[f]
        /\ count'["yield"] = count["yield"] + 1
    BY <1>1, EventCounts
  <2>2. QED
    BY <2>1, FailureIsAnEvent
<1>4. queue.delayed = <<>>
  <2>1. CASE count'["refresh"] = 0
    BY <1>2, <1>3, <2>1 DEF SaveInv, ChainInv
  <2>2. CASE count'["yield"] <= 1
    BY <1>3, <2>2 DEF SaveInv, QueueInv
  <2>3. QED
    BY <2>1, <2>2 DEF Undisturbed
<1>5. count'["yield"] # 0
  BY <1>3
<1>6. QED
  BY <1>1, <1>2, <1>3, <1>4, <1>5, GoesSaved

LEMMA CompleteCatalogSaved == RefreshInv /\ SaveInv /\ CompleteCatalog => SaveInv'
<1> SUFFICES ASSUME RefreshInv, SaveInv, CompleteCatalog
             PROVE  SaveInv'
  OBVIOUS
<1>1. /\ pc = "paging" /\ Ends("ready", <<>>)
      /\ UNCHANGED <<queue, task, opener, rows, count>>
  BY DEF CompleteCatalog
<1>2. catalogs' = {}
  <2>1. PICK c \in checkpoint : Catalog(c) # {} /\ catalogs' = catalogs \ Catalog(c)
    BY DEF CompleteCatalog
  <2>2. PICK k \in catalogs : TRUE
    BY <2>1 DEF Catalog
  <2>3. Catalog(c) = catalogs
    BY <2>2, PageProperties DEF RefreshInv
  <2>4. QED
    BY <2>1, <2>3
<1>3. QED
  BY <1>1, <1>2, EndSavedPlain DEF Registered

LEMMA FailTaskSaved == RefreshInv /\ SaveInv /\ FailTask => SaveInv'
<1> SUFFICES ASSUME RefreshInv, SaveInv, FailTask
             PROVE  SaveInv'
  OBVIOUS
<1>1. /\ Ends("failed", <<>>) /\ Happens("failure")
      /\ UNCHANGED <<queue, task, opener, rows, catalogs, checkpoint>>
  BY DEF FailTask, database
<1>2. pc \in Registered
  BY DEF FailTask
<1>3. /\ count'["refresh"] = 0 => count["refresh"] = 0
      /\ count'["yield"] = 0 => count["yield"] = 0
  <2>1. \A f \in Events : count[f] \in Nat /\ count'[f] \in Nat /\ count'[f] >= count[f]
    BY <1>1, EventCounts
  <2>2. QED
    BY <2>1, FailureIsAnEvent
<1>4. QED
  BY <1>1, <1>2, <1>3, RowInTurn, EndSavedPlain

(* A cancelled page leaves its row. *)
LEMMA CancelPageSaved == RefreshInv /\ SaveInv /\ CancelPage => SaveInv'
<1> SUFFICES ASSUME RefreshInv, SaveInv, CancelPage
             PROVE  SaveInv'
  OBVIOUS
<1>1. /\ pc = "paging" /\ pc' = "idle" /\ task' = {}
      /\ UNCHANGED <<queue, result, opener, rows, count, catalogs, checkpoint>>
  BY DEF CancelPage, database, history
<1>2. pc \in Registered /\ pc \notin {"idle", "down"}
  BY <1>1 DEF Registered
<1>3. result.calls = <<>> /\ Elements(<<>>) = {} /\ Len(<<>>) = 0
  BY <1>2 DEF SaveInv, PlanInv, Elements, ValuesAt
<1>4. ~Working' /\ ~Ahead' /\ ~DeepRuns' /\ Working /\ Ahead /\ (HasRow' <=> HasRow) /\ (PathRow' <=> PathRow)
  BY <1>1, <1>2 DEF Working, Ahead, Registered, DeepRuns, HasRow, PathRow
<1>5. QueueInv'
  <2>1. DueAt(queue)' = DueAt(queue) /\ DueAt(queue) = {}
    BY <1>1, <1>2 DEF SaveInv, QueueInv
  <2>2. Known' \subseteq Known
    BY <1>1 DEF Known, Asking
  <2>3. RetryAsked' <=> RetryAsked
    BY <1>1 DEF RetryAsked
  <2>4. QED
    BY <1>1, <1>4, <2>1, <2>2, <2>3 DEF SaveInv, QueueInv
<1>6. PlanInv'
  BY <1>1, <1>3, <1>4 DEF PlanInv, Registered
<1>7. RowInv'
  BY <1>1, <1>2, <1>4, RowInTurn DEF SaveInv, RowInv
<1>8. StartInv'
  BY <1>1, <1>2 DEF SaveInv, StartInv
<1>9. count["refresh"] = 0 => ChainInv'
  BY <1>1, <1>3, <1>4 DEF SaveInv, ChainInv
<1>10. QED
  BY <1>1, <1>5, <1>6, <1>7, <1>8, <1>9 DEF SaveInv

-----------------------------------------------------------------------------
(* The callers, and the worker between two turns.                            *)

LEMMA NoElements ==
  ASSUME NEW T, NEW q \in Seq(T), Elements(q) = {}
  PROVE  q = <<>>
<1>1. DOMAIN q = 1..Len(q) /\ (q # <<>> => Len(q) \in Nat \ {0})
  BY LenProperties, EmptySeq
<1>2. q # <<>> => 1 \in DOMAIN q
  BY <1>1
<1>3. QED
  BY <1>2 DEF Elements, ValuesAt

LEMMA QueueTypes ==
  ASSUME NEW s \in Schedulers
  PROVE  /\ s.tasks \in Seq(Tasks) /\ s.delayed \in Seq(Delayed)
         /\ Len(s.tasks) \in Nat /\ Len(s.delayed) \in Nat
         /\ DueAt(s) = {} <=> \A e \in Elements(s.delayed) : e.wait # 0
         /\ \A p \in PendingTasks(s) : p \in Elements(s.tasks) \/ \E e \in Elements(s.delayed) : p = e.task
         /\ \A p \in Elements(s.tasks) : p \in PendingTasks(s)
         /\ \A e \in Elements(s.delayed) : e.task \in PendingTasks(s)
<1>1. s.tasks \in Seq(Tasks) /\ s.delayed \in Seq(Delayed)
  BY DEF Schedulers
<1>2. DueAt(s) = {} <=> \A e \in Elements(s.delayed) : e.wait # 0
  BY DEF DueAt, Elements, ValuesAt
<1>3. QED
  BY <1>1, <1>2, LenProperties, PendingParts

(* A caller asks for a task that starts the refresh over. *)
LEMMA AskedSaved ==
  ASSUME RefreshInv, SaveInv, NEW s \in Schedulers, s.tasks = queue.tasks, s.delayed = queue.delayed,
         NEW t \in Tasks, Formed(t), ~Continues(t), queue' = ScheduleWithResult(s, t).scheduler,
         UNCHANGED <<pc, task, result, catalogs, checkpoint, rows>>,
         count'["yield"] = 0 => count["yield"] = 0
  PROVE  /\ QueueInv' /\ PlanInv' /\ RowInv' /\ queue'.delayed = queue.delayed
         /\ queue.tasks = <<>> => Len(queue'.tasks) <= 1
         /\ \A p \in Elements(queue'.tasks) : p \in Elements(queue.tasks) \/ ~Continues(p)
<1>1. queue \in Schedulers /\ queue' \in Schedulers
  BY ScheduleProperties DEF GoodResult, RefreshInv, ResumeTypeOK
<1>2. \A p \in Known \cup rows : Formed(p)
  BY DEF SaveInv, QueueInv
<1>3. \A p \in Elements(queue.tasks) : Formed(p)
  BY <1>1, <1>2, QueueTypes DEF Known
<1>4. OneDeep(s.tasks) /\ \A p \in Elements(s.tasks) : Formed(p)
  BY <1>3 DEF SaveInv, QueueInv
<1>5. /\ queue'.delayed = queue.delayed /\ OneDeep(queue'.tasks)
      /\ \A p \in Elements(queue'.tasks) : p \in Elements(queue.tasks) \/ (p.reason = t.reason /\ Formed(p))
      /\ queue.tasks = <<>> => Len(queue'.tasks) <= 1
  BY <1>4, ScheduleForms
<1>6. ~Deep(t)
  BY DEF Continues, Deep, ContinuationReasons
<1>7. \A p \in Elements(queue'.tasks) : p \in Elements(queue.tasks) \/ (~Continues(p) /\ ~Deep(p))
  BY <1>5, <1>6 DEF Continues, Deep
<1>8. /\ DueAt(queue)' = DueAt(queue) /\ Asking' = Asking /\ (DeepRuns' <=> DeepRuns)
      /\ (HasRow' <=> HasRow) /\ (PathRow' <=> PathRow) /\ (RetryAsked' <=> RetryAsked) /\ (Working' <=> Working)
      /\ (Ahead' <=> Ahead)
  BY <1>5 DEF DueAt, Asking, DeepRuns, HasRow, PathRow, RetryAsked, Working, Ahead
<1>9. QueueInv'
  <2>1. \A p \in PendingTasks(queue') : Formed(p)
    <3>1. \A e \in Elements(queue'.delayed) : e.task \in Known
      BY <1>1, <1>5, QueueTypes DEF Known
    <3>2. QED
      BY <1>1, <1>2, <1>3, <1>5, <3>1, QueueTypes
  <2>2. \A p \in (Known \cup rows)' : Formed(p)
    BY <1>2, <1>8, <2>1 DEF Known
  <2>3. NoDeep(queue.tasks) => NoDeep(queue.tasks)'
    BY <1>7 DEF NoDeep
  <2>4. QED
    BY <1>5, <1>8, <2>2, <2>3 DEF SaveInv, QueueInv
<1>10. PlanInv'
  BY <1>8 DEF SaveInv, PlanInv
<1>11. RowInv'
  BY <1>7, <1>8 DEF SaveInv, RowInv
<1>12. QED
  BY <1>5, <1>7, <1>9, <1>10, <1>11

LEMMA OpenSaved == RefreshInv /\ SaveInv /\ Undisturbed' /\ Open => SaveInv'
<1> SUFFICES ASSUME RefreshInv, SaveInv, Undisturbed', Open
             PROVE  SaveInv'
  OBVIOUS
<1> DEFINE s == AdvanceGenerationTo(queue, journal)
<1>1. /\ Asks(s, OpenTask(Root)) /\ opener = "idle" /\ opener' = "resuming"
      /\ UNCHANGED <<pc, task, result, catalogs, checkpoint, rows>>
  BY DEF Open
<1>2. pc = "down" /\ UNCHANGED count
  <2>1. CASE Happens("open")
    <3>1. /\ \A f \in Events : count[f] \in Nat
          /\ count'["open"] = count["open"] + 1
      BY <2>1, EventCounts
    <3>2. count'["open"] # 0
      BY <3>1, FailureIsAnEvent
    <3>3. QED
      BY <3>2 DEF Undisturbed
  <2>2. QED
    BY <2>1 DEF Open
<1>3. queue = EmptyScheduler /\ queue.tasks = <<>> /\ queue.delayed = <<>>
  BY <1>1, <1>2 DEF RefreshInv, AliveInv, EmptyScheduler
<1>4. queue \in Schedulers /\ journal \in Nat
  BY DEF RefreshInv, ResumeTypeOK
<1>5. s \in Schedulers /\ s.tasks = queue.tasks /\ s.delayed = queue.delayed
  <2>1. s \in Schedulers
    BY <1>4, AdvanceKeeps
  <2>2. QED
    BY <1>4, <2>1 DEF AdvanceGenerationTo, Schedulers
<1>6. queue' = ScheduleWithResult(s, OpenTask(Root)).scheduler
  BY <1>1 DEF Asks
<1>7. OpenTask(Root) \in Tasks /\ Formed(OpenTask(Root)) /\ ~Continues(OpenTask(Root))
  <2>1. OpenTask(Root) \in Tasks
    BY RootType, BuiltTasks
  <2>2. QED
    BY <2>1 DEF OpenTask, Task, Formed, Continues, Deep, ContinuationReasons, DeepReasons
<1> HIDE DEF s
<1>8. /\ QueueInv' /\ PlanInv' /\ RowInv' /\ queue'.delayed = queue.delayed
      /\ Len(queue'.tasks) <= 1 /\ \A p \in Elements(queue'.tasks) : ~Continues(p)
  <2>1. Elements(queue.tasks) = {}
    BY <1>3 DEF Elements, ValuesAt
  <2>2. QED
    BY <1>1, <1>2, <1>3, <1>5, <1>6, <1>7, <2>1, AskedSaved
<1>9. StartInv'
  BY <1>1, <1>2, <1>3, <1>8 DEF SaveInv, StartInv
<1>10. ChainInv'
  <2>1. ~Working' /\ ~Ahead' /\ result'.calls = <<>> /\ Elements(<<>>) = {}
    BY <1>1, <1>2 DEF SaveInv, PlanInv, Working, Ahead, Registered, Elements, ValuesAt
  <2>2. QED
    BY <1>1, <1>2, <1>3, <1>8, <2>1 DEF ChainInv
<1>11. QED
  BY <1>8, <1>9, <1>10 DEF SaveInv

LEMMA ScheduleStoredSaved == RefreshInv /\ SaveInv /\ ScheduleStored => SaveInv'
<1> SUFFICES ASSUME RefreshInv, SaveInv, ScheduleStored
             PROVE  SaveInv'
  OBVIOUS
<1> DEFINE stored == {t \in rows : Recoverable(t)}
           first  == {t \in stored : \A u \in stored : t.priority >= u.priority}
           then   == AllScheduled(queue, first)
           after  == AllScheduled(then, stored \ first)
<1>1. /\ opener = "resuming" /\ queue' = after
      /\ opener' = "idle" /\ pc' = IF pc = "down" THEN "idle" ELSE pc
      /\ UNCHANGED <<task, result, rows, count, catalogs, checkpoint>>
  BY DEF ScheduleStored, history
<1>2. pc = "down" /\ pc' = "idle" /\ rows = {} /\ catalogs = {} /\ queue.delayed = <<>>
  BY <1>1 DEF SaveInv, StartInv
<1>3. queue' = queue
  <2>1. stored = {} /\ first = {} /\ stored \ first = {}
    BY <1>2
  <2> HIDE DEF stored, first
  <2>2. QED
    BY <1>1, <2>1 DEF AllScheduled
<1>4. /\ result.calls = <<>> /\ Elements(<<>>) = {} /\ Len(<<>>) = 0 /\ DueAt(queue) = {}
      /\ DueAt(queue)' = DueAt(queue)
  BY <1>2, <1>3 DEF SaveInv, PlanInv, Elements, ValuesAt, DueAt
<1>5. /\ ~Working' /\ ~Ahead' /\ Known' = Known /\ (RetryAsked' <=> RetryAsked)
      /\ (HasRow' <=> HasRow) /\ (PathRow' <=> PathRow) /\ (DeepRuns' <=> DeepRuns)
  BY <1>1, <1>2, <1>3, <1>4 DEF Working, Ahead, Registered, Known, Asking, RetryAsked, HasRow, PathRow, DeepRuns
<1>6. QueueInv'
  BY <1>1, <1>3, <1>4, <1>5 DEF SaveInv, QueueInv
<1>7. PlanInv'
  BY <1>1, <1>2, <1>4 DEF PlanInv, Registered
<1>8. RowInv'
  BY <1>1, <1>2, <1>3, <1>5 DEF SaveInv, RowInv
<1>9. StartInv'
  BY <1>1, <1>2 DEF StartInv
<1>10. count["refresh"] = 0 => ChainInv'
  BY <1>1, <1>2, <1>3, <1>4, <1>5 DEF SaveInv, ChainInv
<1>11. QED
  BY <1>1, <1>6, <1>7, <1>8, <1>9, <1>10 DEF SaveInv

LEMMA RefreshSaved == RefreshInv /\ SaveInv /\ Refresh => SaveInv'
<1> SUFFICES ASSUME RefreshInv, SaveInv, Refresh
             PROVE  SaveInv'
  OBVIOUS
<1> DEFINE t == RefreshTask(Root, "refresh-workspace")
<1>1. /\ Asks(queue, t) /\ opener = "idle" /\ pc # "down" /\ Happens("refresh")
      /\ UNCHANGED <<pc, task, result, opener, catalogs, checkpoint, rows>>
  BY DEF Refresh
<1>2. queue \in Schedulers /\ queue' = ScheduleWithResult(queue, t).scheduler
  BY <1>1 DEF RefreshInv, ResumeTypeOK, Asks
<1>3. t \in Tasks /\ Formed(t) /\ ~Continues(t)
  <2>1. t \in Tasks
    BY RootType, BuiltTasks
  <2>2. QED
    BY <2>1 DEF RefreshTask, Task, Formed, Continues, Deep, ContinuationReasons, DeepReasons
<1>4. /\ count'["yield"] = 0 => count["yield"] = 0
      /\ count'["refresh"] # 0
  <2>1. /\ \A f \in Events : count[f] \in Nat /\ count'[f] \in Nat /\ count'[f] >= count[f]
        /\ count'["refresh"] = count["refresh"] + 1
    BY <1>1, EventCounts
  <2>2. QED
    BY <2>1, FailureIsAnEvent
<1> HIDE DEF t
<1>5. QueueInv' /\ PlanInv' /\ RowInv'
  BY <1>1, <1>2, <1>3, <1>4, AskedSaved
<1>6. StartInv'
  BY <1>1 DEF StartInv
<1>7. QED
  BY <1>4, <1>5, <1>6 DEF SaveInv

LEMMA TakeTaskSaved == RefreshInv /\ SaveInv /\ TakeTask => SaveInv'
<1> SUFFICES ASSUME RefreshInv, SaveInv, TakeTask
             PROVE  SaveInv'
  OBVIOUS
<1> DEFINE d    == DrainReadyBatch(queue, 1)
           p    == PromoteReadyDelayedTasks(queue)
           q    == p.tasks
           next == d.batch[1]
           rest == d.scheduler.tasks
<1>1. /\ pc = "idle" /\ d.batch # <<>> /\ queue' = d.scheduler /\ task' = {next}
      /\ pc' = "running"
      /\ UNCHANGED <<result, opener, rows, count, catalogs, checkpoint>>
  BY DEF TakeTask, database, history
<1>2. queue \in Schedulers /\ 1 \in Nat \ {0}
  BY DEF RefreshInv, ResumeTypeOK
<1>3. /\ d.batch \in Seq(Tasks) /\ queue' \in Schedulers
      /\ Elements(d.batch) \cup PendingTasks(queue') = PendingTasks(queue)
  BY <1>1, <1>2, DrainProperties
<1>4. next \in Elements(d.batch)
  <2> HIDE DEF d
  <2>1. Len(d.batch) \in Nat \ {0} /\ DOMAIN d.batch = 1..Len(d.batch)
    BY <1>1, <1>3, EmptySeq, LenProperties
  <2>2. 1 \in DOMAIN d.batch
    BY <2>1
  <2>3. QED
    BY <2>2 DEF Elements, ValuesAt
<1>5. /\ OneDeep(q)
      /\ \A t \in Elements(q) : t \in Elements(queue.tasks) \/ \E e \in Elements(queue.delayed) : t = e.task
      /\ DueAt(queue) = {} => q = queue.tasks
      /\ DueAt(queue) # {} => p.delayed = <<>> /\ Len(q) = Len(queue.tasks) + 1
      /\ Len(p.delayed) <= 1
      /\ \A e \in Elements(p.delayed) : e \in Elements(queue.delayed) /\ e.wait # 0
  BY <1>2, RetriesJoin DEF SaveInv, QueueInv
<1>6. /\ next \in Elements(q) /\ Elements(rest) \subseteq Elements(q)
      /\ Len(rest) = Len(q) - 1 /\ Len(q) \in Nat
      /\ OneDeep(rest) /\ (Deep(next) => NoDeep(rest))
      /\ AllContinue(q) /\ (\A t \in Elements(q) : Formed(t)) /\ Deep(next) => rest = <<>>
      /\ d.scheduler.delayed = p.delayed
  BY <1>1, <1>2, <1>5, NextTask
<1>7. queue'.tasks = rest /\ queue'.delayed = p.delayed
  BY <1>1, <1>6
<1> HIDE DEF d, p, q, next, rest
<1>8. /\ DueAt(queue') = {} /\ result.calls = <<>> /\ Elements(<<>>) = {} /\ Len(<<>>) = 0
      /\ ~RetryAsked' /\ Asking' = {} /\ (DeepRuns' <=> Deep(next)) /\ (HasRow' <=> HasRow) /\ (PathRow' <=> PathRow)
  <2>1. DueAt(queue') = {}
    BY <1>3, <1>5, <1>7, QueueTypes
  <2>2. result.calls = <<>> /\ Elements(<<>>) = {} /\ Len(<<>>) = 0
    BY <1>1 DEF SaveInv, PlanInv, Elements, ValuesAt
  <2>3. QED
    BY <1>1, <2>1, <2>2 DEF RetryAsked, Asking, DeepRuns, HasRow, PathRow
<1>9. queue.delayed = <<>> => queue'.delayed = <<>>
  <2>1. queue.delayed = <<>> => Elements(queue.delayed) = {}
    BY DEF Elements, ValuesAt
  <2>2. queue.delayed = <<>> => Elements(queue'.delayed) = {}
    BY <1>5, <1>7, <2>1
  <2>3. queue'.delayed \in Seq(Delayed)
    BY <1>3, QueueTypes
  <2>4. QED
    BY <2>2, <2>3, NoElements
<1>10. QueueInv'
  <2>1. Known' \subseteq Known
    BY <1>1, <1>3, <1>4, <1>8 DEF Known
  <2>2. DueAt(queue)' = {}
    BY <1>8
  <2>3. QED
    BY <1>1, <1>5, <1>6, <1>7, <1>8, <1>9, <2>1, <2>2 DEF SaveInv, QueueInv
<1>11. PlanInv'
  BY <1>1, <1>8 DEF PlanInv
<1>12. RowInv'
  <2>1. catalogs # {} => HasRow /\ (checkpoint = {} => PathRow)
    BY <1>1 DEF SaveInv, RowInv
  <2>2. \A t \in Elements(q) : Deep(t) /\ t.paths # {} => PathRow
    BY <1>5 DEF SaveInv, RowInv, QueueInv
  <2>3. QED
    BY <1>1, <1>6, <1>7, <1>8, <2>1, <2>2 DEF RowInv
<1>13. StartInv'
  BY <1>1 DEF SaveInv, StartInv
<1>14. ASSUME count["refresh"] = 0
       PROVE  ChainInv'
  <2>1. ChainInv
    BY <1>14 DEF SaveInv
  <2>2. Len(queue.tasks) \in Nat /\ rest \in Seq(Tasks) /\ Len(<<>>) = 0
    BY <1>2, <1>3, <1>7, QueueTypes
  <2>3. queue'.delayed = <<>> /\ (rest = <<>> \/ (AllContinue(q) /\ (Deep(next) => rest = <<>>)))
    <3>1. CASE queue.delayed # <<>>
      <4>1. queue.tasks = <<>>
        BY <2>1, <3>1 DEF ChainInv
      <4>2. DueAt(queue) # {}
        BY <1>5, <1>6, <2>2, <4>1, EmptySeq
      <4>3. Len(rest) = 0
        BY <1>5, <1>6, <4>1, <4>2
      <4>4. QED
        BY <1>5, <1>7, <2>2, <4>2, <4>3, EmptySeq
    <3>2. CASE queue.delayed = <<>>
      <4>1. DueAt(queue) = {}
        BY <3>2 DEF DueAt
      <4>2. q = queue.tasks
        BY <1>5, <4>1
      <4>3. Len(q) <= 1 => Len(rest) = 0
        <5>1. Len(rest) \in Nat
          BY <2>2, LenProperties
        <5>2. QED
          BY <1>6, <5>1
      <4>4. Len(rest) = 0 => rest = <<>>
        BY <2>2, EmptySeq
      <4>5. \A t \in Elements(q) : Formed(t)
        BY <1>2, <4>2, QueueTypes DEF SaveInv, QueueInv, Known
      <4>6. QED
        BY <1>6, <1>9, <2>1, <3>2, <4>2, <4>3, <4>4, <4>5 DEF ChainInv
    <3>3. QED
      BY <3>1, <3>2
  <2>4. AllContinue(rest)
    BY <1>6, <2>3 DEF AllContinue, Elements, ValuesAt
  <2>5. ~Continues(next) => rest = <<>>
    BY <1>6, <2>3 DEF AllContinue
  <2>6. Deep(next) => rest = <<>>
    BY <2>3
  <2>7. QED
    BY <1>1, <1>7, <1>8, <2>3, <2>4, <2>5, <2>6 DEF ChainInv
<1>15. QED
  BY <1>1, <1>10, <1>11, <1>12, <1>13, <1>14 DEF SaveInv

-----------------------------------------------------------------------------
(* The end of a turn: the row is cleared and the follow-ups bring it back.   *)

LEMMA WaitSaved == RefreshInv /\ SaveInv /\ Wait => SaveInv'
<1> SUFFICES ASSUME RefreshInv, SaveInv, Wait
             PROVE  SaveInv'
  OBVIOUS
<1>1. /\ pc = "idle" /\ queue.tasks = <<>> /\ queue' = Elapse(queue)
      /\ UNCHANGED <<pc, task, result, opener, rows, count, catalogs, checkpoint>>
  BY DEF Wait, database, history
<1>2. queue \in Schedulers
  BY DEF RefreshInv, ResumeTypeOK
<1> DEFINE old == queue.delayed
           new == [i \in DOMAIN old |-> Sooner(old[i])]
<1>3. queue'.tasks = <<>> /\ queue'.delayed = new
  BY <1>1, <1>2 DEF Elapse, Schedulers
<1>4. old \in Seq(Delayed) /\ DOMAIN old = 1..Len(old) /\ Len(old) \in Nat
  BY <1>2, QueueTypes, LenProperties
<1>5. DOMAIN new = DOMAIN old /\ \A i \in DOMAIN old : new[i].task = old[i].task
  <2>1. \A i \in DOMAIN old : old[i] \in Delayed
    BY <1>4, ElementOfSeq
  <2>2. QED
    BY <2>1 DEF Sooner, Delayed
<1>6. queue' \in Schedulers /\ PendingTasks(queue') = PendingTasks(queue)
  BY <1>1, <1>2, ElapseKeeps
<1>7. new \in Seq(Delayed) /\ DOMAIN new = 1..Len(new) /\ Len(new) \in Nat
  BY <1>3, <1>6, QueueTypes, LenProperties
<1>8. Len(new) = Len(old)
  BY <1>4, <1>5, <1>7
<1>9. \A e \in Elements(new) : \E o \in Elements(old) : e.task = o.task
  BY <1>5 DEF Elements, ValuesAt
<1>10. old = <<>> <=> new = <<>>
  BY <1>4, <1>7, <1>8, EmptySeq
<1> HIDE DEF old, new
<1>11. NoDeep(<<>>) /\ result.calls = <<>> /\ Elements(<<>>) = {} /\ Len(<<>>) = 0
  BY <1>1 DEF SaveInv, PlanInv, NoDeep, Elements, ValuesAt
<1>12. /\ Known' = Known /\ (DeepRuns' <=> DeepRuns) /\ (HasRow' <=> HasRow) /\ (PathRow' <=> PathRow)
       /\ (RetryAsked' <=> RetryAsked) /\ ~Working' /\ ~Ahead'
  BY <1>1, <1>6 DEF Known, Asking, DeepRuns, HasRow, PathRow, RetryAsked, Working, Ahead, Registered
<1>13. QueueInv'
  <2>1. Len(new) <= 1 /\ \A e \in Elements(new) : Deep(e.task) /\ e.task.paths = {}
    BY <1>8, <1>9 DEF SaveInv, QueueInv, old
  <2>2. RetryAsked => new = <<>>
    BY <1>10 DEF SaveInv, QueueInv, old
  <2>3. count["yield"] = 0 => new = <<>> /\ ~RetryAsked
    BY <1>10 DEF SaveInv, QueueInv, old
  <2>4. OneDeep(<<>>)
    BY DEF OneDeep
  <2>5. QED
    BY <1>1, <1>3, <1>11, <1>12, <2>1, <2>2, <2>3, <2>4 DEF SaveInv, QueueInv
<1>14. PlanInv'
  BY <1>1, <1>12 DEF SaveInv, PlanInv
<1>15. RowInv'
  BY <1>1, <1>3, <1>11, <1>12 DEF SaveInv, RowInv
<1>16. StartInv'
  BY <1>1 DEF SaveInv, StartInv
<1>17. ChainInv'
  BY <1>1, <1>3, <1>11, <1>12 DEF ChainInv
<1>18. QED
  BY <1>13, <1>14, <1>15, <1>16, <1>17 DEF SaveInv

LEMMA MarkSupersededSaved == RefreshInv /\ SaveInv /\ MarkSuperseded => SaveInv'
<1> SUFFICES ASSUME RefreshInv, SaveInv, MarkSuperseded
             PROVE  SaveInv'
  OBVIOUS
<1>1. /\ pc = "marking" /\ pc' = "clearing"
      /\ UNCHANGED <<queue, task, opener, rows, count, catalogs, checkpoint>>
  BY DEF MarkSuperseded, database, history
<1>2. \/ result' = result
      \/ result' = [status |-> "superseded", calls |-> <<>>]
  BY DEF MarkSuperseded
<1>3. Elements(<<>>) = {} /\ Len(<<>>) = 0
  BY DEF Elements, ValuesAt
<1>4. \/ result'.calls = result.calls /\ result'.status = result.status
      \/ result'.calls = <<>> /\ result'.status = "superseded"
  BY <1>2
<1>5. Elements(result'.calls) \subseteq Elements(result.calls)
  BY <1>3, <1>4
<1>6. /\ Known' \subseteq Known /\ (DeepRuns' <=> DeepRuns) /\ (HasRow' <=> HasRow) /\ (PathRow' <=> PathRow)
      /\ (RetryAsked' => RetryAsked) /\ Working /\ Working' /\ Ahead /\ Ahead'
      /\ DueAt(queue)' = DueAt(queue)
  BY <1>1, <1>5 DEF Known, Asking, DeepRuns, HasRow, PathRow, RetryAsked, Working, Ahead
<1>7. QueueInv'
  BY <1>1, <1>6 DEF SaveInv, QueueInv
<1>8. PlanInv'
  BY <1>1, <1>3, <1>4, <1>5, <1>6 DEF SaveInv, PlanInv, Registered
<1>9. RowInv'
  BY <1>1, <1>4, <1>6 DEF SaveInv, RowInv
<1>10. StartInv'
  BY <1>1 DEF SaveInv, StartInv
<1>11. count["refresh"] = 0 => ChainInv'
  BY <1>1, <1>6 DEF SaveInv, ChainInv
<1>12. QED
  BY <1>1, <1>7, <1>8, <1>9, <1>10, <1>11 DEF SaveInv

LEMMA ClearRowSaved == RefreshInv /\ SaveInv /\ ClearRow => SaveInv'
<1> SUFFICES ASSUME RefreshInv, SaveInv, ClearRow
             PROVE  SaveInv'
  OBVIOUS
<1>1. /\ pc = "clearing" /\ pc' = "following"
      /\ UNCHANGED <<queue, task, result, opener, count, catalogs, checkpoint>>
      /\ rows' = IF result.status \in {"ready", "skipped", "partial"}
                 THEN {r \in rows : \A t \in task : r.reason # t.reason} ELSE rows
  BY DEF ClearRow, memory, history
<1>2. /\ rows' \subseteq rows /\ Known' = Known /\ (DeepRuns' <=> DeepRuns)
      /\ (RetryAsked' <=> RetryAsked) /\ DueAt(queue)' = DueAt(queue)
      /\ Working /\ Ahead /\ ~Working'
      /\ (Ahead' <=> result.calls # <<>>)
  BY <1>1 DEF Known, Asking, DeepRuns, RetryAsked, Working, Ahead, Registered
<1>3. ~DeepRuns => (HasRow => HasRow') /\ (PathRow => PathRow')
  BY <1>1 DEF DeepRuns, HasRow, PathRow, Deep
<1>4. DeepRuns /\ HasRow /\ catalogs # {} => HasRow' \/ result.calls # <<>>
  BY <1>1 DEF SaveInv, PlanInv, HasRow
<1>5. QueueInv'
  BY <1>1, <1>2 DEF SaveInv, QueueInv
<1>6. PlanInv'
  BY <1>1, <1>2 DEF SaveInv, PlanInv, Registered
<1>7. RowInv'
  <2>1. catalogs # {} => HasRow
    BY <1>1 DEF SaveInv, RowInv
  <2>2. DeepRuns => NoDeep(queue.tasks)
    BY <1>2 DEF SaveInv, QueueInv
  <2>3. \A t \in Elements(queue.tasks) : Deep(t) /\ t.paths # {} => PathRow'
    BY <1>3, <2>2 DEF SaveInv, RowInv, NoDeep
  <2>4. ASSUME catalogs # {}, checkpoint = {}
        PROVE  PathRow' /\ (DeepRuns => result.calls = <<>>)
    <3>1. PathRow /\ (DeepRuns => result.calls = <<>>)
      BY <2>4 DEF SaveInv, RowInv
    <3>2. DeepRuns => result.status \notin {"ready", "skipped", "partial"}
      BY <1>1, <2>4, <3>1 DEF SaveInv, PlanInv
    <3>3. DeepRuns => rows' = rows
      BY <1>1, <3>2
    <3>4. QED
      BY <1>3, <3>1, <3>3 DEF PathRow
  <2>5. QED
    BY <1>1, <1>2, <1>3, <1>4, <2>1, <2>3, <2>4 DEF RowInv
<1>8. StartInv'
  BY <1>1 DEF SaveInv, StartInv
<1>9. count["refresh"] = 0 => ChainInv'
  BY <1>1, <1>2 DEF SaveInv, ChainInv
<1>10. QED
  BY <1>1, <1>5, <1>6, <1>7, <1>8, <1>9 DEF SaveInv

(* What the next follow-up leaves in the queue. *)
LEMMA NextCall ==
  ASSUME RefreshInv, SaveInv, pc = "following", NEW call \in Elements(result.calls), call \in FollowUps
  PROVE  LET r == CallResult(queue, call)
             t == call.task
         IN  /\ OneDeep(r.scheduler.tasks)
             /\ \A p \in Elements(r.scheduler.tasks) :
                  p \in Elements(queue.tasks) \/ (p.reason = t.reason /\ Formed(p) /\ r.scheduled)
             /\ DeepRuns => r.scheduled
             /\ Len(r.scheduler.delayed) <= 1
             /\ \A e \in Elements(r.scheduler.delayed) :
                  \/ e \in Elements(queue.delayed)
                  \/ e.wait # 0 /\ e.task.paths = {} /\ Deep(e.task) /\ Formed(e.task)
             /\ call.how # "retry" =>
                  /\ r.scheduler.delayed = queue.delayed
                  /\ queue.tasks = <<>> => Len(r.scheduler.tasks) <= 1
             /\ call.how = "retry" => r.scheduler.tasks = queue.tasks
<1> DEFINE r == CallResult(queue, call)
           t == call.task
<1>1. queue \in Schedulers /\ t \in Tasks /\ call.how \in {"schedule", "progress", "retry"}
  BY DEF RefreshInv, ResumeTypeOK, FollowUps
<1>2. /\ Formed(t) /\ \A p \in Elements(queue.tasks) : Formed(p)
      /\ OneDeep(queue.tasks) /\ Len(queue.delayed) <= 1
  BY <1>1, QueueTypes DEF SaveInv, QueueInv, Known, Asking
<1>3. DeepRuns => Deep(t) /\ t.paths = {} /\ NoDeep(queue.tasks)
  <2>1. result.calls # <<>>
    BY DEF Elements, ValuesAt
  <2>2. Ahead
    BY <2>1 DEF Ahead
  <2>3. QED
    BY <2>2 DEF SaveInv, QueueInv, PlanInv
<1>4. ASSUME NEW s \in Schedulers, s.tasks = queue.tasks, s.delayed = queue.delayed,
             r = ScheduleWithResult(s, t), call.how # "retry"
      PROVE  /\ OneDeep(r.scheduler.tasks)
             /\ \A p \in Elements(r.scheduler.tasks) :
                  p \in Elements(queue.tasks) \/ (p.reason = t.reason /\ Formed(p) /\ r.scheduled)
             /\ DeepRuns => r.scheduled
             /\ r.scheduler.delayed = queue.delayed
             /\ queue.tasks = <<>> => Len(r.scheduler.tasks) <= 1
  <2> HIDE DEF r, t
  <2>1. QED
    BY <1>1, <1>2, <1>3, <1>4, ScheduleForms
<1>5. CASE call.how = "schedule"
  <2>1. r = ScheduleWithResult(queue, t)
    BY <1>5 DEF CallResult
  <2> HIDE DEF r, t
  <2>2. QED
    BY <1>1, <1>2, <1>4, <1>5, <2>1 DEF r, t
<1>6. CASE call.how = "progress"
  <2> DEFINE c == ClearBackgroundRetry(queue, t.root, t.reason)
  <2>1. r = ScheduleWithResult(c, t)
    BY <1>6 DEF CallResult
  <2>2. c = [queue EXCEPT !.attempts = [queue.attempts EXCEPT ![<<t.root, t.reason>>] = 0]]
    BY DEF ClearBackgroundRetry
  <2>3. [queue.attempts EXCEPT ![<<t.root, t.reason>>] = 0] \in [Roots \X Reasons -> Nat]
    BY <1>1 DEF Schedulers, Tasks
  <2>4. c \in Schedulers /\ c.tasks = queue.tasks /\ c.delayed = queue.delayed
    BY <1>1, <2>2, <2>3 DEF Schedulers
  <2> HIDE DEF r, t, c
  <2>5. QED
    BY <1>2, <1>4, <1>6, <2>1, <2>4 DEF r, t
<1>7. CASE call.how = "retry"
  <2>1. r = ScheduleBackgroundRetry(queue, t)
    BY <1>7 DEF CallResult
  <2>2. queue.delayed = <<>>
    BY <1>7 DEF SaveInv, QueueInv, RetryAsked
  <2>3. Deep(t) /\ t.paths = {}
    BY <1>3, <1>7 DEF SaveInv, PlanInv
  <2> HIDE DEF r, t
  <2>4. /\ r.scheduler.tasks = queue.tasks /\ r.scheduled /\ Len(r.scheduler.delayed) = 1
        /\ \A e \in Elements(r.scheduler.delayed) :
             e.wait # 0 /\ e.task.paths = t.paths /\ e.task.reason = t.reason /\ Formed(e.task)
    BY <1>1, <1>2, <2>1, <2>2, <2>3, FirstRetry
  <2>5. QED
    BY <1>2, <1>7, <2>3, <2>4 DEF r, t, Deep
<1>8. QED
  BY <1>1, <1>5, <1>6, <1>7

LEMMA ScheduleNextSaved == RefreshInv /\ SaveInv /\ ScheduleNext => SaveInv'
<1> SUFFICES ASSUME RefreshInv, SaveInv, ScheduleNext
             PROVE  SaveInv'
  OBVIOUS
<1> DEFINE plan == result.calls
           call == Head(plan)
           t    == call.task
           r    == CallResult(queue, call)
<1>1. /\ pc = "following" /\ plan # <<>>
      /\ queue' = r.scheduler /\ rows' = Saved(r, t)
      /\ result' = [result EXCEPT !.calls = Tail(plan)]
      /\ UNCHANGED <<pc, task, opener, count, catalogs, checkpoint>>
  BY DEF ScheduleNext, history
<1>2. /\ result \in [status : Outcomes, calls : Seq(FollowUps)]
      /\ plan \in Seq(FollowUps)
  BY DEF RefreshInv, ResumeTypeOK
<1>3. /\ call \in FollowUps /\ Tail(plan) \in Seq(FollowUps)
      /\ Len(Tail(plan)) = Len(plan) - 1
      /\ \A i \in 1..Len(Tail(plan)) : Tail(plan)[i] = plan[i + 1]
  BY <1>1, <1>2, HeadTailProperties
<1>4. /\ Len(plan) \in Nat \ {0} /\ DOMAIN plan = 1..Len(plan)
      /\ DOMAIN Tail(plan) = 1..Len(Tail(plan))
      /\ Tail(plan) # <<>> => Len(plan) > 1
  <2>1. /\ Len(plan) \in Nat \ {0} /\ DOMAIN plan = 1..Len(plan)
        /\ DOMAIN Tail(plan) = 1..Len(Tail(plan)) /\ Len(Tail(plan)) \in Nat
        /\ (Len(Tail(plan)) = 0 => Tail(plan) = <<>>)
    BY <1>1, <1>2, <1>3, LenProperties, EmptySeq
  <2>2. QED
    BY <1>3, <2>1
<1>5. call \in Elements(plan) /\ Elements(Tail(plan)) \subseteq Elements(plan)
  <2>1. call = plan[1] /\ 1 \in DOMAIN plan
    BY <1>4
  <2>2. \A i \in DOMAIN Tail(plan) : i + 1 \in DOMAIN plan /\ Tail(plan)[i] = plan[i + 1]
    BY <1>3, <1>4
  <2>3. QED
    BY <2>1, <2>2 DEF Elements, ValuesAt
<1>6. result'.calls = Tail(plan) /\ result'.status = result.status
  BY <1>1, <1>2
<1>7. Elements(Tail(plan)) # {} => Tail(plan) # <<>>
  BY DEF Elements, ValuesAt
<1>8. queue \in Schedulers /\ queue' \in Schedulers /\ AddsOnly(queue, r, t)
  <2>1. queue \in Schedulers /\ call \in Calls
    BY <1>3 DEF RefreshInv, ResumeTypeOK, Calls, FollowUps
  <2> HIDE DEF call
  <2>2. QED
    BY <1>1, <2>1, CallProperties, CallAdds DEF GoodResult
<1> DEFINE ready == queue'.tasks
           later == queue'.delayed
<1>9. /\ OneDeep(ready)
      /\ \A p \in Elements(ready) :
           p \in Elements(queue.tasks) \/ (p.reason = t.reason /\ Formed(p) /\ r.scheduled)
      /\ DeepRuns => r.scheduled
      /\ Len(later) <= 1
      /\ \A e \in Elements(later) :
           \/ e \in Elements(queue.delayed)
           \/ e.wait # 0 /\ e.task.paths = {} /\ Deep(e.task) /\ Formed(e.task)
      /\ call.how # "retry" => later = queue.delayed /\ (queue.tasks = <<>> => Len(ready) <= 1)
      /\ call.how = "retry" => ready = queue.tasks
  <2> HIDE DEF plan, call
  <2>1. QED
    BY <1>1, <1>3, <1>5, NextCall DEF plan
<1>10. /\ DeepRuns <=> call.how # "schedule"
       /\ DeepRuns => Deep(t) /\ Tail(plan) = <<>>
       /\ ~Continues(t) => \A u \in task : ~Continues(u)
       /\ Tail(plan) # <<>> => ~DeepRuns /\ \A c \in Elements(plan) : Continues(c.task)
       /\ result.status # "superseded"
  <2> HIDE DEF call
  <2>1. QED
    BY <1>1, <1>4, <1>5 DEF SaveInv, PlanInv, t
<1>11. Saved(r, t) = rows \/ (r.scheduled /\ Continues(t) /\ rows' = {Pending(queue', t.reason)} \cup (rows \ Row(t.reason)))
  BY <1>1 DEF Saved, Continues
<1>12. r.scheduled => Pending(queue', t.reason) \in PendingTasks(queue') /\ Pending(queue', t.reason).reason = t.reason
  <2> HIDE DEF r, t
  <2>1. QED
    BY <1>1, <1>8, PendingFound DEF AddsOnly
<1>13. Deep(t) /\ r.scheduled => HasRow' /\ Pending(queue', t.reason) \in rows'
  BY <1>1, <1>12 DEF Saved, HasRow, Deep, ContinuationReasons
<1>14. /\ HasRow => HasRow'
       /\ ~(Deep(t) /\ r.scheduled) /\ PathRow => PathRow'
  BY <1>1, <1>11, <1>13 DEF HasRow, PathRow, Row, Deep
<1>15. /\ Working' = FALSE /\ (Ahead' <=> Tail(plan) # <<>>) /\ Ahead
       /\ (DeepRuns' <=> DeepRuns)
       /\ ~RetryAsked'
  <2>1. RetryAsked' => \E c \in Elements(Tail(plan)) : c.how = "retry"
    BY <1>6 DEF RetryAsked
  <2>2. RetryAsked' => DeepRuns /\ Tail(plan) # <<>>
    BY <1>5, <1>7, <2>1 DEF SaveInv, PlanInv
  <2>3. QED
    BY <1>1, <1>6, <1>10, <2>2 DEF Working, Ahead, DeepRuns, Registered
<1>16. Asking' \subseteq Asking
  BY <1>5, <1>6 DEF Asking
<1> HIDE DEF plan, call, t, r
<1>17. \A p \in PendingTasks(queue') : Formed(p)
  <2>1. \A p \in Elements(queue.tasks) : p \in Known
    BY <1>8, QueueTypes DEF Known
  <2>2. \A e \in Elements(queue.delayed) : e.task \in Known
    BY <1>8, QueueTypes DEF Known
  <2>3. QED
    BY <1>8, <1>9, <2>1, <2>2, QueueTypes DEF SaveInv, QueueInv
<1>18. QueueInv'
  <2>1. \A p \in (Known \cup rows)' : Formed(p)
    BY <1>1, <1>11, <1>12, <1>16, <1>17 DEF SaveInv, QueueInv, Known
  <2>2. \A e \in Elements(later) : Deep(e.task) /\ e.task.paths = {} /\ e.wait # 0
    <3>1. \A e \in Elements(queue.delayed) : e.wait # 0
      BY <1>1, <1>8, QueueTypes DEF SaveInv, QueueInv
    <3>2. QED
      BY <1>9, <3>1 DEF SaveInv, QueueInv
  <2>3. DueAt(queue)' = {}
    BY <1>8, <2>2, QueueTypes
  <2>4. count["yield"] = 0 => later = <<>>
    <3>1. count["yield"] = 0 => call.how # "retry"
      BY <1>5 DEF SaveInv, QueueInv, RetryAsked, plan
    <3>2. QED
      BY <1>9, <3>1 DEF SaveInv, QueueInv
  <2>5. QED
    BY <1>1, <1>9, <1>10, <1>15, <2>1, <2>2, <2>3, <2>4 DEF QueueInv
<1>19. PlanInv'
  <2>1. Len(Tail(plan)) > 1 => Tail(plan) # <<>>
    <3>1. Len(<<>>) = 0
      OBVIOUS
    <3>2. QED
      BY <3>1
  <2>2. \A c \in Elements(Tail(plan)) : c \in Elements(result.calls)
    BY <1>5 DEF plan
  <2>3. QED
    BY <1>1, <1>5, <1>6, <1>10, <1>15, <2>1, <2>2 DEF SaveInv, PlanInv, Registered
<1>20. RowInv'
  <2>1. catalogs # {} => HasRow'
    BY <1>1, <1>9, <1>10, <1>13, <1>14 DEF SaveInv, RowInv
  <2>2. ASSUME NEW p \in Elements(ready), Deep(p), p.paths # {}
        PROVE  PathRow'
    <3>1. CASE Deep(t) /\ r.scheduled
      <4>1. Pending(queue', p.reason) \in Elements(ready) /\ Pending(queue', p.reason).reason = p.reason
        BY <1>8, PendingReady
      <4>2. Pending(queue', p.reason) = p
        BY <1>9, <2>2, <4>1 DEF OneDeep, Elements, ValuesAt, Deep
      <4>3. p.reason = t.reason
        BY <2>2, <3>1 DEF Deep, DeepReasons
      <4>4. QED
        BY <1>13, <2>2, <3>1, <4>2, <4>3 DEF PathRow
    <3>2. CASE ~(Deep(t) /\ r.scheduled)
      <4>1. p \in Elements(queue.tasks)
        BY <1>9, <2>2, <3>2 DEF Deep
      <4>2. QED
        BY <1>14, <2>2, <3>2, <4>1 DEF SaveInv, RowInv
    <3>3. QED
      BY <3>1, <3>2
  <2>3. ASSUME catalogs # {}, checkpoint = {}
        PROVE  PathRow' /\ ~DeepRuns
    <3>1. PathRow /\ ~DeepRuns
      BY <1>1, <2>3 DEF SaveInv, RowInv, plan
    <3>2. CASE Deep(t) /\ r.scheduled
      <4>1. t.paths # {} /\ call.how = "schedule"
        BY <1>5, <1>10, <3>1, <3>2 DEF SaveInv, PlanInv, plan, t
      <4>2. PICK p \in PendingTasks(queue') : p.reason = t.reason /\ t.paths \subseteq p.paths
        BY <1>1, <1>8, <3>2 DEF AddsOnly
      <4>3. later = queue.delayed
        BY <1>9, <4>1
      <4>4. p.paths # {}
        BY <4>1, <4>2
      <4>5. \A e \in Elements(later) : e.task.paths = {}
        BY <4>3 DEF SaveInv, QueueInv
      <4>6. p \in Elements(ready)
        BY <1>8, <4>2, <4>4, <4>5, QueueTypes
      <4>7. QED
        BY <2>2, <3>1, <3>2, <4>2, <4>4, <4>6 DEF Deep
    <3>3. CASE ~(Deep(t) /\ r.scheduled)
      BY <1>14, <3>1, <3>3
    <3>4. QED
      BY <3>1, <3>2, <3>3
  <2>4. QED
    BY <1>1, <1>15, <2>1, <2>2, <2>3 DEF SaveInv, RowInv
<1>21. StartInv'
  BY <1>1 DEF SaveInv, StartInv
<1>22. ASSUME count["refresh"] = 0
       PROVE  ChainInv'
  <2>1. queue.delayed = <<>> /\ AllContinue(queue.tasks) /\ (DeepRuns => queue.tasks = <<>>)
    BY <1>15, <1>22 DEF SaveInv, ChainInv
  <2>2. ~Continues(t) => queue.tasks = <<>>
    BY <1>5, <1>10, <1>22 DEF SaveInv, ChainInv, plan, t
  <2>3. CASE call.how = "retry"
    <3>1. ready = <<>> /\ Len(<<>>) = 0
      BY <1>9, <1>10, <2>1, <2>3
    <3>2. ~Ahead'
      BY <1>10, <1>15, <2>3
    <3>3. QED
      BY <1>1, <1>6, <1>10, <3>1, <3>2 DEF ChainInv
  <2>4. CASE call.how # "retry"
    <3>1. later = <<>>
      BY <1>9, <2>1, <2>4
    <3>2. Continues(t) => AllContinue(ready)
      BY <1>9, <2>1 DEF AllContinue, Continues
    <3>3. AllContinue(ready) \/ Len(ready) <= 1
      BY <1>9, <2>2, <2>4, <3>2
    <3>4. Tail(plan) # <<>> => Continues(t) /\ ~DeepRuns /\ \A c \in Elements(Tail(plan)) : Continues(c.task)
      BY <1>5, <1>10 DEF t
    <3>5. QED
      BY <1>1, <1>6, <1>7, <1>10, <1>15, <3>1, <3>2, <3>3, <3>4 DEF ChainInv
  <2>5. QED
    BY <2>3, <2>4
<1>23. QED
  BY <1>1, <1>18, <1>19, <1>20, <1>21, <1>22 DEF SaveInv

LEMMA ScheduleInterruptedSaved == RefreshInv /\ SaveInv /\ ScheduleInterrupted => SaveInv'
<1> SUFFICES ASSUME RefreshInv, SaveInv, ScheduleInterrupted
             PROVE  SaveInv'
  OBVIOUS
<1>1. /\ pc = "following" /\ result.calls = <<>> /\ pc' = "idle" /\ task' = {} /\ result' = NoResult
      /\ UNCHANGED <<opener, rows, count, catalogs, checkpoint>>
  BY DEF ScheduleInterrupted, history
<1>2. queue \in Schedulers
  BY DEF RefreshInv, ResumeTypeOK
<1>3. /\ \A p \in Elements(queue.tasks) : Formed(p)
      /\ OneDeep(queue.tasks)
  BY <1>2, QueueTypes DEF SaveInv, QueueInv, Known
<1>4. \/ queue' = queue
      \/ \E t \in Interrupted : queue' = ScheduleWithResult(queue, t).scheduler
  BY DEF ScheduleInterrupted, CallResult, Call, Result
<1>5. ASSUME NEW t \in Interrupted, queue' = ScheduleWithResult(queue, t).scheduler
      PROVE  /\ queue' \in Schedulers /\ queue'.delayed = queue.delayed /\ OneDeep(queue'.tasks)
             /\ \A p \in Elements(queue'.tasks) :
                  \/ p \in Elements(queue.tasks)
                  \/ Continues(p) /\ Formed(p) /\ (Deep(p) /\ p.paths # {} => PathRow)
             /\ result.status = "superseded"
  <2>1. t \in rows /\ t \in Tasks /\ Continues(t) /\ Formed(t) /\ result.status = "superseded"
    BY DEF Interrupted, RefreshInv, ResumeTypeOK, Continues, SaveInv, QueueInv
  <2>2. /\ queue' \in Schedulers
        /\ queue'.delayed = queue.delayed /\ OneDeep(queue'.tasks)
        /\ \A p \in Elements(queue'.tasks) :
             p \in Elements(queue.tasks) \/ (p.reason = t.reason /\ Formed(p))
    BY <1>2, <1>3, <1>5, <2>1, ScheduleForms, ScheduleProperties DEF GoodResult
  <2>3. \A p : p.reason = t.reason => Continues(p) /\ (Deep(p) <=> Deep(t))
    BY <2>1 DEF Continues, Deep
  <2>4. ASSUME NEW p \in Elements(queue'.tasks), p.reason = t.reason, Deep(p), p.paths # {}
        PROVE  PathRow
    <3>1. AddsOnly(queue, ScheduleWithResult(queue, t), t) /\ p \in PendingTasks(queue')
      BY <1>2, <2>1, <2>2, ScheduleAdds, QueueTypes
    <3>2. t.paths # {} \/ \E e \in PendingTasks(queue) : e.reason = t.reason /\ e.paths # {}
      <4>1. CASE p \in PendingTasks(queue)
        BY <2>4, <4>1
      <4>2. CASE p \notin PendingTasks(queue)
        <5>1. \/ p.paths = t.paths
              \/ \E e \in PendingTasks(queue) : e.reason = t.reason /\ p.paths = e.paths \cup t.paths
          BY <1>5, <3>1, <4>2 DEF AddsOnly
        <5>2. QED
          BY <2>4, <5>1
      <4>3. QED
        BY <4>1, <4>2
    <3>3. CASE t.paths # {}
      BY <2>1, <2>3, <2>4, <3>3 DEF PathRow
    <3>4. CASE t.paths = {}
      <4>1. PICK e \in PendingTasks(queue) : e.reason = t.reason /\ e.paths # {}
        BY <3>2, <3>4
      <4>2. \A d \in Elements(queue.delayed) : d.task.paths = {}
        BY DEF SaveInv, QueueInv
      <4>3. e \in Elements(queue.tasks)
        BY <1>2, <4>1, <4>2, QueueTypes
      <4>4. Deep(e)
        BY <2>4, <4>1 DEF Deep
      <4>5. QED
        BY <4>1, <4>3, <4>4 DEF SaveInv, RowInv
    <3>5. QED
      BY <3>3, <3>4
  <2>5. QED
    BY <2>1, <2>2, <2>3, <2>4
<1>6. /\ queue' \in Schedulers /\ queue'.delayed = queue.delayed /\ OneDeep(queue'.tasks)
      /\ \A p \in Elements(queue'.tasks) :
           \/ p \in Elements(queue.tasks)
           \/ Continues(p) /\ Formed(p) /\ (Deep(p) /\ p.paths # {} => PathRow)
      /\ queue' = queue \/ result.status = "superseded"
  BY <1>2, <1>3, <1>4, <1>5
<1>7. /\ result'.calls = <<>> /\ result'.status = "none" /\ Elements(<<>>) = {} /\ Len(<<>>) = 0
      /\ DueAt(queue)' = {}
  <2>1. DueAt(queue) = {}
    BY <1>1 DEF SaveInv, QueueInv
  <2>2. DueAt(queue)' = DueAt(queue)
    BY <1>6 DEF DueAt
  <2>3. QED
    BY <1>1, <2>1, <2>2 DEF NoResult, Elements, ValuesAt
<1>8. /\ ~Working' /\ ~Ahead' /\ ~RetryAsked' /\ ~DeepRuns' /\ (HasRow' <=> HasRow) /\ (PathRow' <=> PathRow) /\ Asking' = {}
  BY <1>1, <1>7 DEF Working, Ahead, RetryAsked, DeepRuns, HasRow, PathRow, Asking, Registered
<1>9. QueueInv'
  <2>1. \A e \in Elements(queue.delayed) : e.task \in Known
    BY <1>2, QueueTypes DEF Known
  <2>2. \A p \in PendingTasks(queue') : Formed(p)
    BY <1>3, <1>6, <2>1, QueueTypes DEF SaveInv, QueueInv
  <2>3. \A p \in (Known \cup rows)' : Formed(p)
    BY <1>1, <1>8, <2>2 DEF SaveInv, QueueInv, Known
  <2>4. QED
    BY <1>1, <1>6, <1>7, <1>8, <2>3 DEF SaveInv, QueueInv
<1>10. PlanInv'
  BY <1>1, <1>7, <1>8 DEF PlanInv, Registered
<1>11. RowInv'
  BY <1>1, <1>6, <1>8 DEF SaveInv, RowInv
<1>12. StartInv'
  BY <1>1 DEF SaveInv, StartInv
<1>13. ASSUME count["refresh"] = 0
       PROVE  ChainInv'
  <2>1. ChainInv
    BY <1>13 DEF SaveInv
  <2>2. CASE queue' = queue
    BY <1>1, <1>7, <1>8, <2>1, <2>2 DEF ChainInv
  <2>3. CASE result.status = "superseded"
    <3>1. queue'.delayed = <<>> /\ AllContinue(queue.tasks)
      BY <1>1, <1>6, <2>1, <2>3 DEF ChainInv
    <3>2. AllContinue(queue.tasks)'
      BY <1>6, <3>1 DEF AllContinue
    <3>3. QED
      BY <1>1, <1>7, <1>8, <3>1, <3>2 DEF ChainInv
  <2>4. QED
    BY <1>6, <2>2, <2>3
<1>14. QED
  BY <1>1, <1>9, <1>10, <1>11, <1>12, <1>13 DEF SaveInv

-----------------------------------------------------------------------------
(* What has not been disturbed yet was not before.                           *)

LEMMA CountsGrow ==
  RefreshInv /\ [ResumeNext]_refreshVars => \A f \in Events : count[f] \in Nat /\ count'[f] \in Nat /\ count'[f] >= count[f]
<1> SUFFICES ASSUME RefreshInv, [ResumeNext]_refreshVars
             PROVE  \A f \in Events : count[f] \in Nat /\ count'[f] \in Nat /\ count'[f] >= count[f]
  OBVIOUS
<1>1. CASE UNCHANGED count
  BY <1>1 DEF RefreshInv, ResumeTypeOK
<1>2. ASSUME NEW e \in {"open", "refresh", "yield", "failure", "crash"}, Happens(e)
      PROVE  \A f \in Events : count[f] \in Nat /\ count'[f] \in Nat /\ count'[f] >= count[f]
  BY <1>2, EventCounts
<1>3. UNCHANGED count \/ \E e \in {"open", "refresh", "yield", "failure", "crash"} : Happens(e)
  <2>1. CASE Open \/ ScheduleStored \/ Refresh \/ Crash
    BY <2>1 DEF Open, ScheduleStored, Refresh, Crash, history
  <2>2. CASE TakeTask \/ Wait \/ RunCancelled \/ RunOpen \/ RunFileLayer \/ FailTask
    BY <2>2 DEF TakeTask, Wait, RunCancelled, RunOpen, RunFileLayer, FailTask, history
  <2>3. CASE LoadCursor \/ SupersedeCatalog \/ ClearCursor \/ CreateCatalog \/ StartCursor \/ NextPhase
    BY <2>3 DEF LoadCursor, SupersedeCatalog, ClearCursor, CreateCatalog, StartCursor, NextPhase, history
  <2>4. CASE CompleteCatalog \/ Yield \/ CancelPage \/ ApplyPage \/ AdvanceCursor
    BY <2>4 DEF CompleteCatalog, Yield, CancelPage, ApplyPage, AdvanceCursor, history
  <2>5. CASE MarkSuperseded \/ ClearRow \/ ScheduleNext \/ ScheduleInterrupted
    BY <2>5 DEF MarkSuperseded, ClearRow, ScheduleNext, ScheduleInterrupted, history
  <2>6. CASE UNCHANGED refreshVars
    BY <2>6 DEF refreshVars
  <2>7. QED
    BY <2>1, <2>2, <2>3, <2>4, <2>5, <2>6 DEF ResumeNext, Worker, DeepLayer
<1>4. QED
  BY <1>1, <1>2, <1>3

LEMMA StaysUndisturbed == RefreshInv /\ [ResumeNext]_refreshVars /\ Undisturbed' => Undisturbed
<1> SUFFICES ASSUME RefreshInv, [ResumeNext]_refreshVars, Undisturbed'
             PROVE  Undisturbed
  OBVIOUS
<1>1. \A f \in {"open", "refresh", "yield", "failure", "crash"} :
        count[f] \in Nat /\ count'[f] \in Nat /\ count'[f] >= count[f]
  BY CountsGrow, FailureIsAnEvent
<1>2. QED
  BY <1>1 DEF Undisturbed

SavedInv == Undisturbed => SaveInv

LEMMA SavedInitial == ResumeInit => SavedInv
<1> SUFFICES ASSUME ResumeInit
             PROVE  SaveInv
  BY DEF SavedInv
<1>1. /\ queue.tasks = <<>> /\ queue.delayed = <<>> /\ pc = "down" /\ task = {}
      /\ result.calls = <<>> /\ result.status = "none" /\ opener = "idle"
      /\ rows = {} /\ catalogs = {} /\ checkpoint = {}
  BY DEF ResumeInit, EmptyScheduler, NoResult
<1>2. Elements(<<>>) = {} /\ Len(<<>>) = 0 /\ DueAt(queue) = {}
  BY <1>1 DEF Elements, ValuesAt, DueAt
<1>3. Known = {} /\ ~DeepRuns /\ ~RetryAsked /\ ~Working /\ ~Ahead
  BY <1>1, <1>2, EmptyProperties DEF ResumeInit, Known, Asking, DeepRuns, RetryAsked, Working, Ahead, Registered
<1>4. QueueInv
  <2>1. OneDeep(<<>>)
    BY DEF OneDeep
  <2>2. QED
    BY <1>1, <1>2, <1>3, <2>1 DEF QueueInv
<1>5. PlanInv
  BY <1>1, <1>2, <1>3 DEF PlanInv, Registered
<1>6. RowInv
  BY <1>1, <1>2 DEF RowInv
<1>7. StartInv
  BY <1>1, <1>2 DEF StartInv
<1>8. ChainInv
  BY <1>1, <1>2, <1>3 DEF ChainInv
<1>9. QED
  BY <1>4, <1>5, <1>6, <1>7, <1>8 DEF SaveInv

LEMMA SavedStays == SaveInv /\ UNCHANGED refreshVars => SaveInv'
<1> SUFFICES ASSUME SaveInv, UNCHANGED refreshVars
             PROVE  SaveInv'
  OBVIOUS
<1>1. UNCHANGED <<queue, pc, task, result, opener, catalogs, checkpoint, rows, count>>
  BY DEF refreshVars
<1>2. /\ Known' = Known /\ (DeepRuns' <=> DeepRuns) /\ (HasRow' <=> HasRow) /\ (PathRow' <=> PathRow)
      /\ (RetryAsked' <=> RetryAsked) /\ (Working' <=> Working) /\ (Ahead' <=> Ahead)
      /\ DueAt(queue)' = DueAt(queue)
  BY <1>1 DEF Known, Asking, DeepRuns, HasRow, PathRow, RetryAsked, Working, Ahead
<1>3. QueueInv'
  BY <1>1, <1>2 DEF SaveInv, QueueInv
<1>4. PlanInv' /\ RowInv' /\ StartInv'
  BY <1>1, <1>2 DEF SaveInv, PlanInv, RowInv, StartInv
<1>5. count["refresh"] = 0 => ChainInv'
  BY <1>1, <1>2 DEF SaveInv, ChainInv
<1>6. QED
  BY <1>1, <1>3, <1>4, <1>5 DEF SaveInv

LEMMA SavedStep == RefreshInv /\ SavedInv /\ [ResumeNext]_refreshVars => SavedInv'
<1> SUFFICES ASSUME RefreshInv, SavedInv, [ResumeNext]_refreshVars, Undisturbed'
             PROVE  SaveInv'
  BY DEF SavedInv
<1>1. SaveInv
  BY StaysUndisturbed DEF SavedInv
<1>2. CASE Open
  BY <1>1, <1>2, OpenSaved
<1>3. CASE ScheduleStored
  BY <1>1, <1>3, ScheduleStoredSaved
<1>4. CASE Refresh
  BY <1>1, <1>4, RefreshSaved
<1>5. CASE TakeTask \/ Wait \/ RunCancelled \/ RunOpen \/ RunFileLayer \/ FailTask
  BY <1>1, <1>5, TakeTaskSaved, WaitSaved, RunCancelledSaved, RunOpenSaved, RunFileLayerSaved,
     FailTaskSaved
<1>6. CASE DeepLayer
  BY <1>1, <1>6, LoadCursorSaved, SupersedeCatalogSaved, ClearCursorSaved, CreateCatalogSaved,
     StartCursorSaved, NextPhaseSaved, CompleteCatalogSaved, YieldSaved,
     CancelPageSaved, ApplyPageSaved, AdvanceCursorSaved DEF DeepLayer
<1>7. CASE MarkSuperseded \/ ClearRow \/ ScheduleNext \/ ScheduleInterrupted
  BY <1>1, <1>7, MarkSupersededSaved, ClearRowSaved, ScheduleNextSaved, ScheduleInterruptedSaved
<1>8. CASE Crash
  <2>1. count'["crash"] = count["crash"] + 1 /\ count["crash"] \in Nat
    BY <1>8, EventCounts, FailureIsAnEvent DEF Crash
  <2>2. QED
    BY <2>1 DEF Undisturbed
<1>9. CASE UNCHANGED refreshVars
  BY <1>1, <1>9, SavedStays
<1>10. QED
  BY <1>2, <1>3, <1>4, <1>5, <1>6, <1>7, <1>8, <1>9 DEF ResumeNext, Worker

(* Until the workspace is opened a second time, crashes or gives a turn away  *)
(* twice around a refresh: at most one deep task is ready or asked for and one *)
(* retry waits, a deep task asks for itself, and the row of an unfinished     *)
(* refresh is away only while its follow-up is being scheduled.               *)
THEOREM SavedInvariance == ResumeSpec => []SavedInv
BY SavedInitial, SavedStep, RefreshInvariance, PTL DEF ResumeSpec

(* Whatever yields, fails, is superseded or refreshed in between, an          *)
(* unfinished refresh has a row between two tasks from which the next open    *)
(* can go on.                                                                 *)
THEOREM RowIsSaved == ResumeSpec => []SavedBetweenTasks
<1>1. RefreshInv /\ SavedInv => SavedBetweenTasks
  <2> SUFFICES ASSUME RefreshInv, SavedInv,
                      pc = "idle", catalogs # {}, count["open"] + count["crash"] = 0,
                      count["refresh"] = 0 \/ count["yield"] <= 1
               PROVE  DeepRow
    BY DEF SavedBetweenTasks
  <2>1. count["open"] \in Nat /\ count["crash"] \in Nat
    BY FailureIsAnEvent DEF RefreshInv, ResumeTypeOK
  <2>2. count["open"] = 0 /\ count["crash"] = 0
    BY <2>1
  <2>3. SaveInv
    BY <2>2 DEF SavedInv, Undisturbed
  <2>4. HasRow /\ (checkpoint = {} => PathRow)
    BY <2>3 DEF SaveInv, RowInv
  <2>5. checkpoint # {} => \E c \in checkpoint, k \in catalogs : c.generation = k.generation
    BY DEF RefreshInv, CursorInv
  <2>6. QED
    BY <2>4, <2>5 DEF HasRow, PathRow, DeepRow, Deep, Recoverable
<1>2. QED
  BY <1>1, RefreshInvariance, SavedInvariance, PTL
=============================================================================
