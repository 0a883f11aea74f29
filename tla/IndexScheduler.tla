--------------------------- MODULE IndexScheduler ---------------------------
(* WorkspaceIndexScheduler under every caller it has: the commands and the    *)
(* file watcher that request work, the one worker that drains a batch, and    *)
(* the follow-ups the results of that batch schedule.  One action is one call *)
(* of a scheduler method (each runs under the scheduler lock); what callers   *)
(* do between two calls is the subject of IndexManager.                       *)
EXTENDS IndexRequests

CONSTANTS BatchSize,      \* WORKSPACE_INDEX_WORKER_TASK_BATCH_SIZE
          MaxGeneration,  \* bound: no call that numbers a task past it
          MaxAttempts     \* bound: retries of one continuation in a row

ASSUME BoundsAssumption ==
  /\ Asked \subseteq Reasons
  /\ BatchSize \in Nat \ {0}
  /\ MaxGeneration \in Nat
  /\ MaxAttempts \in Nat

VARIABLES sched,      \* the scheduler
          running,    \* the drained tasks whose results are not processed yet
          calls,      \* the follow-up calls those results still have to make
          \* History, read by the properties only.
          returned,   \* what the last call returned: the method and its tasks
          owed,       \* paths accepted for indexing and not dispatched since
          passedOver  \* foreground dispatches in a row past a background task

vars == <<sched, running, calls, returned, owed, passedOver>>

-----------------------------------------------------------------------------
Init ==
  /\ sched = EmptyScheduler
  /\ running = {}
  /\ calls = <<>>
  /\ returned = [method |-> "none", tasks |-> {}]
  /\ owed = [root \in Roots |-> [reason \in PathReasons |-> {}]]
  /\ passedOver = 0

CanNumber == sched.generation < MaxGeneration

(* A schedule call that took the scheduler from its present value to r. *)
Scheduled(r) ==
  /\ sched' = r.scheduler
  /\ returned' = [method |-> "schedule", tasks |-> r.superseded]
  /\ UNCHANGED passedOver

Nothing ==
  /\ returned' = [method |-> "none", tasks |-> {}]
  /\ UNCHANGED <<sched, passedOver>>

Request(root) ==
  /\ CanNumber
  /\ \E t \in WorkspaceRequests(root) :
       t.reason \in Asked /\ Scheduled(ScheduleWithResult(sched, t))
  /\ UNCHANGED <<running, calls, owed>>

(* Paths count as owed once the scheduler took them, or dropped the call      *)
(* because a pending task has them already.                                   *)
RequestPaths(root) ==
  /\ CanNumber
  /\ \E t \in PathRequests(root) :
       /\ t.reason \in Asked
       /\ Scheduled(ScheduleWithResult(sched, t))
       /\ owed' = [owed EXCEPT ![root][t.reason] =
                     IF LatestWins(t) THEN t.paths ELSE @ \cup t.paths]
  /\ UNCHANGED <<running, calls>>

(* open_workspace_index: the generations the store remembers come first. *)
Synchronize ==
  /\ \E g \in 1..MaxGeneration : sched' = AdvanceGenerationTo(sched, g)
  /\ returned' = [method |-> "none", tasks |-> {}]
  /\ UNCHANGED <<running, calls, owed, passedOver>>

ResumeStored(root) ==
  /\ CanNumber
  /\ \E t \in ResumeRequests(root, sched.generation) :
       t.reason \in Asked /\ Scheduled(ScheduleWithResult(sched, t))
  /\ UNCHANGED <<running, calls, owed>>

(* with_workspace_maintenance: everything pending for the root is taken out.  *)
DrainRoot(root) ==
  /\ sched' = DrainTasksForRoot(sched, root)
  /\ returned' = [method |-> "drain-root", tasks |-> PendingTasksForRoot(sched, root)]
  /\ owed' = [owed EXCEPT ![root] = [reason \in PathReasons |-> {}]]
  /\ UNCHANGED <<running, calls, passedOver>>

Covers(t, root, reason) ==
  t.root = root /\ (t.kind \in {"open-workspace", "refresh-workspace"} \/ t.reason = reason)

Taken(batch, root, reason) ==
  IF \E t \in batch : Covers(t, root, reason) /\ t.kind # "changed-paths"
  THEN Paths
  ELSE UNION {t.paths : t \in {u \in batch : Covers(u, root, reason)}}

BackgroundReady(q) == \E i \in DOMAIN q : IsBackgroundTurn(q[i].priority)

Drain ==
  /\ running = {} /\ calls = <<>>
  /\ LET d     == DrainReadyBatch(sched, BatchSize)
         batch == {d.batch[i] : i \in DOMAIN d.batch}
     IN  /\ batch # {}
         /\ sched' = d.scheduler
         /\ running' = batch
         /\ returned' = [method |-> "drain", tasks |-> batch]
         /\ owed' = [root \in Roots |-> [reason \in PathReasons |->
                       owed[root][reason] \ Taken(batch, root, reason)]]
         /\ passedOver' =
              IF BackgroundReady(DispatchOrder(sched)) /\ ~BackgroundReady(d.batch)
              THEN passedOver + (IF IsForegroundBurst(d.batch[1].priority) THEN 1 ELSE 0)
              ELSE 0
  /\ UNCHANGED calls

Resolve ==
  /\ calls = <<>>
  /\ \E t \in running :
       /\ running' = running \ {t}
       /\ calls' \in AskedOnly(PossibleFollowUps(t) \cup AfterInterruption(t))
  /\ Nothing
  /\ UNCHANGED owed

FollowUp ==
  /\ calls # <<>>
  /\ CanNumber
  /\ LET call == Head(calls) IN
     /\ call.how = "retry" => sched.attempts[<<call.task.root, call.task.reason>>] < MaxAttempts
     /\ Scheduled(CallResult(sched, call))
  /\ calls' = Tail(calls)
  /\ UNCHANGED <<running, owed>>

Time ==
  /\ \E i \in DOMAIN sched.delayed : sched.delayed[i].wait > 0
  /\ sched' = Elapse(sched)
  /\ returned' = [method |-> "none", tasks |-> {}]
  /\ UNCHANGED <<running, calls, owed, passedOver>>

Next ==
  \/ \E root \in Roots : \/ Request(root) \/ RequestPaths(root)
                         \/ ResumeStored(root) \/ DrainRoot(root)
  \/ Synchronize \/ Drain \/ Resolve \/ FollowUp \/ Time

Spec == Init /\ [][Next]_vars

-----------------------------------------------------------------------------
(* Properties.                                                               *)

TypeOK ==
  /\ sched \in Schedulers
  /\ running \subseteq Tasks
  /\ calls \in Seq([how : {"schedule", "progress", "retry", "resume"}, task : Tasks])
  /\ returned \in [method : {"none", "schedule", "drain", "drain-root"}, tasks : SUBSET Tasks]
  /\ owed \in [Roots -> [PathReasons -> SUBSET Paths]]
  /\ passedOver \in Nat

(* The generation counter is ahead of every task in the queues: the number    *)
(* the next task gets is greater than any pending one.  Continuations keep    *)
(* their number and the resume table brings numbers of an earlier run, so     *)
(* schedule_with_result has to raise the counter as well as read it.          *)
CounterAhead == \A t \in PendingTasks(sched) : t.generation \in 1..sched.generation

(* No task leaves the queues silently: one that is gone was dispatched in a   *)
(* batch or handed back to the caller, who journals it as superseded or       *)
(* cancelled (schedule_with_result, schedule_background_retry, the drains).      *)
NoSilentDrop ==
  [][PendingTasks(sched) \ PendingTasks(sched') \subseteq returned'.tasks]_vars

(* A task handed back as superseded left behind a pending task that does its  *)
(* work and has a greater generation: should_publish_task_result and          *)
(* cancel_superseded_by compare generations only, so an equal or smaller one  *)
(* would let the result of the replaced task through.                         *)
SupersededByNewer ==
  [][returned'.method = "schedule" =>
       \A old \in returned'.tasks : \E new \in PendingTasks(sched') :
         /\ new.generation > old.generation
         /\ TasksCanCoalesce(new, old) \/ Replaces(new, old)]_vars

(* A path the watcher reported, and the newest hint of each foreground lane,  *)
(* stay covered until they are dispatched: by a ready task of the same reason *)
(* that holds the path, or by a ready open or refresh of the whole workspace. *)
(* Merging, the no-op test, replacement by a workspace task and the split of  *)
(* a batch must all keep it.                                                  *)
AcceptedPathsCovered ==
  \A root \in Roots, reason \in PathReasons :
    owed[root][reason] # {} =>
      \E i \in DOMAIN sched.tasks :
        /\ Covers(sched.tasks[i], root, reason)
        /\ \/ sched.tasks[i].kind # "changed-paths"
           \/ owed[root][reason] \subseteq sched.tasks[i].paths

(* The positions of the deep continuations of root: they share one slot, the  *)
(* key that queue coalescing and cancellation use.                            *)
DeepReady(root) ==
  {i \in DOMAIN sched.tasks : sched.tasks[i].root = root /\ sched.tasks[i].reason \in DeepReasons}
DeepDelayed(root) ==
  {i \in DOMAIN sched.delayed :
     sched.delayed[i].task.root = root /\ sched.delayed[i].task.reason \in DeepReasons}

(* Two ready tasks do not share a slot, but for deep continuations: a retry   *)
(* that is due joins the ready queue without coalescing.  As it comes of a    *)
(* task that was taken, whatever was requested, resumed or retried meanwhile  *)
(* there is no third one.                                                     *)
SlotsStayShort ==
  /\ \A i, j \in DOMAIN sched.tasks :
       (i # j /\ sched.tasks[i].reason \notin DeepReasons) =>
         /\ ~TasksCanCoalesce(sched.tasks[i], sched.tasks[j]) \/ sched.tasks[i].kind # "changed-paths"
         /\ ~(/\ sched.tasks[i].root = sched.tasks[j].root
              /\ sched.tasks[i].kind = sched.tasks[j].kind
              /\ sched.tasks[i].kind # "changed-paths")
  /\ \A root \in Roots : Cardinality(DeepReady(root)) + Cardinality(DeepDelayed(root)) <= 2

(* promote_background_turn: with a background, SDK or full-refresh task       *)
(* ready, at most ForegroundBurstLimit foreground batches go first.           *)
BackgroundGetsItsTurn == passedOver <= ForegroundBurstLimit
=============================================================================
