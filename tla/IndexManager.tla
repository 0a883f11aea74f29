---------------------------- MODULE IndexManager ----------------------------
(* WorkspaceIndexManagerRuntime: callers that request work, the one runner    *)
(* that executes a batch (worker_execution admits one at a time), and the     *)
(* maintenance fence, over three shared values each behind a lock of its own: *)
(* the scheduler, the cancellation registry and the status rows.  One action  *)
(* is what a thread does under one lock.                                      *)
EXTENDS IndexRequests

CONSTANTS BatchSize,       \* WORKSPACE_INDEX_WORKER_TASK_BATCH_SIZE
          Callers,         \* threads that call schedule_*
          Maintained,      \* roots a clear or a rebuild is asked for
          JournalMayFail,  \* whether a write to the task journal can fail
          MaxGeneration    \* bound: no call that numbers a task past it

ASSUME ManagerAssumption ==
  /\ Asked \subseteq Reasons
  /\ BatchSize \in Nat \ {0}
  /\ Maintained \subseteq Roots
  /\ JournalMayFail \in BOOLEAN
  /\ MaxGeneration \in Nat

VARIABLES sched,       \* the scheduler
          blocked,     \* blocked_roots of the maintenance runtime
          batch,       \* the drained tasks: [task, cancelled, result]
          registered,  \* the batch is in the cancellation registry
          rows,        \* recent_statuses: the state under each task id
          runner,      \* where the runner is, and its locals
          caller,      \* the same of every caller
          fence,       \* the same of with_workspace_maintenance
          \* History, read by the properties only.
          unreported,  \* tasks the scheduler took and no row says the end of
          outdated,    \* tasks in the batch that a newer request replaces
          published    \* tasks whose results were published as current

vars == <<sched, blocked, batch, registered, rows, runner, caller, fence,
          unreported, outdated, published>>
history == <<unreported, outdated, published>>

-----------------------------------------------------------------------------
(* Status rows.  A task id is made of the generation and the status kind.     *)

RowId(t)          == <<t.generation, StatusKind(t)>>
WithRow(r, id, state) == [i \in DOMAIN r \cup {id} |-> IF i = id THEN state ELSE r[i]]
WithRows(r, tasks, state) ==
  LET ids == {RowId(t) : t \in tasks}
  IN  [i \in DOMAIN r \cup ids |-> IF i \in ids THEN state ELSE r[i]]

(* A result that stands for a task the runner did not finish is labelled with *)
(* the kind of the task, also when the task is a discovery.                   *)
ResultId(entry) ==
  IF entry.result = "superseded" THEN <<entry.task.generation, entry.task.kind>>
  ELSE RowId(entry.task)

(* A change of a project configuration is published under a reason of its own.*)
ResultReason(entry) ==
  IF entry.result = "reloaded" THEN "config-change" ELSE entry.task.reason
ResultState(entry) == IF entry.result = "reloaded" THEN "ready" ELSE entry.result

Reported(tasks) == unreported' = unreported \ tasks

-----------------------------------------------------------------------------
(* Cancellation.                                                             *)

(* The registry has the tokens of the batch while it runs. *)
CancelAt(I) ==
  batch' = [i \in DOMAIN batch |->
              IF registered /\ i \in I THEN [batch[i] EXCEPT !.cancelled = TRUE] ELSE batch[i]]

CancelsActive(newer, active) ==
  /\ active.root = newer.root
  /\ newer.generation > active.generation
  /\ TaskSupersedesActive(newer, active.kind, active.reason)

Latest(tasks) == CHOOSE t \in tasks : \A u \in tasks : u.generation <= t.generation

SameWork(pending, t) ==
  /\ pending.root = t.root
  /\ IF t.kind = "changed-paths" THEN TasksCanCoalesce(pending, t) ELSE pending.kind = t.kind

-----------------------------------------------------------------------------
IdleRunner == [pc |-> "idle", at |-> 0, unplanned |-> {}, calls |-> <<>>,
               touched |-> {}, replaced |-> {}, pending |-> {}]
IdleCaller == [pc |-> "idle", request |-> {}, latest |-> {}, replaced |-> {}, pending |-> {}]
IdleFence  == [pc |-> "idle", root |-> {}, drained |-> {}]

Init ==
  /\ sched = EmptyScheduler
  /\ blocked = {}
  /\ batch = <<>>
  /\ registered = FALSE
  /\ rows = <<>>
  /\ runner = IdleRunner
  /\ caller = [c \in Callers |-> IdleCaller]
  /\ fence = IdleFence
  /\ unreported = {}
  /\ outdated = {}
  /\ published = {}

CanNumber == sched.generation < MaxGeneration

(* mark_superseded_results has come to the result, for the last time it is    *)
(* compared with what is pending.  Unmarked are the tasks it has not come to. *)
LookedAt(i) ==
  \/ runner.pc \in {"following", "reporting", "queued", "publishing"}
  \/ runner.pc = "marking" /\ i < runner.at

Unmarked ==
  {t \in {batch[i].task : i \in DOMAIN batch} :
     \A i \in DOMAIN batch : batch[i].task = t => ~LookedAt(i)}

Scheduled(r) ==
  LET new == PendingTasks(r.scheduler) \ PendingTasks(sched)
  IN  /\ sched' = r.scheduler
      /\ unreported' = unreported \cup new
      /\ outdated' = outdated \cup {old \in Unmarked : \E t \in new :
           /\ t.root = old.root
           /\ t.generation > old.generation
           /\ TaskSupersedesResult(t, StatusKind(old), old.reason)}

-----------------------------------------------------------------------------
(* Callers: schedule_workspace_task, schedule_sdk_index and                   *)
(* schedule_changed_path_task.  A no-op among changed paths returns at once;  *)
(* the others go on whether or not the scheduler took the task.  An open also *)
(* schedules what the resume table holds, which is continuations only: an     *)
(* instance that asks for those asks for no open.                             *)

Requests(root) ==
  {t \in WorkspaceRequests(root) \cup PathRequests(root) :
     /\ t.reason \in Asked
     /\ t.kind = "open-workspace" => Asked \cap ContinuationReasons = {}}

Schedule(c) ==
  /\ caller[c].pc = "idle" /\ CanNumber
  /\ \E root \in Roots : \E t \in Requests(root) :
       /\ LET r == ScheduleWithResult(sched, t) IN
          /\ Scheduled(r)
          /\ caller' = [caller EXCEPT ![c] =
               IF t.kind = "changed-paths" /\ ~r.scheduled THEN IdleCaller
               ELSE [IdleCaller EXCEPT !.pc = "lookup", !.request = {t}, !.replaced = r.superseded]]
  /\ UNCHANGED <<blocked, batch, registered, rows, runner, fence, published>>

(* cancel_active_tasks_superseded_by_*: first the scheduler lock ... *)
Lookup(c) ==
  /\ caller[c].pc = "lookup"
  /\ LET same == {t \in PendingTasks(sched) : \E asked \in caller[c].request : SameWork(t, asked)}
     IN  caller' = [caller EXCEPT ![c].pc = IF same = {} THEN "replaced" ELSE "cancel",
                                  ![c].latest = IF same = {} THEN {} ELSE {Latest(same)}]
  /\ UNCHANGED <<sched, blocked, batch, registered, rows, runner, fence, history>>

(* ... then the lock of the registry. *)
Cancel(c) ==
  /\ caller[c].pc = "cancel"
  /\ CancelAt({i \in DOMAIN batch : \E newer \in caller[c].latest : CancelsActive(newer, batch[i].task)})
  /\ caller' = [caller EXCEPT ![c].pc = "replaced"]
  /\ UNCHANGED <<sched, blocked, registered, rows, runner, fence, history>>

(* An SDK request says cancelled of the tasks it replaced, the others say     *)
(* superseded.  A journal that fails ends the call after the row it failed on.*)
ReplacedState(c) ==
  IF \E t \in caller[c].request : t.kind = "sdk" THEN "cancelled" ELSE "superseded"

StoreReplaced(c) ==
  /\ caller[c].pc = "replaced"
  /\ rows' = WithRows(rows, caller[c].replaced, ReplacedState(c))
  /\ Reported(caller[c].replaced)
  /\ caller' = [caller EXCEPT ![c].pc = "snapshot", ![c].replaced = {}]
  /\ UNCHANGED <<sched, blocked, batch, registered, runner, fence, outdated, published>>

StoreReplacedFails(c) ==
  /\ JournalMayFail
  /\ caller[c].pc = "replaced" /\ caller[c].replaced # {}
  /\ \E some \in (SUBSET caller[c].replaced) \ {{}} :
       rows' = WithRows(rows, some, ReplacedState(c))
  /\ Reported(caller[c].replaced)
  /\ caller' = [caller EXCEPT ![c] = IdleCaller]
  /\ UNCHANGED <<sched, blocked, batch, registered, runner, fence, outdated, published>>

(* store_pending_statuses: a snapshot under the scheduler lock, written to    *)
(* the rows under theirs.                                                     *)
Snapshot(c) ==
  /\ caller[c].pc = "snapshot"
  /\ caller' = [caller EXCEPT ![c].pc = "queued",
                              ![c].pending = {t \in PendingTasks(sched) :
                                 \E asked \in caller[c].request : t.root = asked.root}]
  /\ UNCHANGED <<sched, blocked, batch, registered, rows, runner, fence, history>>

StoreQueued(c) ==
  /\ caller[c].pc = "queued"
  /\ rows' = WithRows(rows, caller[c].pending, "queued")
  /\ caller' = [caller EXCEPT ![c] = IdleCaller]
  /\ UNCHANGED <<sched, blocked, batch, registered, runner, fence, history>>

-----------------------------------------------------------------------------
(* The runner: run_index_worker_once_with_events_and_ui_activity.             *)

(* Delays elapse while nobody looks: a drain finds the retries due or not. *)
AllDue(s) == [s EXCEPT !.delayed = [i \in DOMAIN @ |-> [@[i] EXCEPT !.wait = 0]]]

DrainBatch ==
  /\ runner.pc = "idle"
  /\ \E s \in {sched, AllDue(sched)} :
       LET d == DrainReadyBatch(s, BatchSize) IN
       /\ d.batch # <<>>
       /\ sched' = d.scheduler
       /\ batch' = [i \in DOMAIN d.batch |->
                      [task |-> d.batch[i], cancelled |-> FALSE, result |-> "none"]]
  /\ runner' = [runner EXCEPT !.pc = "drained"]
  /\ UNCHANGED <<blocked, registered, rows, caller, fence, history>>

StartCancellableTasks ==
  /\ runner.pc = "drained"
  /\ registered' = TRUE
  /\ runner' = [runner EXCEPT !.pc = "registered"]
  /\ UNCHANGED <<sched, blocked, batch, rows, caller, fence, history>>

(* Mutant: the fence is not looked at again. *)
GuardedUnchecked(entry) == entry

Guarded(entry) ==
  IF entry.task.root \in blocked THEN [entry EXCEPT !.cancelled = TRUE] ELSE entry

CancelBlockedTasks ==
  /\ runner.pc = "registered"
  /\ batch' = [i \in DOMAIN batch |-> Guarded(batch[i])]
  /\ runner' = [runner EXCEPT !.pc = "starting", !.at = 1]
  /\ UNCHANGED <<sched, blocked, registered, rows, caller, fence, history>>

SupersededByLaterInBatch(i) ==
  \E j \in DOMAIN batch : j > i /\ CancelsActive(batch[j].task, batch[i].task)

Current == batch[runner.at]

(* The result of the current task is known: on to the next one. *)
Finish(result) ==
  /\ batch' = [batch EXCEPT ![runner.at].result = result]
  /\ runner' = [runner EXCEPT !.at = @ + 1,
                              !.pc = IF runner.at = Len(batch) THEN "ran" ELSE "starting"]

RunEnds ==
  /\ outdated' = {}
  /\ batch' = <<>> /\ registered' = FALSE
  /\ runner' = IdleRunner

SkipTask ==
  /\ runner.pc = "starting"
  /\ SupersededByLaterInBatch(runner.at)
  /\ Finish("superseded")
  /\ UNCHANGED <<sched, blocked, registered, rows, caller, fence, history>>

StartTask ==
  /\ runner.pc = "starting"
  /\ ~SupersededByLaterInBatch(runner.at)
  /\ rows' = WithRow(rows, RowId(Current.task), "running")
  /\ runner' = [runner EXCEPT !.pc = "checking"]
  /\ UNCHANGED <<sched, blocked, batch, registered, caller, fence, history>>

(* on_status fails: the loop ends, the results so far are dropped and the     *)
(* rest of the batch never runs.                                              *)
StartTaskFails ==
  /\ JournalMayFail
  /\ runner.pc = "starting"
  /\ ~SupersededByLaterInBatch(runner.at)
  /\ rows' = WithRow(rows, RowId(Current.task), "running")
  /\ Reported({batch[i].task : i \in DOMAIN batch})
  /\ RunEnds
  /\ UNCHANGED <<sched, blocked, caller, fence, published>>

CheckToken ==
  /\ runner.pc = "checking"
  /\ IF Current.cancelled
     THEN Finish("superseded")
     ELSE /\ runner' = [runner EXCEPT !.pc = "working"]
          /\ UNCHANGED batch
  /\ UNCHANGED <<sched, blocked, registered, rows, caller, fence, history>>

(* run_index_task: "ready" stands for ready, partial and skipped, "reloaded"  *)
(* for a watcher task that found a project configuration changed.  A task     *)
(* that sees its token cancelled on the way is superseded, and so is a        *)
(* discovery the indexer process cancelled.  The deep update of a continuation *)
(* that is cancelled, or whose publication finds a newer layer, has no result *)
(* at all: "dropped".                                                         *)
Work ==
  /\ runner.pc = "working"
  /\ \/ Finish("ready")
     \/ Finish("failed")
     \/ Current.task.reason = "watcher" /\ Finish("reloaded")
     \/ /\ Current.cancelled \/ Current.task.reason \in DiscoveryReasons
        /\ Finish("superseded")
     \/ Current.task.reason \in DeepReasons /\ Finish("dropped")
  /\ UNCHANGED <<sched, blocked, registered, rows, caller, fence, history>>

FinishCancellableTasks ==
  /\ runner.pc = "ran"
  /\ registered' = FALSE
  /\ batch' = [i \in DOMAIN batch |-> [batch[i] EXCEPT !.cancelled = FALSE]]
  /\ runner' = [runner EXCEPT !.pc = "marking", !.at = 1]
  /\ UNCHANGED <<sched, blocked, rows, caller, fence, history>>

(* Mutant: only a request of the same kind makes a result stale. *)
HasNewerPendingOfItsKind(entry) ==
  \E t \in PendingTasksForRoot(sched, entry.task.root) :
    /\ ~ShouldPublishTaskResult(entry.task.generation, t.generation)
    /\ t.kind = entry.task.kind /\ t.reason = ResultReason(entry)

HasNewerPendingTask(entry) ==
  \E t \in PendingTasksForRoot(sched, entry.task.root) :
    /\ ~ShouldPublishTaskResult(entry.task.generation, t.generation)
    /\ TaskSupersedesResult(t, ResultId(entry)[2], ResultReason(entry))

MarkSupersededResult ==
  /\ runner.pc = "marking"
  /\ batch' = [batch EXCEPT ![runner.at].result =
                 IF @ # "dropped" /\ HasNewerPendingTask(Current) THEN "superseded" ELSE @]
  /\ runner' = IF runner.at = Len(batch)
               THEN [runner EXCEPT !.pc = "following", !.at = 0, !.unplanned = DOMAIN batch]
               ELSE [runner EXCEPT !.at = @ + 1]
  /\ UNCHANGED <<sched, blocked, registered, rows, caller, fence, history>>

Plans(entry) ==
  AskedOnly(CASE entry.result = "ready" /\ entry.task.reason = "watcher" -> {<<>>}
              [] entry.result \in {"ready", "reloaded"} -> PossibleFollowUps(entry.task)
              [] entry.result \in {"failed", "dropped"}  -> {<<>>}
              [] OTHER                                  -> AfterInterruption(entry.task))

(* The source goes through the results once for each sort of follow-up.  Here *)
(* they come in any order, that one among them.                               *)
PlanFollowUps ==
  /\ runner.pc = "following" /\ runner.calls = <<>>
  /\ \E i \in runner.unplanned : \E plan \in Plans(batch[i]) :
       runner' = [runner EXCEPT !.calls = plan, !.unplanned = @ \ {i}]
  /\ UNCHANGED <<sched, blocked, batch, registered, rows, caller, fence, history>>

(* A continuation touches its root even when the scheduler drops the call.    *)
FollowUp ==
  /\ runner.pc = "following" /\ runner.calls # <<>>
  /\ CanNumber
  /\ LET call == Head(runner.calls)
         r    == CallResult(sched, call)
         touches == \/ r.scheduled
                    \/ call.how # "resume" /\ call.task.reason \in ContinuationReasons
     IN
     /\ Scheduled(r)
     /\ runner' = [runner EXCEPT !.calls = Tail(@),
                                 !.replaced = @ \cup r.superseded,
                                 !.touched = IF touches THEN @ \cup {call.task.root} ELSE @]
  /\ UNCHANGED <<blocked, batch, registered, rows, caller, fence, published>>

ReportReplaced ==
  /\ runner.pc = "following" /\ runner.calls = <<>> /\ runner.unplanned = {}
  /\ rows' = WithRows(rows, runner.replaced, "superseded")
  /\ Reported(runner.replaced)
  /\ runner' = [runner EXCEPT !.replaced = {},
                              !.pc = IF runner.touched = {} THEN "publishing" ELSE "reporting"]
  /\ UNCHANGED <<sched, blocked, batch, registered, caller, fence, outdated, published>>

(* The queued rows of the follow-ups go before the terminal rows of the batch. *)
SnapshotFollowUps ==
  /\ runner.pc = "reporting"
  /\ runner' = [runner EXCEPT !.pc = "queued", !.touched = {},
                 !.pending = {t \in PendingTasks(sched) : t.root \in runner.touched}]
  /\ UNCHANGED <<sched, blocked, batch, registered, rows, caller, fence, history>>

StoreFollowUps ==
  /\ runner.pc = "queued"
  /\ rows' = WithRows(rows, runner.pending, "queued")
  /\ runner' = [runner EXCEPT !.pc = "publishing", !.pending = {}]
  /\ UNCHANGED <<sched, blocked, batch, registered, caller, fence, history>>

(* The results of the roots in R become rows, root by root.                   *)
Publish(R) ==
  LET I   == {i \in DOMAIN batch : batch[i].result # "dropped" /\ batch[i].task.root \in R}
      ids == {ResultId(batch[i]) : i \in I}
  IN  /\ rows' = [id \in DOMAIN rows \cup ids |->
                    IF id \in ids
                    THEN ResultState(batch[CHOOSE i \in I : ResultId(batch[i]) = id])
                    ELSE rows[id]]
      /\ published' = published \cup
           {batch[i].task : i \in {j \in I : batch[j].result # "superseded"}}

PublishResults ==
  /\ runner.pc = "publishing"
  /\ Publish(Roots)
  /\ Reported({batch[i].task : i \in DOMAIN batch})
  /\ RunEnds
  /\ UNCHANGED <<sched, blocked, caller, fence>>

(* The resume table or the journal fails after the tasks ran: the run ends.   *)
(* Rows are written before the journal is, so that those of the failing write *)
(* stay.                                                                      *)
RunFails ==
  /\ JournalMayFail
  /\ \/ /\ runner.pc \in {"following", "reporting"}
        /\ \E some \in SUBSET runner.replaced : rows' = WithRows(rows, some, "superseded")
        /\ UNCHANGED published
     \/ /\ runner.pc = "queued"
        /\ rows' = WithRows(rows, runner.pending, "queued")
        /\ UNCHANGED published
     \/ /\ runner.pc = "publishing"
        /\ \E R \in SUBSET Roots : Publish(R)
  /\ Reported({batch[i].task : i \in DOMAIN batch} \cup runner.replaced)
  /\ RunEnds
  /\ UNCHANGED <<sched, blocked, caller, fence>>

-----------------------------------------------------------------------------
(* with_workspace_maintenance.                                               *)

BlockRoot(root) ==
  /\ fence.pc = "idle"
  /\ blocked' = blocked \cup {root}
  /\ fence' = [fence EXCEPT !.pc = "drain", !.root = {root}]
  /\ UNCHANGED <<sched, batch, registered, rows, runner, caller, history>>

DrainRoot(root) ==
  /\ fence.pc = "drain" /\ fence.root = {root}
  /\ sched' = DrainTasksForRoot(sched, root)
  /\ fence' = [fence EXCEPT !.pc = "cancel", !.drained = PendingTasksForRoot(sched, root)]
  /\ outdated' = {t \in outdated : t.root # root}
  /\ UNCHANGED <<blocked, batch, registered, rows, runner, caller, unreported, published>>

CancelRoot(root) ==
  /\ fence.pc = "cancel" /\ fence.root = {root}
  /\ CancelAt({i \in DOMAIN batch : batch[i].task.root = root})
  /\ fence' = [fence EXCEPT !.pc = "store"]
  /\ UNCHANGED <<sched, blocked, registered, rows, runner, caller, history>>

StoreCancelled ==
  /\ fence.pc = "store"
  /\ rows' = WithRows(rows, fence.drained, "cancelled")
  /\ Reported(fence.drained)
  /\ fence' = [fence EXCEPT !.pc = "operate", !.drained = {}]
  /\ UNCHANGED <<sched, blocked, batch, registered, runner, caller, outdated, published>>

(* The operation does not run when begin fails, and the root is unblocked. *)
StoreCancelledFails ==
  /\ JournalMayFail
  /\ fence.pc = "store" /\ fence.drained # {}
  /\ \E some \in (SUBSET fence.drained) \ {{}} : rows' = WithRows(rows, some, "cancelled")
  /\ Reported(fence.drained)
  /\ blocked' = blocked \ fence.root
  /\ fence' = IdleFence
  /\ UNCHANGED <<sched, batch, registered, runner, caller, outdated, published>>

FinishMaintenance ==
  /\ fence.pc = "operate"
  /\ blocked' = blocked \ fence.root
  /\ fence' = IdleFence
  /\ UNCHANGED <<sched, batch, registered, rows, runner, caller, history>>

-----------------------------------------------------------------------------
CallerStep(c) ==
  \/ Schedule(c) \/ Lookup(c) \/ Cancel(c) \/ StoreReplaced(c)
  \/ StoreReplacedFails(c) \/ Snapshot(c) \/ StoreQueued(c)

RunnerStep ==
  \/ DrainBatch \/ StartCancellableTasks \/ CancelBlockedTasks
  \/ SkipTask \/ StartTask \/ StartTaskFails \/ CheckToken \/ Work
  \/ FinishCancellableTasks \/ MarkSupersededResult
  \/ PlanFollowUps \/ FollowUp \/ ReportReplaced \/ SnapshotFollowUps \/ StoreFollowUps
  \/ PublishResults \/ RunFails

FenceStep ==
  \/ \E root \in Maintained : BlockRoot(root) \/ DrainRoot(root) \/ CancelRoot(root)
  \/ StoreCancelled \/ StoreCancelledFails \/ FinishMaintenance

Next == (\E c \in Callers : CallerStep(c)) \/ RunnerStep \/ FenceStep

Spec == Init /\ [][Next]_vars

-----------------------------------------------------------------------------
(* Properties.                                                               *)

Rows == {"queued", "running", "cancelled", "ready", "failed", "superseded"}

TypeOK ==
  /\ sched \in Schedulers
  /\ blocked \subseteq Roots
  /\ batch \in Seq([task : Tasks, cancelled : BOOLEAN,
                    result : {"none", "ready", "reloaded", "failed", "superseded", "dropped"}])
  /\ registered \in BOOLEAN
  /\ \A id \in DOMAIN rows : id \in Nat \X (Kinds \cup {"discovery"}) /\ rows[id] \in Rows
  /\ runner.pc \in {"idle", "drained", "registered", "starting", "checking", "working", "ran",
                    "marking", "following", "reporting", "queued", "publishing"}
  /\ runner.pc \in {"starting", "checking", "working", "marking"} => runner.at \in DOMAIN batch
  /\ runner.pc = "idle" <=> batch = <<>>
  /\ \A c \in Callers : /\ Cardinality(caller[c].request) <= 1
                        /\ caller[c].request = {} <=> caller[c].pc = "idle"
  /\ fence.pc \in {"idle", "drain", "cancel", "store", "operate"}
  /\ unreported \cup outdated \cup published \subseteq Tasks

(* While maintenance works on a root, no task of that root runs with a live   *)
(* token: not one that was running, not one drained and not yet registered    *)
(* when the tokens were cancelled, not one scheduled since.  And no root stays *)
(* blocked once its maintenance ended or failed to begin.                     *)
FenceHolds ==
  /\ blocked = fence.root
  /\ fence.pc \in {"store", "operate"} =>
       \A i \in DOMAIN batch :
         (/\ batch[i].task.root \in fence.root
          /\ batch[i].result = "none"
          /\ runner.pc \in {"starting", "checking", "working"}) => batch[i].cancelled

(* A task the scheduler took is pending, in the batch, or in the hands of a   *)
(* thread about to report its end, until a row says how it ended.  Only a     *)
(* write to the journal that fails, and the deep update that ends without a   *)
(* result, lose one.                                                          *)
NoTaskVanishes ==
  \A t \in unreported :
    \/ t \in PendingTasks(sched) \cup fence.drained \cup runner.replaced
    \/ \E i \in DOMAIN batch : batch[i].task = t
    \/ \E c \in DOMAIN caller : t \in caller[c].replaced

(* A result is not published as current when a request that replaces its task *)
(* was scheduled before the result was looked at (mark_superseded_results),   *)
(* unless maintenance took that request out again.  The reload of a project   *)
(* configuration is exempt: it stands whatever paths change next.             *)
OutdatedNotPublished ==
  [][\A i \in DOMAIN batch :
       batch[i].result # "reloaded" =>
         batch[i].task \notin (published' \ published) \cap outdated]_vars

(* Once the result of a task is published, be it earlier in the same batch,   *)
(* no older task it replaces is published after it: the rows and the store do *)
(* not go back.  Continuations keep the number of the task they continue and  *)
(* are exempt.                                                                *)
NewestPublishedLast ==
  [][\A i \in DOMAIN batch :
       LET t     == batch[i].task
           first == published \cup
                      {batch[j].task : j \in {k \in 1..(i - 1) : batch[k].task \in published'}}
       IN  (/\ t \in published' \ published
            /\ t.reason \notin DeepReasons \cup DiscoveryReasons) =>
             ~\E done \in first : CancelsActive(done, t)]_vars
=============================================================================
