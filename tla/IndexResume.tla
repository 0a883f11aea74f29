----------------------------- MODULE IndexResume -----------------------------
(* How the deep refresh of a workspace gets through all its files, one page   *)
(* of one phase in a turn of the worker, and what of it survives a crash.     *)
(* Memory: the scheduler and the one task that runs.  Database: the catalog   *)
(* of a deep refresh, its checkpoint, the resume table and the newest         *)
(* generation of the task journal.  One action is one transaction of the      *)
(* database or what is done under the lock of the scheduler.  The refreshes   *)
(* have one reason here, so only a newer task of that reason supersedes a     *)
(* catalog.                                                                   *)
EXTENDS IndexRequests, Functions

CONSTANTS ChunkSize,     \* files of the file layer in a turn
          PageSize,      \* files of the deep layer in a turn
          MaxEvents      \* bound: the Events, together

ASSUME ResumeAssumption ==
  /\ Cardinality(Roots) = 1
  /\ Paths \subseteq Nat \ {0} /\ Paths # {} /\ IsFiniteSet(Paths)    \* a path is its file_id
  /\ ChunkSize \in Nat \ {0} /\ PageSize \in Nat \ {0}
  /\ MaxEvents \in Nat

VARIABLES queue,       \* the scheduler
          pc,          \* where the worker is; "down" while no process runs
          task,        \* the task it runs, if any
          cancelled,   \* whether the token of that task is cancelled
          result,      \* what came out of it: [status, calls]
          opener,      \* where open_workspace_index is
          catalogs,    \* the active catalogs: [generation, files]
          checkpoint,  \* the checkpoint, if any: [generation, phase, last]
          rows,        \* the resume table
          journal,     \* the newest generation of the task journal
          \* History and bounds.
          indexed,     \* the files each phase indexed since the catalog was made
          complete,    \* the catalog that was completed, until another is made
          count        \* how often each of the Events happened

memory   == <<queue, task, cancelled, result, opener>>
database == <<catalogs, checkpoint, rows, journal>>
history  == <<indexed, complete, count>>
(* What disturbs a refresh: an open of the workspace while it is open, a      *)
(* refresh asked for, a turn given away, a task that fails, a crash.          *)
Events == {"open", "refresh", "yield", "failure", "crash"}

refreshVars ==
  <<queue, pc, task, cancelled, result, opener, catalogs, checkpoint, rows, journal,
    indexed, complete, count>>

Phases == {"stub", "content", "substring"}
After  == [phase \in {"stub", "content"} |-> IF phase = "stub" THEN "content" ELSE "substring"]

Root     == CHOOSE r \in Roots : TRUE
Outcomes == {"none", "superseded", "skipped", "ready", "continued", "partial", "failed"}
NoResult == [status |-> "none", calls |-> <<>>]

ResumeInit ==
  /\ queue = EmptyScheduler
  /\ pc = "down" /\ task = {} /\ cancelled = FALSE /\ result = NoResult
  /\ opener = "idle"
  /\ catalogs = {} /\ checkpoint = {} /\ rows = {} /\ journal = 0
  /\ indexed = [phase \in Phases |-> {}] /\ complete = {}
  /\ count = [e \in Events |-> 0]

Happens(e) ==
  /\ count' = [count EXCEPT ![e] = @ + 1]
  /\ FoldFunction(LAMBDA a, b : a + b, 0, count') <= MaxEvents

(* The n smallest of a set of paths, and the rest. *)
Leading(S, n) == {f \in S : Cardinality({g \in S : g < f}) < n}
Newest(tasks, g) == CHOOSE n \in {g} \cup {t.generation : t \in tasks} :
                      \A t \in tasks : n >= t.generation /\ n >= g

-----------------------------------------------------------------------------
(* The resume table: one row for a kind and a reason.                         *)

Row(reason) == {t \in rows : t.reason = reason}

(* A first deep task brings the paths of its catalog; one that goes on needs  *)
(* the checkpoint of a catalog that is still active.                          *)
Recoverable(t) ==
  \/ t.reason \notin DeepReasons
  \/ t.paths # {}
  \/ \E c \in checkpoint, k \in catalogs : c.generation = k.generation

(* schedule_and_save: the pending task of that reason is saved, and of two    *)
(* the ready one.                                                             *)
Pending(s, reason) ==
  LET ready == {i \in DOMAIN s.tasks : s.tasks[i].reason = reason}
      later == {i \in DOMAIN s.delayed : s.delayed[i].task.reason = reason}
  IN  IF ready # {} THEN s.tasks[First(ready)] ELSE s.delayed[First(later)].task

(* Mutant: a task that goes on is not saved. *)
SavedFirst(r, t) ==
  IF r.scheduled /\ t.reason \in ContinuationReasons /\ t.paths # {}
  THEN {Pending(r.scheduler, t.reason)} \cup (rows \ Row(t.reason))
  ELSE rows

Saved(r, t) ==
  IF r.scheduled /\ t.reason \in ContinuationReasons
  THEN {Pending(r.scheduler, t.reason)} \cup (rows \ Row(t.reason))
  ELSE rows

-----------------------------------------------------------------------------
(* Callers: open_workspace_index in two steps, and refresh_workspace_index.   *)
(* The rows of the journal are written with the schedule they follow.         *)

Registered == {"running", "superseding", "forgetting", "creating", "starting",
               "paging", "advancing"}
Cancels(t) ==
  cancelled' = (cancelled \/ (pc \in Registered /\ \E old \in task :
                                 t.generation > old.generation /\ TaskSupersedesActive(t, old.kind, old.reason)))

Asks(s, t) ==
  \E r \in {ScheduleWithResult(s, t)} :
      /\ queue' = r.scheduler
      /\ Cancels([t EXCEPT !.generation = r.scheduler.generation])
      /\ journal' = Newest(PendingTasks(r.scheduler), journal)

AllScheduled(s, T) ==
  IF T = {} THEN s ELSE ScheduleWithResult(s, CHOOSE t \in T : TRUE).scheduler

Open ==
  /\ opener = "idle" /\ pc # "following"
  /\ \/ pc = "down" /\ UNCHANGED count
     \/ pc # "down" /\ Happens("open")
  /\ Asks(AdvanceGenerationTo(queue, journal), OpenTask(Root))
  /\ opener' = "resuming"
  /\ UNCHANGED <<pc, task, result, catalogs, checkpoint, rows, indexed, complete>>

ScheduleStored ==
  /\ opener = "resuming" /\ pc # "following"
  /\ \E stored \in {{t \in rows : Recoverable(t)}} :
     \E first \in {{t \in stored : \A u \in stored : t.priority >= u.priority}} :
     \E then \in {AllScheduled(queue, first)} :
     \E after \in {AllScheduled(then, stored \ first)} :
        queue' = after /\ journal' = Newest(PendingTasks(after), journal)
  /\ opener' = "idle"
  /\ pc' = IF pc = "down" THEN "idle" ELSE pc
  /\ UNCHANGED <<task, cancelled, result, catalogs, checkpoint, rows, history>>

Refresh ==
  /\ opener = "idle" /\ pc \notin {"down", "following"}
  /\ Happens("refresh")
  /\ Asks(queue, RefreshTask(Root, "refresh-workspace"))
  /\ UNCHANGED <<pc, task, result, opener, catalogs, checkpoint, rows, indexed, complete>>

-----------------------------------------------------------------------------
(* The worker takes a task; each of these makes a batch of its own.           *)

TakeTask ==
  /\ pc = "idle"
  /\ \E d \in {DrainReadyBatch(queue, 1)} :
       /\ d.batch # <<>>
       /\ queue' = d.scheduler
       /\ task' = {d.batch[1]}
       /\ journal' = Larger(journal, d.batch[1].generation)
  /\ pc' = "running" /\ cancelled' = FALSE
  /\ UNCHANGED <<result, opener, catalogs, checkpoint, rows, history>>

Wait ==
  /\ pc = "idle" /\ queue.tasks = <<>> /\ queue.delayed # <<>> /\ DueAt(queue) = {}
  /\ queue' = Elapse(queue)
  /\ UNCHANGED <<pc, task, cancelled, result, opener, database, history>>

Ends(status, calls) == pc' = "marking" /\ result' = [status |-> status, calls |-> calls]

RunCancelled ==
  /\ pc = "running" /\ cancelled
  /\ Ends("superseded", <<>>)
  /\ UNCHANGED <<queue, task, cancelled, opener, database, history>>

RunOpen ==
  /\ pc = "running" /\ ~cancelled
  /\ \E t \in task :
       \/ /\ t.kind = "open-workspace"
          /\ Ends("skipped", <<Call("schedule", DiscoveryTask(Root, {}, 0))>>)
       \/ /\ t.reason \in DiscoveryReasons
          /\ Ends("ready", <<Call("schedule", RefreshTask(Root, "background-refresh-after-open"))>>)
  /\ UNCHANGED <<queue, task, cancelled, opener, database, history>>

(* Mutant: only the last chunk is handed to the deep layer. *)
RunFileLayerLast ==
  /\ pc = "running" /\ ~cancelled
  /\ \E t \in task :
       /\ t.kind = "refresh-workspace" \/ t.reason = "full-refresh-files"
       /\ LET files == IF t.kind = "refresh-workspace" THEN Paths ELSE t.paths
              chunk == Leading(files, ChunkSize)
              rest  == files \ chunk
          IN  IF rest = {} THEN Ends("ready", <<Call("schedule", DeepTask(Root, chunk, 0))>>)
              ELSE Ends("continued", <<Call("schedule", FileLayerTask(Root, rest))>>)
  /\ UNCHANGED <<queue, task, cancelled, opener, database, history>>

(* The file layer: a chunk of the files, the rest as a continuation, and the  *)
(* chunk as a first deep task.                                                *)
RunFileLayer ==
  /\ pc = "running" /\ ~cancelled
  /\ \E t \in task :
       /\ t.kind = "refresh-workspace" \/ t.reason = "full-refresh-files"
       /\ LET files == IF t.kind = "refresh-workspace" THEN Paths ELSE t.paths
              chunk == Leading(files, ChunkSize)
              rest  == files \ chunk
              deep  == Call("schedule", DeepTask(Root, chunk, 0))
          IN  IF rest = {} THEN Ends("ready", <<deep>>)
              ELSE Ends("continued", <<Call("schedule", FileLayerTask(Root, rest)), deep>>)
  /\ UNCHANGED <<queue, task, cancelled, opener, database, history>>

(* A step of the task fails, in any layer: the files cannot be read, a        *)
(* transaction is not committed, the indexer process is given up.  A failed   *)
(* task has no follow-up and is not tried again, its row stays.               *)
FailTask ==
  /\ pc \in Registered
  /\ Happens("failure")
  /\ Ends("failed", <<>>)
  /\ UNCHANGED <<queue, task, cancelled, opener, database, indexed, complete>>

-----------------------------------------------------------------------------
(* refresh_catalog_deep_layer_chunk                                           *)

Goes(how, t) == Ends("partial", <<Call(how, DeepTask(Root, {}, t.generation))>>)

(* load_or_create_cursor *)
LoadCursor ==
  /\ pc = "running" /\ ~cancelled
  /\ \E t \in task :
       /\ t.reason \in DeepReasons
       /\ IF t.paths = {}
          THEN IF checkpoint = {} THEN Ends("failed", <<>>) ELSE pc' = "paging" /\ UNCHANGED result
          ELSE pc' = (IF checkpoint = {} THEN "creating" ELSE "superseding") /\ UNCHANGED result
  /\ UNCHANGED <<queue, task, cancelled, opener, database, history>>

SupersedeCatalog ==
  /\ pc = "superseding"
  /\ catalogs' = {k \in catalogs : \A c \in checkpoint : c.generation # k.generation}
  /\ pc' = "forgetting"
  /\ UNCHANGED <<memory, checkpoint, rows, journal, history>>

ClearCursor ==
  /\ pc = "forgetting"
  /\ checkpoint' = {}
  /\ pc' = "creating"
  /\ UNCHANGED <<memory, catalogs, rows, journal, history>>

CreateCatalog ==
  /\ pc = "creating"
  /\ \E t \in task :
       /\ catalogs' = {[generation |-> t.generation, files |-> t.paths]}
       /\ checkpoint' = {c \in checkpoint : c.generation = t.generation}
  /\ indexed' = [phase \in Phases |-> {}] /\ complete' = {}
  /\ pc' = "starting"
  /\ UNCHANGED <<memory, rows, journal, count>>

StartCursor ==
  /\ pc = "starting"
  /\ \E t \in task : checkpoint' = {[generation |-> t.generation, phase |-> "stub", last |-> 0]}
  /\ pc' = "paging"
  /\ UNCHANGED <<memory, catalogs, rows, journal, history>>

Catalog(c) == {k \in catalogs : k.generation = c.generation}

Page(c) == UNION {Leading({f \in k.files : f > c.last}, PageSize) : k \in Catalog(c)}

(* Mutant: the next phase starts where this one ended. *)
NextPhaseHere ==
  /\ pc = "paging"
  /\ \E c \in checkpoint, t \in task :
       /\ Catalog(c) # {} /\ Page(c) = {} /\ c.phase # "substring"
       /\ checkpoint' = {[c EXCEPT !.phase = After[c.phase]]}
       /\ Goes("progress", t)
  /\ UNCHANGED <<queue, task, cancelled, opener, catalogs, rows, journal, history>>

NextPhase ==
  /\ pc = "paging"
  /\ \E c \in checkpoint, t \in task :
       /\ Catalog(c) # {} /\ Page(c) = {} /\ c.phase # "substring"
       /\ checkpoint' = {[c EXCEPT !.phase = After[c.phase], !.last = 0]}
       /\ Goes("progress", t)
  /\ UNCHANGED <<queue, task, cancelled, opener, catalogs, rows, journal, history>>

CompleteCatalog ==
  /\ pc = "paging"
  /\ \E c \in checkpoint :
       /\ Catalog(c) # {} /\ Page(c) = {} /\ c.phase = "substring"
       /\ catalogs' = catalogs \ Catalog(c)
       /\ complete' = Catalog(c)
  /\ checkpoint' = {}
  /\ Ends("ready", <<>>)
  /\ UNCHANGED <<queue, task, cancelled, opener, rows, journal, indexed, count>>

(* Mutant: a turn that is given away is not asked for again. *)
YieldSkipped ==
  /\ pc = "paging"
  /\ Happens("yield")
  /\ \E c \in checkpoint : Page(c) # {} /\ Ends("skipped", <<>>)
  /\ UNCHANGED <<queue, task, cancelled, opener, database, indexed, complete>>

(* The editor is in use, or the indexer process is not there. *)
Yield ==
  /\ pc = "paging"
  /\ Happens("yield")
  /\ \E c \in checkpoint, t \in task : Page(c) # {} /\ Goes("retry", t)
  /\ UNCHANGED <<queue, task, cancelled, opener, database, indexed, complete>>

(* A cancelled page has no result. *)
CancelPage ==
  /\ pc = "paging" /\ cancelled
  /\ \E c \in checkpoint : Page(c) # {}
  /\ pc' = "idle" /\ task' = {}
  /\ UNCHANGED <<queue, cancelled, result, opener, database, history>>

ApplyPage ==
  /\ pc = "paging" /\ ~cancelled
  /\ \E c \in checkpoint : Page(c) # {} /\ indexed' = [indexed EXCEPT ![c.phase] = @ \cup Page(c)]
  /\ pc' = "advancing"
  /\ UNCHANGED <<memory, database, complete, count>>

AdvanceCursor ==
  /\ pc = "advancing"
  /\ \E c \in checkpoint, t \in task :
       /\ checkpoint' = {[c EXCEPT !.last = CHOOSE f \in Page(c) : \A g \in Page(c) : f >= g]}
       /\ Goes("progress", t)
  /\ UNCHANGED <<queue, task, cancelled, opener, catalogs, rows, journal, history>>

-----------------------------------------------------------------------------
(* run_index_worker_once after the task: the result is compared with what is  *)
(* pending, the row it consumed is cleared, the follow-ups are scheduled and  *)
(* saved, an interrupted continuation is scheduled again.                     *)

MarkSuperseded ==
  /\ pc = "marking"
  /\ result' = IF \E t \in task : \E p \in PendingTasks(queue) :
                    /\ ~ShouldPublishTaskResult(t.generation, p.generation)
                    /\ TaskSupersedesResult(p, StatusKind(t), t.reason)
               THEN [status |-> "superseded", calls |-> <<>>] ELSE result
  /\ pc' = "clearing"
  /\ UNCHANGED <<queue, task, cancelled, opener, database, history>>

ClearRow ==
  /\ pc = "clearing"
  /\ rows' = IF result.status \in {"ready", "skipped", "partial"}
             THEN {r \in rows : \A t \in task : r.reason # t.reason} ELSE rows
  /\ pc' = "following"
  /\ UNCHANGED <<memory, catalogs, checkpoint, journal, history>>

ScheduleNext ==
  /\ pc = "following" /\ result.calls # <<>>
  /\ \E r \in {CallResult(queue, Head(result.calls))} :
       queue' = r.scheduler /\ rows' = Saved(r, Head(result.calls).task)
  /\ result' = [result EXCEPT !.calls = Tail(@)]
  /\ UNCHANGED <<pc, task, cancelled, opener, catalogs, checkpoint, journal, history>>

Interrupted ==
  {r \in rows : /\ result.status = "superseded" /\ Recoverable(r)
                /\ \E t \in task : r.reason = t.reason}

ScheduleInterrupted ==
  /\ pc = "following" /\ result.calls = <<>>
  /\ \E after \in {s \in {queue} : Interrupted = {}}
                    \cup {CallResult(queue, Call("resume", t)).scheduler : t \in Interrupted} :
       queue' = after /\ journal' = Newest(PendingTasks(after), journal)
  /\ pc' = "idle" /\ task' = {} /\ result' = NoResult
  /\ UNCHANGED <<cancelled, opener, catalogs, checkpoint, rows, history>>

Crash ==
  /\ pc # "down"
  /\ Happens("crash")
  /\ queue' = EmptyScheduler
  /\ pc' = "down" /\ task' = {} /\ cancelled' = FALSE /\ result' = NoResult /\ opener' = "idle"
  /\ UNCHANGED <<database, indexed, complete>>

-----------------------------------------------------------------------------
DeepLayer ==
  \/ LoadCursor \/ SupersedeCatalog \/ ClearCursor \/ CreateCatalog \/ StartCursor
  \/ NextPhase \/ CompleteCatalog \/ Yield \/ CancelPage \/ ApplyPage
  \/ AdvanceCursor
Worker ==
  \/ TakeTask \/ Wait \/ RunCancelled \/ RunOpen \/ RunFileLayer \/ FailTask
  \/ DeepLayer \/ MarkSuperseded \/ ClearRow \/ ScheduleNext \/ ScheduleInterrupted

ResumeNext == Open \/ ScheduleStored \/ Refresh \/ Worker \/ Crash
ResumeSpec == ResumeInit /\ [][ResumeNext]_refreshVars

(* The loop of the worker goes on and open_workspace_index returns; nobody    *)
(* has to open the workspace again after a crash.                             *)
FairSpec == ResumeSpec /\ WF_refreshVars(Worker \/ ScheduleStored)

-----------------------------------------------------------------------------
Catalogs    == [generation : Nat, files : SUBSET Paths]
Checkpoints == [generation : Nat, phase : Phases, last : Paths \cup {0}]
FollowUps   == [how : {"schedule", "progress", "retry"}, task : Tasks]

ResumeTypeOK ==
  /\ queue \in Schedulers /\ journal \in Nat
  /\ pc \in Registered \cup {"down", "idle", "marking", "clearing", "following"}
  /\ opener \in {"idle", "resuming"} /\ cancelled \in BOOLEAN
  /\ task \in SUBSET Tasks /\ \A t, u \in task : t = u
  /\ result \in [status : Outcomes, calls : Seq(FollowUps)]
  /\ catalogs \in SUBSET Catalogs /\ \A k, l \in catalogs : k = l
  /\ checkpoint \in SUBSET Checkpoints /\ \A c, d \in checkpoint : c = d
  /\ rows \in SUBSET {t \in Tasks : t.reason \in ContinuationReasons}
  /\ \A r, s \in rows : r.reason = s.reason => r = s
  /\ indexed \in [Phases -> SUBSET Paths] /\ complete \in SUBSET Catalogs
  /\ count \in [Events -> Nat]

(* A catalog is complete only when every phase has indexed every file of it,  *)
(* whatever crashed, was cancelled or yielded on the way, and no phase starts *)
(* before the previous one is through (refresh_catalog_deep_layer_chunk,      *)
(* complete_deep_refresh_catalog).  The order is that of the code; the plans  *)
(* of 2026-08-09 and 2026-08-11 have content before stub.                     *)
PhasesThrough ==
  /\ \A k \in complete, phase \in Phases : k.files \subseteq indexed[phase]
  /\ \A k \in catalogs, phase \in {"stub", "content"} :
       indexed[After[phase]] # {} => k.files \subseteq indexed[phase]

(* The worker never loses a deep refresh: between two tasks, one that is not  *)
(* through is pending, or a task is that starts it over, unless a task failed *)
(* (run_index_worker_once, mark_superseded_results,                           *)
(* schedule_interrupted_resume_tasks).                                        *)
DeepRow == \E r \in rows : r.reason \in DeepReasons /\ Recoverable(r)
Failed  == count["failure"] > 0

NeverDropped ==
  pc = "idle" /\ opener = "idle" /\ catalogs # {} =>
    \/ \E t \in PendingTasks(queue) :
         t.kind # "changed-paths" \/ t.reason \in DiscoveryReasons \cup ContinuationReasons
    \/ Failed

(* Until the workspace is opened a second time or crashes, the row is there   *)
(* between two tasks, whatever yields, fails or is superseded, for that open  *)
(* to go on from (schedule_and_save, clear_completed_resume_tasks).  Only a   *)
(* turn given away a second time, around a refresh, is not saved: its retry   *)
(* is dropped as a duplicate of the older one that still waits.               *)
SavedBetweenTasks ==
  /\ pc = "idle" /\ catalogs # {} /\ count["open"] + count["crash"] = 0
  /\ count["refresh"] = 0 \/ count["yield"] <= 1
  => DeepRow

(* While no process runs, a deep refresh that is not through has a row from   *)
(* which the next open goes on.                                               *)
Resumable == pc = "down" /\ catalogs # {} => DeepRow

(* Unless it crashes and is never opened again, or a task fails, the          *)
(* workspace ends with a complete catalog of all its files, however often it  *)
(* is interrupted on the way.                                                 *)
Converges == <>[](pc = "down" \/ Failed \/ \E k \in complete : k.files = Paths)
=============================================================================
