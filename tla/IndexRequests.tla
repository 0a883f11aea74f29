---------------------------- MODULE IndexRequests ----------------------------
(* The tasks callers build: what the commands, the file watcher and the       *)
(* resume table ask for, and what the result of a task schedules next.        *)
EXTENDS IndexQueue

CONSTANT Asked    \* bound: the reasons of the tasks callers ask for

HintPriority ==
  [reason \in {"visible-files", "foreground-completion", "foreground-navigation"} |->
     CASE reason = "visible-files"         -> VisibleFiles
       [] reason = "foreground-completion" -> ForegroundCompletion
       [] OTHER                            -> ForegroundNavigation]
PathReasons == {"watcher"} \cup DOMAIN HintPriority

Task(root, kind, priority, paths, generation, reason) ==
  [root |-> root, kind |-> kind, priority |-> priority, paths |-> paths,
   generation |-> generation, reason |-> reason]

OpenTask(root)         == Task(root, "open-workspace", ForegroundNavigation, {}, 0, "open-workspace")
RefreshTask(root, why) == Task(root, "refresh-workspace", FullRefresh, {}, 0, why)
SdkTask(root, files)   == Task(root, "sdk", SdkIndexing, files, 0, "sdk-apply")
WatcherTask(root, paths)      == Task(root, "changed-paths", ChangedFiles, paths, 0, "watcher")
HintTask(root, paths, reason) == Task(root, "changed-paths", HintPriority[reason], paths, 0, reason)
FileLayerTask(root, paths)    == Task(root, "changed-paths", FullRefresh, paths, 0, "full-refresh-files")
DeepTask(root, paths, g)      == Task(root, "changed-paths", Background, paths, g, "full-refresh-deep")
DiscoveryTask(root, pending, g) ==
  Task(root, "changed-paths", VisibleFiles, pending, g, "workspace-discovery")

SomeOf(S) == (SUBSET S) \ {{}}

WorkspaceRequests(root) == {OpenTask(root), RefreshTask(root, "refresh-workspace"), SdkTask(root, {})}
HintRequests(root, reason) == {HintTask(root, {path}, reason) : path \in Paths}
PathRequests(root) ==
  {WatcherTask(root, paths) : paths \in SomeOf(Paths)}
  \cup UNION {HintRequests(root, reason) : reason \in DOMAIN HintPriority}
ResumeRequests(root, latest) ==
  {DeepTask(root, paths, g) : paths \in SUBSET Paths, g \in 1..latest}
  \cup {FileLayerTask(root, paths) : paths \in SomeOf(Paths)}

(* What the result of t may schedule next: sequences of calls, <<>> when the  *)
(* task failed or left nothing to do.                                         *)
Call(how, t) == [how |-> how, task |-> t]

AfterOpen(t)  == {<<>>, <<Call("schedule", DiscoveryTask(t.root, {}, 0))>>}
AfterSdk(t)   == {<<>>} \cup {<<Call("schedule", SdkTask(t.root, files))>> : files \in SomeOf(Paths)}
AfterLayer(t) ==
  {<<>>}
  \cup {<<Call("schedule", FileLayerTask(t.root, paths))>> : paths \in SomeOf(Paths)}
  \cup {<<Call("schedule", DeepTask(t.root, paths, 0))>> : paths \in SomeOf(Paths)}
  \cup {<<Call("schedule", FileLayerTask(t.root, rest)),
          Call("schedule", DeepTask(t.root, done, 0))>> : rest, done \in SomeOf(Paths)}
AfterDiscovery(t) ==
  {<<>>, <<Call("schedule", RefreshTask(t.root, "background-refresh-after-open"))>>}
  \cup {<<Call("schedule", DiscoveryTask(t.root, pending, t.generation))>> : pending \in SomeOf(Paths)}
AfterDeep(t) ==
  {<<>>, <<Call("progress", DeepTask(t.root, {}, t.generation))>>,
         <<Call("retry", DeepTask(t.root, {}, t.generation))>>}

PossibleFollowUps(t) ==
  CASE t.kind = "open-workspace"          -> AfterOpen(t)
    [] t.kind = "sdk"                     -> AfterSdk(t)
    [] t.kind = "refresh-workspace"       -> AfterLayer(t)
    [] t.reason = "full-refresh-files"    -> AfterLayer(t)
    [] t.reason \in DiscoveryReasons      -> AfterDiscovery(t)
    [] t.reason \in DeepReasons           -> AfterDeep(t)
    [] t.reason = "watcher"               -> AfterOpen(t)
    [] OTHER                              -> {<<>>}

(* A superseded continuation is looked up in the resume table.                *)
AfterInterruption(t) ==
  {<<>>} \cup (IF t.reason \in ContinuationReasons THEN {<<Call("resume", t)>>} ELSE {})

AskedOnly(plans) == {plan \in plans : \A i \in DOMAIN plan : plan[i].task.reason \in Asked}

(* What such a call does to the scheduler.  The schedulers of continuations   *)
(* hold the lock over the read of the pending tasks and the call.             *)
CallResult(s, call) ==
  LET t == call.task IN
  CASE call.how = "schedule" -> ScheduleWithResult(s, t)
    [] call.how = "progress" -> ScheduleWithResult(ClearBackgroundRetry(s, t.root, t.reason), t)
    [] call.how = "retry"    -> ScheduleBackgroundRetry(s, t)
    [] call.how = "resume"   ->
         IF \E p \in PendingTasksForRoot(s, t.root) : p.kind = t.kind /\ p.reason = t.reason
         THEN Result(s, {}, FALSE)
         ELSE ScheduleWithResult(s, t)
=============================================================================
