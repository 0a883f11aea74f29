----------------------------- MODULE IndexTask -----------------------------
(* Index tasks and the rules that relate two of them: what a task is admitted *)
(* as, when two tasks coalesce, which one replaces a pending task, cancels an *)
(* active one or supersedes a result, and the documented life of a task.      *)
(* Pure definitions: no state.  Strings of the source become members of small *)
(* sets; a prefix test on a reason becomes membership in a set of reasons.    *)
EXTENDS Integers

CONSTANTS Roots,    \* workspace roots
          Paths     \* workspace paths a change can name

Kinds == {"open-workspace", "refresh-workspace", "changed-paths", "sdk"}

(* WorkspaceIndexTaskPriority derives Ord: the declaration order is the rank. *)
Background           == 0
SdkIndexing          == 1
FullRefresh          == 2
ChangedFiles         == 3
VisibleFiles         == 4
Normal               == 5
UserBlocking         == 6
ForegroundCompletion == 7
ForegroundNavigation == 8
Priorities           == Background..ForegroundNavigation

DiscoveryReasons    == {"workspace-discovery"}
DeepReasons         == {"full-refresh-deep"}
ContinuationReasons == {"full-refresh-files"} \cup DeepReasons
Reasons == {"open-workspace", "refresh-workspace", "background-refresh-after-open",
            "watcher", "visible-files", "foreground-completion",
            "foreground-navigation", "sdk-apply"}
           \cup DiscoveryReasons \cup ContinuationReasons

Tasks == [root : Roots, kind : Kinds, priority : Priorities,
          paths : SUBSET Paths, generation : Nat, reason : Reasons]

-----------------------------------------------------------------------------
(* Admission.                                                                *)

ChangedPathsAdmission(t) ==
  CASE t.priority = ForegroundCompletion -> <<"completion", "current-file">>
    [] t.priority = ForegroundNavigation -> <<"navigation", "current-file">>
    [] t.priority = VisibleFiles         -> <<"file-readiness", "current-file">>
    [] OTHER -> IF t.reason \in DeepReasons
                THEN <<"deep-content", "workspace">>
                ELSE <<"file-delta", "changed-paths">>

TaskAdmission(t) ==
  CASE t.kind = "open-workspace"    -> <<"bootstrap", "workspace">>
    [] t.kind = "refresh-workspace" -> <<"refresh", "workspace">>
    [] t.kind = "sdk"               -> <<"sdk", "sdk">>
    [] OTHER                        -> ChangedPathsAdmission(t)

TasksCanCoalesce(existing, incoming) ==
  /\ existing.root = incoming.root
  /\ existing.kind = incoming.kind
  /\ existing.reason = incoming.reason
  /\ TaskAdmission(existing) = TaskAdmission(incoming)

LatestWins(t) == TaskAdmission(t)[2] = "current-file"

-----------------------------------------------------------------------------
(* Replacement.  A pair <<new, old>>: a task of kind new replaces one of old. *)

TaskKindReplacesPending ==
  {<<"open-workspace", "open-workspace">>,
   <<"open-workspace", "refresh-workspace">>,
   <<"open-workspace", "changed-paths">>,
   <<"refresh-workspace", "refresh-workspace">>,
   <<"refresh-workspace", "changed-paths">>,
   <<"changed-paths", "changed-paths">>,
   <<"sdk", "sdk">>}

(* The label a task's status rows carry; a discovery task has one of its own, *)
(* so that the result of a discovery matches no row of the table below.       *)
StatusKind(t) ==
  IF t.kind = "changed-paths" /\ t.reason \in DiscoveryReasons
  THEN "discovery"
  ELSE t.kind

TaskKindSupersedesResult(kind, resultKind) == <<kind, resultKind>> \in TaskKindReplacesPending

TaskSupersedesResult(t, resultKind, resultReason) ==
  /\ TaskKindSupersedesResult(t.kind, resultKind)
  /\ \/ t.kind # "changed-paths"
     \/ resultKind # "changed-paths"
     \/ t.reason = resultReason

TaskSupersedesActive(t, activeKind, activeReason) ==
  /\ <<t.kind, activeKind>> \in TaskKindReplacesPending
  /\ \/ t.kind # "changed-paths"
     \/ activeKind # "changed-paths"
     \/ t.reason = activeReason

-----------------------------------------------------------------------------
(* The life of a task (workspace_index_state_machine_service).               *)

TaskStates     == {"queued", "running", "cancelling", "cancelled", "ready",
                   "partial", "failed", "superseded"}
TerminalStates == {"cancelled", "ready", "partial", "failed", "superseded"}

IsAllowedTransition(current, next) ==
  CASE current = "queued"     -> next \in {"running", "cancelled", "superseded"}
    [] current = "running"    -> next \in {"cancelling", "ready", "partial",
                                           "failed", "superseded"}
    [] current = "cancelling" -> next \in {"cancelled", "failed"}
    [] OTHER                  -> FALSE

ShouldPublishTaskResult(resultGeneration, latestGeneration) ==
  resultGeneration >= latestGeneration
=============================================================================
