----------------------------- MODULE IndexQueue -----------------------------
(* The value a WorkspaceIndexScheduler holds and its methods, as operators    *)
(* from a scheduler value to the value the method leaves and what it returns. *)
(* IndexScheduler drives them alone; IndexManager calls them under its locks. *)
(* Time is counted in units of the base retry delay (250 ms): a delayed entry *)
(* carries the units left until its ready_at.  Two counters that the source   *)
(* lets grow stop here at the value past which no reader tells them apart:    *)
(* the burst at its limit, the attempts where the delay stops doubling.       *)
EXTENDS IndexTask, FiniteSets, Sequences

CONSTANT ForegroundBurstLimit    \* foreground batches in a row, 3 in the source

ASSUME BurstAssumption == ForegroundBurstLimit \in Nat \ {0}

MaxDelay             == 20     \* 5 s
LastDoubling         == 5      \* the attempt with the longest delay

Delayed    == [task : Tasks, wait : Nat]
Schedulers == [generation : Nat, tasks : Seq(Tasks), delayed : Seq(Delayed),
               attempts : [Roots \X Reasons -> Nat], burst : Nat]

EmptyScheduler ==
  [generation |-> 0, tasks |-> <<>>, delayed |-> <<>>,
   attempts |-> [key \in Roots \X Reasons |-> 0], burst |-> 0]

-----------------------------------------------------------------------------
(* Sequences by position.                                                    *)

Larger(m, n)  == IF m >= n THEN m ELSE n
Smaller(m, n) == IF m <= n THEN m ELSE n

(* The elements of s at the positions in I, in the order R puts them: R holds *)
(* the pairs <<i, j>> of positions such that i comes before j.                *)
Rank(I, R, i) == Cardinality({j \in I : <<j, i>> \in R}) + 1
At(I, R, k)   == CHOOSE i \in I : Rank(I, R, i) = k
Arrange(s, I, R) == [k \in 1..Cardinality(I) |-> s[At(I, R, k)]]

Keep(s, I) == Arrange(s, I, {p \in I \X I : p[1] < p[2]})

First(I) == CHOOSE i \in I : \A j \in I : i <= j

(* slice::sort_by is stable: equal keys stay in their order. *)
Precedes(q, i, j) ==
  \/ q[i].priority > q[j].priority
  \/ /\ q[i].priority = q[j].priority
     /\ \/ q[i].generation < q[j].generation
        \/ q[i].generation = q[j].generation /\ i < j

ByPriority(q) ==
  Arrange(q, DOMAIN q, {p \in (DOMAIN q) \X (DOMAIN q) : Precedes(q, p[1], p[2])})

-----------------------------------------------------------------------------
(* Classes of tasks.                                                         *)

IsForegroundBurst(p)  == p \in {VisibleFiles, ForegroundCompletion, ForegroundNavigation}
IsBackgroundTurn(p)   == p <= FullRefresh
IsSingleUnitBatch(p)  == p \in {FullRefresh, Background, VisibleFiles} \/ p >= ForegroundCompletion

IsEmptyNoop(t) ==
  /\ t.kind = "changed-paths"
  /\ t.paths = {}
  /\ t.reason \notin DiscoveryReasons \cup DeepReasons

PreservesContinuationGeneration(t) ==
  /\ t.kind = "changed-paths"
  /\ t.generation # 0
  /\ \/ t.reason \in DiscoveryReasons /\ t.paths # {}
     \/ t.reason \in DeepReasons

IsChangedPathNoop(existing, t) ==
  /\ t.priority <= existing.priority
  /\ t.paths \subseteq existing.paths

-----------------------------------------------------------------------------
(* Scheduling.  A method returns the scheduler it leaves, the pending tasks   *)
(* it replaced, and whether it scheduled anything.                            *)

Result(s, superseded, scheduled) ==
  [scheduler |-> s, superseded |-> superseded, scheduled |-> scheduled]

AdvanceGenerationTo(s, g) == [s EXCEPT !.generation = Larger(@, g)]

(* Mutant: the counter is read before it is raised. *)
NumberedLate(s, t) == [t EXCEPT !.generation = s.generation]

Numbered(s, t) == [t EXCEPT !.generation = s.generation + 1]
Stamped(s, t)  == IF PreservesContinuationGeneration(t) THEN t ELSE Numbered(s, t)

(* Mutant: every task of a slot replaces the pending one wholesale. *)
CoalescedWholesale(existing, t) == t

Coalesced(existing, t) ==
  IF LatestWins(t)
  THEN t
  ELSE [existing EXCEPT !.paths      = @ \cup t.paths,
                        !.generation = t.generation,
                        !.priority   = Larger(@, t.priority)]

CoalescesAt(q, t) ==
  IF t.kind = "changed-paths" THEN {i \in DOMAIN q : TasksCanCoalesce(q[i], t)} ELSE {}

(* Mutant: a workspace task replaces pending tasks of its own kind only. *)
ReplacesOwnKind(t, existing) ==
  existing.root = t.root /\ t.kind # "changed-paths" /\ t.kind = existing.kind

Replaces(t, existing) ==
  /\ existing.root = t.root
  /\ t.kind # "changed-paths"
  /\ <<t.kind, existing.kind>> \in TaskKindReplacesPending

ScheduleCoalesced(s, t, i) ==
  LET new == Coalesced(s.tasks[i], Numbered(s, t))
  IN  Result([s EXCEPT !.generation = @ + 1, !.tasks[i] = new], {s.tasks[i]}, TRUE)

(* Mutant: the replaced tasks are dropped and not handed back. *)
ScheduleAppendedSilently(s, t) ==
  LET new  == Stamped(s, t)
      kept == {i \in DOMAIN s.tasks : ~Replaces(new, s.tasks[i])}
  IN  Result([s EXCEPT !.generation = Larger(@, new.generation),
                       !.tasks = Append(Keep(@, kept), new)], {}, TRUE)

ScheduleAppended(s, t) ==
  LET new  == Stamped(s, t)
      kept == {i \in DOMAIN s.tasks : ~Replaces(new, s.tasks[i])}
  IN  Result([s EXCEPT !.generation = Larger(@, new.generation),
                       !.tasks = Append(Keep(@, kept), new)],
             {s.tasks[i] : i \in DOMAIN s.tasks \ kept},
             TRUE)

ScheduleWithResult(s, t) ==
  LET matches == CoalescesAt(s.tasks, t)
      i       == First(matches)
  IN  IF \/ IsEmptyNoop(t)
         \/ matches # {} /\ IsChangedPathNoop(s.tasks[i], t)
      THEN Result(s, {}, FALSE)
      ELSE IF matches # {} THEN ScheduleCoalesced(s, t, i) ELSE ScheduleAppended(s, t)

(* In units of the base delay: 1, 2, 4, 8, 16, 16, ... *)
BackgroundRetryDelay(attempt) ==
  Smaller(2 ^ Smaller(Larger(attempt - 1, 0), 4), MaxDelay)

RetryCoalesced(s, t, i, delay) ==
  LET new == Coalesced(s.delayed[i].task, Numbered(s, t))
  IN  Result([s EXCEPT !.generation = @ + 1,
                       !.delayed[i] = [task |-> new, wait |-> delay]],
             {s.delayed[i].task}, TRUE)

RetryAppended(s, t, delay) ==
  LET new == Stamped(s, t)
  IN  Result([s EXCEPT !.generation = Larger(@, new.generation),
                       !.delayed = Append(@, [task |-> new, wait |-> delay])],
             {}, TRUE)

(* Mutant: a retry does not look at those that wait. *)
ScheduleBackgroundRetryApart(s, t) ==
  LET counted == [s EXCEPT !.attempts[<<t.root, t.reason>>] = Smaller(@ + 1, LastDoubling)]
  IN  RetryAppended(counted, t, BackgroundRetryDelay(counted.attempts[<<t.root, t.reason>>]))

(* The attempt is counted before the no-op test: a retry that is dropped as a *)
(* duplicate still lengthens the delay of the next one.                       *)
ScheduleBackgroundRetry(s, t) ==
  LET counted == [s EXCEPT !.attempts[<<t.root, t.reason>>] = Smaller(@ + 1, LastDoubling)]
      delay   == BackgroundRetryDelay(counted.attempts[<<t.root, t.reason>>])
      matches == {i \in DOMAIN s.delayed : TasksCanCoalesce(s.delayed[i].task, t)}
      i       == First(matches)
  IN  IF matches # {}
      THEN IF IsChangedPathNoop(s.delayed[i].task, t)
           THEN Result(counted, {}, FALSE)
           ELSE RetryCoalesced(counted, t, i, delay)
      ELSE RetryAppended(counted, t, delay)

ClearBackgroundRetry(s, root, reason) == [s EXCEPT !.attempts[<<root, reason>>] = 0]

Sooner(entry) == [entry EXCEPT !.wait = Larger(@ - 1, 0)]
Elapse(s)     == [s EXCEPT !.delayed = [i \in DOMAIN @ |-> Sooner(@[i])]]

-----------------------------------------------------------------------------
(* Draining.                                                                 *)

DueAt(s)      == {i \in DOMAIN s.delayed : s.delayed[i].wait = 0}
TaskOf(d)     == [i \in DOMAIN d |-> d[i].task]
PromoteReadyDelayedTasks(s) ==
  [s EXCEPT !.tasks   = @ \o TaskOf(Keep(s.delayed, DueAt(s))),
            !.delayed = Keep(@, DOMAIN @ \ DueAt(s))]

Swapped(q, i, j) == [q EXCEPT ![i] = q[j], ![j] = q[i]]

(* Mutant: one foreground dispatch too many. *)
PromoteBackgroundTurnLate(q, burst) ==
  LET turns == {i \in DOMAIN q : IsBackgroundTurn(q[i].priority)}
  IN  IF /\ burst > ForegroundBurstLimit
         /\ q # <<>>
         /\ IsForegroundBurst(q[1].priority)
         /\ turns # {}
      THEN Swapped(q, 1, First(turns))
      ELSE q

PromoteBackgroundTurn(q, burst) ==
  LET turns == {i \in DOMAIN q : IsBackgroundTurn(q[i].priority)}
  IN  IF /\ burst >= ForegroundBurstLimit
         /\ q # <<>>
         /\ IsForegroundBurst(q[1].priority)
         /\ turns # {}
      THEN Swapped(q, 1, First(turns))
      ELSE q

BatchLimit(q, maxTasks) ==
  Smaller(Len(q), IF q # <<>> /\ IsSingleUnitBatch(q[1].priority) THEN 1 ELSE maxTasks)

RecordDispatch(burst, batch) ==
  IF batch = <<>> THEN burst
  ELSE IF IsForegroundBurst(batch[1].priority) THEN Smaller(burst + 1, ForegroundBurstLimit)
  ELSE IF IsBackgroundTurn(batch[1].priority) THEN 0
  ELSE burst

DispatchOrder(s) == PromoteBackgroundTurn(ByPriority(PromoteReadyDelayedTasks(s).tasks), s.burst)

DrainReadyBatch(s, maxTasks) ==
  LET q     == DispatchOrder(s)
      limit == BatchLimit(q, maxTasks)
      batch == SubSeq(q, 1, limit)
  IN  [batch     |-> batch,
       scheduler |-> [PromoteReadyDelayedTasks(s) EXCEPT
                        !.tasks = SubSeq(q, limit + 1, Len(q)),
                        !.burst = RecordDispatch(@, batch)]]

PendingTasks(s) ==
  {s.tasks[i] : i \in DOMAIN s.tasks} \cup {s.delayed[i].task : i \in DOMAIN s.delayed}
PendingTasksForRoot(s, root) == {t \in PendingTasks(s) : t.root = root}
HasPendingTasks(s) == s.tasks # <<>> \/ s.delayed # <<>>

DrainTasksForRoot(s, root) ==
  [s EXCEPT !.tasks    = Keep(@, {i \in DOMAIN @ : @[i].root # root}),
            !.delayed  = Keep(@, {i \in DOMAIN @ : @[i].task.root # root}),
            !.attempts = [key \in DOMAIN @ |-> IF key[1] = root THEN 0 ELSE @[key]]]
=============================================================================
