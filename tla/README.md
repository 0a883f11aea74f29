# ArkLine: TLA+ verification project

ArkLine is a desktop IDE for ArkTS: a Rust backend (Tauri,
`src/src-tauri/src`), a React frontend (`src/src`), a semantic worker process
(`src/semantic-worker`) and an indexer process that is started from the same
binary. Its own core logic, and the part that tests reach least, is in the
backend: the workspace index (who runs which indexing task when, and which
result may be shown), the store it publishes into, the recovery of multi-file
edits, and the supervision of the child processes. This directory holds TLA+
models of that logic, the TLC configurations that check them on small
instances, and TLAPS proofs of what matters most for every instance.

Paths below are relative to `src/src-tauri/src/` unless they begin with `src/`.

## 1. Inventory

### Workspace index

| component | state | operations | correct when |
|---|---|---|---|
| Task rules (`services/workspace_index_task_admission_service.rs`, `..._task_lifecycle_service.rs`, `..._state_machine_service.rs`) | none | coalesce, replace, supersede, transition | two rules that look at the same pair of tasks agree |
| Scheduler (`services/workspace_index_scheduler_service.rs`) | generation counter, ready queue, delayed retries, retry attempts, foreground burst | schedule, retry, clear retry, advance generation, drain a batch, drain a root | no accepted path or task is lost; the tasks of a slot stay few; background work gets a turn |
| Manager runtime (`services/workspace_index_manager_service.rs`, `..._manager_status_service.rs`) | scheduler, cancellation registry and status rows, a lock each; the flag `worker_running`; the wake signal; the execution lock | schedule calls of the commands, one run of a batch, publication of results, start of the worker | every task gets a terminal row; outdated results are not published; nobody sleeps on work |
| Cancellation registry (`..._cancellation_service.rs`) | a token for every task of the running batch | start, cancel by newer task, cancel a root, finish | the token of superseded work is cancelled |
| Maintenance fence (`..._maintenance_runtime_service.rs`) | blocked roots, idle maintenance queue | begin, cancel blocked, finish | a clear or rebuild never runs beside a task of its root |
| Worker (`..._worker_service.rs`, `..._catalog_refresh_worker_service.rs`) | none of its own | run the tasks of a batch one by one | order within a batch, cancellation points, one outcome per task |
| Worker ownership and waits (`..._worker_ownership_service.rs`, `..._manager_retry_wait_service.rs`) | the flag and the signal of the manager | retire, retry wait, idle wait | one worker while there is work |
| Follow-ups and continuations (`..._follow_up_task_service.rs`, `..._continuation_task_service.rs`, `..._discovery_task_service.rs`) | none | what the result of a task schedules next | a refresh that yields is continued |
| Resume table and task journal (`..._resume_service.rs`, `..._task_journal_service.rs`) | rows in SQLite | save, clear, list, journal | a restart continues where the last run stopped |
| Store generations (`..._store_generation_service.rs`, `..._connection_service.rs`) | the current store, its reader leases, pools, the writer gate, the revision | acquire, give back, write, compact and swap | no write is lost in a compaction; a reader reads the store that is there |
| Writer and publications (`..._writer_actor_service.rs`, `..._publication_scheduler_service.rs`, `workspace_content_publication_service.rs`) | staged artifacts, a channel, a queue with lanes, one writer thread | publish, publish detached, cancel, barrier, reset | order, turns and barriers; an artifact belongs to somebody; a layer counts only for the core it was made of |
| Index store and layers (SQLite, fingerprints, symbols, content and stub layers) | tables | reads and writes of one task | sequential data processing |
| Indexer host (`indexer_host/`, `..._deep_sidecar_service.rs`) | a session per lane, failures, backoff | check out, launch, exchange, publish, finish in one of four ways | a lane is taken only by a request; a process put back owes nothing |

### Around it

| component | state | operations | correct when |
|---|---|---|---|
| File edit transactions (`services/workspace_edit_service/transaction.rs`, `file_transaction.rs`) | a folder with blobs and a journal; the files | prepare, apply, commit, clean up, recover | all or nothing after any crash; no foreign change overwritten |
| Directory edit transactions (`directory_transaction.rs`, `directory_transaction/recovery.rs`) | journal and backups | the same with creations, deletions and renames | the same for trees |
| Semantic host (`services/semantic_host/`) | the current session, a bounded queue per session with an actor thread, tracked documents, backoff | request with one retry, interactive request, supersede, restart, replay, watchdog | every call is answered, by its own answer; no process is left behind; a session is discarded once |
| Documents of the semantic worker (`src/src/features/semantic/semantic-document-sync.ts`, `src/semantic-worker/src/workspace/document-store.ts`) | versions in the window, the host and the worker | change, publish, query, close, replay | what is typed arrives; an answer belongs to the newest version |
| Device log (`services/device_log_*`) | a reader, a queue and a writer thread per stream; segment files and a metadata table | start, stop, append, retain, clear, query, export | lines are accounted for; an export is complete as far as it looks back |
| Text search, terminal, git, other frontend | generation counters; process handles; React state | search, spawn, run, render | not modelled, see 6 |

How they interact: commands, the file watcher and the editor's hints *schedule*
tasks and *wake* the worker; the worker *drains* a batch, *registers* tokens,
runs the tasks (which talk to the indexer process and hand artifacts to the
writer), then *schedules follow-ups* and *publishes* status rows. Maintenance
*blocks* a root, drains and cancels it. An open first *recovers* edit
transactions, then schedules the index. The window *publishes* document
versions through the host to the worker process. All of these run on threads of
their own and share state behind several short-lived locks. What is hard is
exactly that: steps between two locks, work superseded while it runs, numbers
that continuations keep across runs and restarts, journal writes that fail half
way, and a process that may end between any two calls to the file system. The
full list, with the line each hazard bites at, is `hazards` in `PROJECT.json`.

## 2. Modules

| module | models | built on |
|---|---|---|
| `IndexTask` | rules between two tasks, transition table | |
| `IndexQueue` | the scheduler's methods as operators on a scheduler value | `IndexTask` |
| `IndexRequests` | tasks that callers build, follow-ups of a result | `IndexQueue` |
| `IndexScheduler` | the scheduler with every caller it has | `IndexRequests` |
| `IndexManager` | callers, runner and maintenance over scheduler, registry and rows, one action per lock | `IndexRequests` |
| `IndexResume` | the deep refresh of one root: resume table, catalog, checkpoint, phases, crashes | `IndexRequests` |
| `WorkerLoop` | start, waits and retirement of the worker thread | |
| `IndexStore` | leases, pools, the writer gate, copy-and-swap compaction | |
| `IndexPublication` | staging, channel, lanes, writer actor, the two content layers | |
| `StoreWriter` | the store and, beside it, the publication | `IndexStore`, `IndexPublication` |
| `IndexerHost` | lanes, sessions, backoff and failures of the indexer processes | |
| `WorkerHost` | the indexer host under names of its own, to stand beside the worker | `IndexerHost` |
| `AtomicEdit` | abstract: what an observer sees of an edit, decided once, settled at last | |
| `FileTransaction` | edit transactions over files, with crashes; implements `AtomicEdit` | |
| `DirectoryTransaction` | edit transactions over directories; implements `AtomicEdit` | |
| `SemanticHost` | sessions, actor queues, retries, watchdog | |
| `SemanticDocuments` | versions of one document from the window to the worker | |
| `Semantic` | the host and, beside it, one document | `SemanticHost`, `SemanticDocuments` |
| `DeviceLog` | reader, writer, segments, metadata, retention, export | |
| `WindowLog` | the log under names of its own, to stand beside the edits of directories | `DeviceLog` |
| `MC*` | instances, symmetry sets and views for TLC | |
| `*_proofs` | TLAPS proofs | |

`IndexQueue` is shared: `IndexScheduler`, `IndexManager` and `IndexResume` call
the same operators, the first at the level of method calls, the others with
what happens between them. `WorkerLoop` looks at the same threads from the other
side and keeps of the queue only what the loop reads of it. `IndexerHost` ends a
request at the writer, whose side is `IndexPublication`.

### Correspondence and abstractions

`map` in `PROJECT.json` gives the lines of every definition. In general:

* **Tasks** are records of root, kind, priority, paths, generation and reason.
  Priorities are the ranks of the Rust enum; a prefix test on a reason string
  is membership in a set of reasons. A discovery cursor is a set of paths.
  Messages, timings and stage names are left out.
* **Time** in `IndexQueue` is counted in units of the base delay of 250 ms, and
  `Time` lets one pass. The attempts stop counting where the delay stops
  growing and the burst where it is only compared with its limit: no reader
  tells larger values apart. `IndexManager` lets a drain find the retries due or
  not. Elsewhere a clock action ends a wait (`BecomesDue`, `BackoffEnds`), and a
  deadline is a choice between two outcomes.
* **Scheduler** methods run under one lock each, so that a call is one action.
  `IndexScheduler` lets callers arrive at any moment, also while results are
  turned into follow-ups.
* **IndexManager** has one action for what a thread does under one lock. A
  caller goes from scheduling to looking up what its task supersedes, to
  cancelling, to reporting what it replaced, to a snapshot, to the rows. The
  runner goes from drain to registration, to the second look at the fence,
  through the batch (row, token, work), to the end of registration, to marking
  stale results one by one, to follow-ups, to publication. `Work` is what a
  task computes, reduced to its outcome: ready, failed, superseded, reloaded (a
  project configuration changed), dropped (no result). Status rows are the state
  under a task id; the cap of 32 rows, metrics and events are left out. With
  `JournalMayFail` every write to the task journal may fail, at the row it fails
  on. **One runner** is justified by the lock `worker_execution`, which
  `run_index_worker_once` holds from its first line to its last; `WorkerLoop`
  checks the contenders for it.
* **WorkerLoop** keeps whether a request and whether a continuation is pending,
  and whether that one is due. The signal is a counter and a condition
  variable; a waiter only compares the count with the one it observed, so each
  waiter carries that comparison. `notify_one` reaches the waiter because there
  is one at a time, which `OneOwner` shows. The idle maintenance before a
  retirement does not touch the scheduler and is no step of its own.
* **IndexResume** keeps the saved rows, the catalog of the refresh with its
  checkpoint, and the queue, and crashes between any two transactions. Paths are
  the numbers the catalog gives them. The rows of the journal other than its
  newest generation are `IndexManager`'s. A task may fail in any layer
  (`FailTask`); its row stays and nothing follows.
* **IndexStore** keeps files by number with the writes each has. A connection is
  on a file; a swap replaces the file at the store's path. `gate` is the writer
  lock, leases are counted under the lock of the registry. **IndexPublication**
  keeps an artifact by slot, its way through staging, channel and queue, and of
  a file the version its core and its substring were made of. The indexing
  process stages before its answer is read (`Prepare`, `TakeDescriptor`), and a
  caller may be gone in between (`GiveUp`).
* **IndexerHost** has a lane per kind of request. A session belongs to the lane
  or to the call that took it, and `owes` says that a request was sent that is
  not answered. `Ended` is the loop over the chunks of a task. What a process
  computes is left out; it may end at any time.
* **Transactions** have one action for every call to the file system that
  changes something. Files and entries are handled in any order where the code
  has the order of a map, and `remove_dir_all` removes in any order. A
  replacement is atomic (temporary file and rename), and may report an error
  after the rename, when the directory is synced. The comparison of all files
  at the start of a recovery is one step: reads of different files commute with
  writes of others to different files. `ForeignWrite` is anybody else's write,
  the editor's own save among them, which takes no lock of the edits. In
  `DirectoryTransaction` a directory is absent, empty, or holds one of a few
  trees, and directories lie in two levels: a parent and its children is what
  orders creations and removals. What others put at an end of a rename while the
  operation runs is given up by the properties, as the code has no protection
  there. `committed`, `touched` and `kept` are history.
* **SemanticHost** gives each session a queue, an actor and a counter of
  reserved places. A caller goes from the lock of the manager to the
  reservation, the push, the wait for the answer with its deadline, and the
  handling of it. Call numbers are fresh; a bound caps the calls of a run.
  `wire` is what was written to a worker and not read back, so that a late line
  could meet the next request. A worker may stop reading (`Deafen`): a write has no
  deadline, so its actor, and whoever waits for that, stays until it ends.
  **SemanticDocuments** follows one document: the entry of the window's queue,
  syncs and queries as calls that overtake each other, the tracker and its
  replay into a new session, the record of the worker.
* **DeviceLog** numbers lines as they are printed, one byte each. A batch goes
  from the pipe to the reader's hand, the queue, the segment, the table. The
  commands are synchronous, so one runs at a time, but an export looks at the
  table page by page while the writer goes on. A query
  looks `Window` back from the clock as its own page finds it. The table is a set;
  what the query sorts is given by the place of a row or a line among the others.
* The clock of the machine is taken not to go backwards.
* A poisoned lock (a thread panicked while it held one) is left out everywhere.
  A hint the cooldown throttles is a request not made.

## 3. Runs

Several instances share a run where each is small: a variable `part` is chosen
at the start and says which of them runs, the variables of the others stay
initial. They do not interact.

| run | parts | shows |
|---|---|---|
| `scheduler` | requests of users and watchers with two paths; follow-ups and continuations with one path | `AcceptedPathsCovered`, `SlotsStayShort`, `BackgroundGetsItsTurn`, `SupersededByNewer`, `NoSilentDrop` |
| `manager` | two callers, runner, maintenance, failing journal, batches of 2; one caller with deep follow-ups, batches of 3; the indexer host | `FenceHolds`, `NoTaskVanishes`, `OutdatedNotPublished`, `NewestPublishedLast`; `KeptSessionsOweNothing`, `InFlightIsHeld` |
| `worker_loop` | 2 starters, 1 drainer, 2 workers, refused threads | `OneOwner`, `WorkIsDone` |
| `file_transaction` | 2 files, 3 contents, failing calls, any number of crashes | `AllOrNothing`, `EvidenceKept`, `ForeignKept`, `FilesAtomic` |
| `edits_directories` | a parent with two children and a directory beside it, failing calls, crashes, a foreign write; exports of a device log; a device log whose writes fail | `TreesKept`, `DirectoriesAtomic`; `ExportComplete`, `EveryLineCounted` |
| `index_store` | a reader, a writer, two compactions; content publications with a reset and a crash; lanes without an end | `NoWriteLost`, `OwnReadersReadTheStore`; `StagingIsExact`, `TrigramsAreOfTheCore`, `MaintenanceIsABarrier`; `BackgroundGoesOn` |
| `index_resume` | a catalog of two files, pages and chunks of one, two events (opens, refreshes, yields, failed tasks, crashes) | `PhasesThrough`, `NeverDropped`, `SavedBetweenTasks`, `Converges` |
| `semantic` | an interactive caller, one that retries, the watchdog, two sessions; a document with faults; a document with more edits | `QueueIsCounted`, `NoOrphans`, `AnswersAreOwn`, `OnlyItsCallersDiscardIt`, `EveryCallReturns`; `VersionsProtect`, `SyncsComeInOrder`, `EditsArePublished`, `WaitersAreSettled` |
| `directory_open`, `resume_crash`, `pool_drained`, `stale_answers` | | each a statement of the repository that the code does not keep, see 5 |

**Bounds and why they are enough.** One root: tasks of different roots never
coalesce, replace or cancel each other, so that a second root only adds
interleavings of independent queues (the task id without root is a hazard that
no run covers). Two paths: a merge, a subset and a path that is in neither. The
generation bound counts calls that number a task; the interesting cases (a task
replaced twice, a continuation older than a request, a retry beside another one)
need three, the bursts need five. The first part of `manager` stops at two
numbered tasks and gets its size from two callers, the runner, maintenance and
failures interleaved at every lock; the second has four tasks and one caller.
Neither has all of the reasons: `Asked` names those it has, and the two together
have every action. The host has two chunks and gives a lane up at two failures
(the code at three): a failure below the limit and one at it are the cases.
`MaxAttempts` bounds the retries of a row at the point where delays of one and
two units meet. `file_transaction` has no bound but its constants: its state
space is finite. Two files are the least for a half-applied edit, three
contents the least for a third version. The directories need a parent and a
child for the order of creations, a second child that is foreign content, and
one beside them as the other end of a rename; two operations and one foreign
write are the least that meet in an edit. One reader and one writer suffice in
`index_store` because pool and counters are shared by the connections of every
reader; two swaps let a connection be older than one and younger than the next.
Two events in `index_resume` are a fault and a fault during its repair. Two
sessions are one and its successor. The semantic host has two calls and two
places in a queue, so that a full queue is not reached by the run; the theorem
`QueuesAreCounted` has it for every capacity. An export needs four lines: two
batches before it, of which a page of one ends the response in the middle, and one
meanwhile. `Window` is one tick and the clock goes on twice there, so that rows
leave the window before and while an export runs; the theorem has any of both.

`VIEW` leaves out variables no action reads (`rows` in `IndexManager`,
`returned` in `IndexScheduler`) where the checked properties read at most their
next value. `CHECK_DEADLOCK FALSE` stands where the callers may stop for good;
in `manager` and `edits_directories` deadlock is checked for the parts that may
not stop.

**Fairness.** Every thread of the backend is a thread of the operating system,
so one that can go on does: `WorkerLoop` has weak fairness of each thread and of
its clock, `IndexPublication` of the writer actor, `SemanticHost` of threads,
actor turns and deadlines, except of a thread or an actor that writes to a worker
which does not read (`Stuck`), `IndexResume` of the worker and of scheduling what is
stored at an open. `SemanticDocuments` has it for timers, which fire, and for
calls, which are answered or given up at their deadline. None has fairness of
what a user, a caller, a child process or a fault does: nobody has to ask for
work, and the semantic worker need not answer, nor read. What `EveryCallReturns`
promises is said accordingly: every exchange is answered or given up whatever the
worker does, and every call returns unless a worker stopped reading. `WorkIsDone` needs no strong
fairness although a drainer may take the execution lock before the worker again
and again: to come back it has to schedule a request, and whoever holds the lock
runs what is pending, the burst bounding how long requests go before a
continuation that is due.

## 4. Proofs

Assumptions are only the named `ASSUME`s on the constants: their types, that
limits are positive, that sets of threads are apart (and finite where threads
are counted), and that directories lie in two levels. Numbers of roots, paths,
callers, files, sessions, crashes and failures are arbitrary. Each inductive
invariant was checked by TLC on small instances before it was proved. The type
invariants are proved only: no run spends time on them.

**`IndexQueue_proofs`** holds the lemmas about the operators: what stable
sorting, filtering, swapping and splitting by position keep of a sequence
(`ArrangeProperties`, `ByPriorityProperties`, `KeepProperties`,
`SplitProperties`), and for each scheduler method its result type, the tasks it
keeps and those it hands back (`ScheduleProperties`, `RetryProperties`,
`DrainProperties`, `DrainRootProperties`), and which slots it fills
(`RetryKeepsSlots` and the lemmas before it).

**`IndexScheduler_proofs`.** `TypeCorrect`, `CounterIsAhead` and
`BackgroundTurn` come from `TypeOK /\ CounterAhead /\ passedOver <= sched.burst
/\ passedOver <= ForegroundBurstLimit`. The last is not inductive alone: the
history counter has to be tied to the counter of the code, which stops at the
limit, and the promotion acts on that one. `NothingDropped` and
`ReplacedByNewer` are action properties, from the same invariant.
`PathsStayCovered` needs `CoverInv`: the delayed queue
holds only deep continuations, one task per slot over both queues
(`SlotsHeld`), the shape of what is ready (`ReadyShaped`), and that the calls
under way are plans the follow-ups build. Without the first, a task that comes
back from the delayed queue meets another of its slot, for it is not coalesced.
That is what does happen to deep continuations, and `SlotsAreExclusive` says how
far it goes: of a root never more than two are ready or waiting. Two may be, when
a continuation is resumed or asked for while a retry waits. For that theorem
`ShortInv` adds the reason why there is no third one: a retry is asked for only by
a task that was taken, which leaves at most one deep task ready; a batch takes one
of two (`FewDeep`, `DrainFew`), and until the retry is scheduled `Busy` keeps the
place for it. `RetryFew`, `ScheduleFew` and `PromotedFew` in `IndexQueue_proofs`
say what each method of the queue does to the number.

Of the deep refresh (`IndexResume`, which has names and an assumption of its
own: no theorem about the scheduler cites it): `ResumeTypeCorrect`,
`PhasesAreThrough`, `RefreshIsNotDropped`, from `RefreshInv`. `CursorInv` ties
the checkpoint to the active catalog through the transactions that replace the
two one after the other. `PhaseInv` is `PhasesThrough` inside a phase: its files
up to the checkpoint are indexed, every phase before it is through, none after it
has begun; a page that was applied and not yet passed does no harm. `TaskInv`
says that what is pending, saved, running or about to be scheduled is never a
task that is dropped as empty (`Useful`), and that none goes on from a checkpoint
while a catalog waits for its first one. `AliveInv` is the argument of
`RefreshIsNotDropped`: with nothing pending the running task cannot have been
cancelled or superseded, and an unfinished catalog still has its task or the
follow-up of it, unless the task failed. It rests on `CallAdds`: a call leaves a pending task behind
whenever it is given a task with something to do, whatever it is merged with.

`RowIsSaved` proves `SavedBetweenTasks` from `RefreshInv` and a second invariant,
`SavedInv`, which holds until the workspace is opened again or crashes, or a
second turn is given away around a refresh. The row of a deep task is cleared
before its follow-up is saved, and the follow-up is saved only if it is
scheduled, so the argument is that it always is. `QueueInv`: while a deep task
runs and until it has asked for itself, no other is ready (`OneDeep`: two would
share a slot), and a retry is asked for only while none waits, since a second one
would be dropped as a duplicate. `PlanInv`: what each place of a turn may ask
for. `RowInv`: a ready or running deep task with paths has its row, an active
catalog has one except between the clearing and the follow-up. The hard part is
that no other deep task overtakes the retry: without a refresh the tasks form a
chain (`ChainInv`: one is ready, or all that are ready are continuations, of which
the file layer goes before the deep layer; a retry waits only when nothing is
ready), and with a refresh a second deep task can appear while the retry waits,
which is why the property then allows one turn given away. `NextTask` and `RetriesJoin` say
what the queue of one worker hands out; `ScheduleForms` and `FirstRetry` what a
call and a retry leave in it.

**`IndexManager_proofs`.** The invariants are layered, each inductive given the
ones before it: `Core` (types, and what each place of runner, callers and fence
knows of its locals), `Steady` (which token belongs to which task of the batch),
`FenceHolds`, `Held` (every task taken is in exactly the hands that will report
it) for `NoTaskVanishes`, `OutdatedInv` for `OutdatedNotPublished`, and
`NewestInv` for `NewestPublishedLast`. `FenceHolds` needs only `Core` and
`Steady`: the runner looks at the fence again after the registration, and the
fence blocks before it cancels. `NewestInv` ties the rows already published to
the numbers of what is in the batch; continuations, which keep their number, are
excepted in the property itself.

**`IndexWorker_proofs`** is about the worker's loop and the indexer host. Of
`WorkerLoop`: `TypeCorrect` and `OneOwnerAlways`, from `TypeOK /\ OneBatch /\
OneOwner`. `OneOwner` says both directions, and both are needed: that the flag
is clear when nobody is in charge is what lets the next caller start, that it is
set while somebody is is what makes the second one not. Of the indexer host
(`WorkerHost`): `HostTypeCorrect`, `NoAnswerIsLeft`, `LanesAreHeld`. The
invariant has, besides the two properties, what each place of a call knows of
its session (`Answered`: whoever puts a session back has its answer) and that
what is in flight is of the task at hand (`OfTheTask`).

**`IndexStore_proofs`**. Of the store: `TypeCorrect`, `NothingLost`,
`OwnReadersCurrent`. The invariant has the gate (`GateHeld`, `WriterOnLive`:
whoever writes has the gate and is on the live file), the copy
(`CopiesComplete`: a candidate that passes the comparison of revisions has every
write, `RevisionsKnown`), and the readers (`LeasesCounted`, `Connected`).
`SwapsLeft` says that there is a fresh file while the committer holds the gate,
so that the bound does not cut a swap in two.

Of the publication (`StoreWriter`): `PublicationTypeCorrect`, `ArtifactsAreKept`,
`TrigramsMatch`, `BarrierHolds`, for any callers, artifacts, work and capacities.
Artifact slots are used again, so the invariant `Owned` says who has each: a
caller alone before it sends (`Unsent`), both the caller and the envelope on its
way until the answer (`Sent`, `Awaited`), the caller's request alone before its
descriptor came (an artifact given up there is `leftover`, as one of an earlier
process is), nobody but the answer after it
(`AnswersMatter`), the envelope alone when the caller left its mark
(`MarksMatter`) or did not wait (a substring). `Apart` says that nothing is on
its way twice; it is what makes the taken envelope the one the barrier speaks
of. `TextsKnown` carries the text of a generation from the preparation through
every envelope to the rows. The assumptions are that the capacities are natural
numbers and that a catalog has a generation.

**`FileTransaction_proofs`**: `TypeCorrect`, `AllOrNothingAlways`,
`EvidenceStays`, `ForeignKeptAlways`, `Refinement`. The invariant adds what each
place of the protocol knows: `JournalTrue` (the journal and the decision agree),
`OldOrNew`, `Replacing` and `Restoring` (how far the files are, by `todo`),
`Cleaning` (nothing is removed before the files are settled) and `KeptApart` (a
file somebody wrote at rest is no entry of a transaction that is being
restored). `AllOrNothing` follows from `EvidenceKept`: without a folder there is
no evidence, so the files are settled.

**`DirectoryTransaction_proofs`**: `TypeCorrect`, `TreesAreKept`, `Refinement`.
A tree may be at its path, at the other end of a rename, or in the transaction
folder, and a journal names paths that others may have filled since. The
invariant: `Typed`; `OneRole` (a path is deleted, an end of one rename, or
created); `TouchedTogether` (both ends of a rename are given up together);
`Phase` (journal, folder and decision by the place of the protocol); `Found`
(what the edit found is what it planned with); `Planned` (where each tree is
before its step); `OnItsWay` (where it is after it, by the operations left);
`Decisive` (what is there once it is decided); `KeptApart`.

Both refinements take `shown` to be the disk, `pending` that there is a
transaction folder, `foreign` the paths others wrote, and `decided` to be
`InForce`: the disk for those paths, and for the others the old contents until
the journal says committed and the new ones from then on. Every call of the file
system that apply, recovery or clean-up makes is then a `Move` or a stutter, the
journal's commit a `Decide`, the removal of the folder a `Settle`, whose guard is
where the invariant is needed: the folder goes only when the disk shows what was
decided. What others write is a step of `Others`.

Of the log of a device (`WindowLog`): `CountInvariance` and from it
`LinesAreCounted`, for any number of streams, lines, batch sizes, capacities,
failures and ends of the program. `CountInv` says of every stream that what it
ingested is persisted, dropped or `Flying`, and that `pending` is the number of
batches on their way; it needs that a batch is never empty and that a job is
`NoJob` or has lines. The lines of a queue are counted by flattening it, so the
proof rests on lemmas about `FlattenSeq` of the library, a recursive function
(`FlattenAppend`, `FlattenHead`, `FlattenType`): they follow from the existence
and uniqueness of its partial sums, by a least-number argument where a proof on
paper would be an induction.

From `ExportInvariance` follows `ExportsAreComplete`: an export that ends has
every line that was on the disk when it began and that its last page still looks
back to, for any window, any number of streams and lines, any sizes of batches, pages and answers (`Sizes`: an answer has a line at
least, which `normalize_query_limit` sees to, and a page a row), wherever a
deadline ends a query. Its hypothesis `FirstRun`, that the program was not started
again and no append fails, is needed: TLC finds an export that lacks a line when
either is dropped, because numbers repeat and because the file runs ahead of the
writer (5). The invariant has three layers. `StoreTyped` has the types, and that
the table is finite. `FileInv` ties table and file: a writer knows where its file
ends and which number comes next, an entered row has its lines in the file or the
file is gone, the rows of a stream follow each other without overlap and in the
order of their times. `QueryInv` says of every line that is due how far the export
is: past the cursor it was found, below it and on an earlier page, or above a
number already reached, it is among the matches, as long as its row is recent for
the page at hand: as the clock only goes on, what is recent for the last page was
so for every page before. Between them stand the lemmas
about order: the place of a row, counted as the rows before it, numbers the rows
from 0 (`Ranked`, for any finite set whose members have numbers of their own), the
lines of a page are looked at from the greatest number down (`Ordered`), and so
whoever reaches a number has whatever is due from there up (`TakenHas`). Rows
entered meanwhile are newer and only move the others on (`PlaceGrows`): a line may
be seen twice, not missed.

**`Semantic_proofs`**. Of the host: `TypeCorrect`, `QueuesAreCounted`, `NoneIsOrphaned`,
`OnlyCallersDiscard`, `AnswersComeFromTheirRequest`, from `Owned` (who holds each
session: the manager, a call on its way, or nobody), `Counted` (the counter
of a session is its queue and the threads between reservation and push) and
`Wired`: what is on the wire of a session is the request its actor is at, and
nothing once it is at none. That holds because an exchange that fails ends the
process before the next request is looked at, and only because of that: nothing at
this level compares the numbers of answers.
Finiteness of the threads gives the counting. That call numbers are distinct
comes from the next one being above the greatest of a finite set, which is
proved by the least-number principle for naturals rather than by an induction
theorem with an operator parameter.

Of the document: `DocumentTypeCorrect`, `OldTextsAreExcused`, `SyncsNeverCross`,
for any queries and any number of edits, sessions and faults. Nothing in the
state says which text had which version once the queue has moved on, so the
invariant is that such an assignment exists: `Open`, while the document was not
closed, is `\E f : Fit(f, ...)`. `Fit` says that texts rise with their versions
(`Rises`), that the one sync under way carries the published version and its
text, that a query in the host has its own text or a version no older than the
one it was made of, and that whatever a worker stored under a version is the
text of it and was published. A close starts the numbers again: that is where
the hypothesis `closes = 0` of the properties is needed, and `stale_answers`
shows what a query may be answered from without it. Besides it takes `Bound` (a
call that is to reach a worker has a session) and `Versioned` (what a sync
stored has a version).

**Only model-checked.** Liveness (`WorkIsDone`, `Converges`, `BackgroundGoesOn`,
`EveryCallReturns`, `EditsArePublished`, `WaitersAreSettled`): temporal reasoning
with `ENABLED` is beyond the prover's backends here. No module with a theorem uses a recursive operator.

## 5. Where code and documentation differ

With a run whose counterexample shows it; the quotes are in `findings`:

* `DirectoryOpenRecovers`: an edit that renames a directory into one it created
  and crashes before the commit leaves a journal that every recovery refuses.
* `Resumable`: a crash between clearing a consumed row and saving its successor
  leaves an unfinished catalog that no row names.
* `PoolIsDrained`: a reader given back between the drain of the pool and the
  swap stays in the pool on the file that was replaced.
* `AnswersAreCurrent`: a close that comes after the sync of the next life of a
  document deletes it in the worker.

Met while modelling; the models have the steps, the properties are stated so
that they hold in spite of them:

* Index rows: a snapshot of pending tasks written late puts a terminal row back
  to queued. A discovery that ends superseded, and a deep continuation whose
  update ends without a result, leave a running row. Opening a root while a task
  of it runs loses that task's row (`continuation_task_service.rs:172`).
* Waits: a request signalled between the look at the queue and the observation of
  the signal does not end the retry wait. A batch drained by the watcher or the
  refresh command may schedule a continuation with no worker alive to take it.
  Idle maintenance may wait for as long as requests come.
* Deep refresh: the order of the phases is stub, content, substring
  (`start_next_deep_refresh_phase`, and the test beside it), while
  `src/docs/superpowers/plans/2026-08-09-large-workspace-query-and-index-convergence.md:192`
  lists as not negotiable that "a complete content-core catalog pass precedes the stub
  and substring catalog passes" (also `:119`), and
  `specs/2026-08-11-core-first-index-pipeline-design.md:118` asks for tests of
  "ordered `content -> stub -> substring`" (also `plans/2026-08-11-core-first-index-pipeline.md:7`).
  `PhasesThrough` has the order of the code. A task that fails, whether it opens the
  workspace, discovers, refreshes the file layer or applies a page, has no follow-up
  and is not retried (`worker_service.rs:136`, `continuation_task_service.rs:228`):
  an unfinished catalog then waits for the next open. `NeverDropped` and `Converges`
  except that. `workspace_index_changed_path_worker_service.rs:186` answers
  deferred without scheduling the layer again. The fingerprints are published
  with what the files are then, not with what was indexed
  (`deep_sidecar_service.rs:269`). `catalog_refresh_worker` 48-54 is not
  reached with one worker.
* Publications: a cancellation between the actor's check and its start is
  answered as cancelled and published all the same
  (`2026-07-17-mature-ide-responsiveness-architecture.md:1267`). Two refreshes of
  one generation and other kinds may leave a core and a substring of different
  texts, and a detached substring may come out of order. A caller that is cancelled, runs into
  its deadline or reads another request's answer (`indexer_host/session.rs:294-352`)
  never learns of the artifact its process has staged; it lies there until a recovery
  finds it older than the grace period of five minutes, which looks once for each
  process, at its first publication. Counters of swaps grow
  when there was none.
* Edits: a crash while the folder is removed may leave a journal without its
  blobs, and the workspace can then not be opened. A recovery moves what others
  put at the target of a rename when they remove the source between validation
  and restoring.
* Semantic host: a write to the worker has no deadline (`transport.rs:67-73`, `:114-122`),
  and only the actor ends the process. A worker that stops reading stops its actor
  (`request_actor.rs:260`); the calls are answered at their deadlines, but the one that
  drops the last reference of the session joins the actor for as long as that lasts
  (`:135-143`), and a start that meets it keeps the lock of the manager. A queued
  `gotoDefinition` is replaced by a later one, of whatever file (`:190`), while
  `specs/2026-07-26-completion-responsiveness-architecture.md:69` says that the actor
  "retains only the newest completion request" and that "Non-replaceable definition,
  code-action, and lifecycle requests retain order". The probe of the watchdog waits behind a request
  (`watchdog.rs:26`, against `2026-07-17-...:743`). A retry launches during the
  backoff (`:703`). A full queue, or a superseded answer of a strict call,
  discards a healthy session; an old session's success clears the backoff of the
  new one; a stale prepare or query ends a healthy process; a query that loads
  dependencies bumps the worker past the tracker, which costs the session. An
  `ensure` after a failed sync of its version is not answered before the next edit.
* Indexer host: failures of one lane make a task of another fail for good
  (`..._policy.rs:20`, against `2026-07-17-...:1772`). A content chunk whose core
  is published and whose substring cannot be queued counts as a failure.
* Device log: retention and clearing look at running streams only, so a segment
  may be removed that the writer of a stopped stream still drains
  (`2026-07-06-device-log-system-roadmap.md:1679`), and retention is refused
  while a stream is listed whose process has ended. Segments are named by the number of
  the stream, which starts anew: after a restart a query finds the lines of both
  lives, and numbers repeat (`:1396`). An append that fails half way leaves the
  writer's offset behind the file. Rows of one millisecond come in while a query
  pages by offset and shift it. An export looks back 60 s at most, from the
  time of each page (`src/src/features/device-log/device-log-query.ts:5`): it lacks
  what is older, and what leaves the window before the page that would reach it. It
  writes its pages newest first. A child process is left running when the sink of its stream
  cannot be made. Queries are synchronous commands, so that none is ever cancelled
  by a later one.

## 6. Not modelled

* SQL schema and layers of the store, fingerprints, parsing, symbols and stubs:
  sequential processing of data. Fingerprints compare exactly in the models.
* The indexer process and the language service of the semantic worker: what they
  compute. Their failures are actions of the hosts.
* The eviction of the least recently used documents in the semantic worker, and
  the check of the answer's id by the session (`session/request.rs:139`), which
  `AnswersAreOwn` shows never to fail by an answer given to an earlier request.
* Which file a request of the semantic host is about, so that what the replacement
  by method alone does to two files is not told.
* Text search: one maximum and one comparison under one lock. Terminal sessions
  (handles in a map; that a shell outlives its window is a matter of spawn and
  kill), git (commands and text), documents beyond their save, rendering and the
  controllers of the frontend that compare request ids.
* The window's panel of the device log, stream status, filters of its queries.

## 7. What could come next

A second root in `IndexManager` for
the task ids; the device log with two streams; an abstract single queue that
`IndexScheduler` implements.
