----------------------------- MODULE WorkerLoop -----------------------------
(* The life of the background index worker: who starts it, what it waits for, *)
(* when it retires.  Starters schedule work and then start a worker if none   *)
(* is running; drainers (the file watcher, refresh with changes) schedule     *)
(* work and run one batch themselves.  All of them share the scheduler, the   *)
(* signal the worker waits on and the flag worker_running.                    *)
(*                                                                            *)
(* The scheduler is reduced to what the loop reads of it: whether a request   *)
(* (any priority above Background) is pending, whether a continuation (of     *)
(* priority Background) is, and whether that one is due.  The signal counts   *)
(* wake-ups; a waiter only compares it with the count it observed, so each    *)
(* waiter carries that comparison, woken.  The loop keeps one waiter at a     *)
(* time (OneOwner), so that notify_one reaches it.                            *)
EXTENDS Naturals, FiniteSets

CONSTANTS Starters,      \* threads that schedule and start a worker
          Drainers,      \* threads that schedule and run a batch themselves
          Workers,       \* worker threads that may be alive at a time
          SpawnMayFail,  \* whether the system may refuse a thread
          ForegroundBurstLimit    \* as in IndexQueue

ASSUME LoopAssumption ==
  /\ Starters \cap Drainers = {}
  /\ (Starters \cup Drainers) \cap Workers = {}
  /\ SpawnMayFail \in BOOLEAN
  /\ ForegroundBurstLimit \in Nat

VARIABLES pending,    \* the sorts of tasks pending in the scheduler
          due,        \* the pending continuation's ready_at has passed
          burst,      \* foreground_burst_dispatches
          executing,  \* the threads that hold worker_execution, and their batch
          running,    \* worker_running
          at,         \* where each thread is
          woken,      \* workers whose observed signal count is no longer the count
          refused     \* history: the system refused a thread

vars == <<pending, due, burst, executing, running, at, woken, refused>>

Sorts   == {"request", "continuation"}
Callers == Starters \cup Drainers
Threads == Callers \cup Workers

-----------------------------------------------------------------------------
Init ==
  /\ pending = {} /\ due = FALSE /\ burst = 0
  /\ executing = {}
  /\ running = FALSE
  /\ at = [t \in Threads |-> IF t \in Workers THEN "none" ELSE "idle"]
  /\ woken = {}
  /\ refused = FALSE

scheduler == <<pending, due, burst>>

Go(t, from, to) == at[t] = from /\ at' = [at EXCEPT ![t] = to]

-----------------------------------------------------------------------------
(* Callers.  A request the scheduler drops as a duplicate changes nothing.    *)

Schedule(c) ==
  /\ Go(c, "idle", "wake")
  /\ pending' = pending \cup {"request"}
  /\ UNCHANGED <<due, burst, executing, running, woken, refused>>

Waiting(w) == at[w] \in {"retry-wait", "idle-wait"}

Wake(c) ==
  /\ Go(c, "wake", IF c \in Starters THEN "start" ELSE "run")
  /\ woken' = woken \cup {w \in Workers : Waiting(w)}
  /\ UNCHANGED <<scheduler, executing, running, refused>>

(* worker_running.swap(true) *)
Start(c) ==
  /\ Go(c, "start", IF running THEN "idle" ELSE "spawn")
  /\ running' = TRUE
  /\ UNCHANGED <<scheduler, executing, woken, refused>>

Spawn(c) ==
  /\ at[c] = "spawn"
  /\ \E w \in Workers : at[w] = "none" /\ at' = [at EXCEPT ![c] = "idle", ![w] = "run"]
  /\ UNCHANGED <<scheduler, executing, running, woken, refused>>

SpawnRefused(c) ==
  /\ SpawnMayFail
  /\ Go(c, "spawn", "idle")
  /\ running' = FALSE
  /\ refused' = TRUE
  /\ UNCHANGED <<scheduler, executing, woken>>

-----------------------------------------------------------------------------
(* run_index_worker_once, by a worker or by a drainer.                        *)

Ready == IF due THEN pending ELSE pending \ {"continuation"}

(* Requests go first until the burst is at its limit; a batch may hold both.  *)
Batches ==
  IF Ready = {} THEN {{}}
  ELSE {b \in (SUBSET Ready) \ {{}} : "request" \in Ready \ b => burst = ForegroundBurstLimit}

Bursts(b) ==
  IF b = {} THEN {burst}
  ELSE IF "request" \notin b THEN {0}
  ELSE {0, burst} \cup {n \in {burst + 1} : n <= ForegroundBurstLimit}

RunBatch(t) ==
  /\ executing = {}
  /\ Go(t, "run", "running")
  /\ \E b \in Batches :
       /\ executing' = {[thread |-> t, batch |-> b]}
       /\ pending' = pending \ b
       /\ due' = (due /\ "continuation" \notin b)
       /\ burst' \in Bursts(b)
  /\ UNCHANGED <<running, woken, refused>>

(* What the results schedule: nothing wakes the worker for it.                *)
FinishBatch(t) ==
  /\ Go(t, "running", IF t \in Workers THEN "retry" ELSE "idle")
  /\ \E mine \in executing :
       /\ mine.thread = t
       /\ \E more \in IF mine.batch = {} THEN {{}} ELSE SUBSET Sorts :
            /\ pending' = pending \cup more
            /\ due' \in IF "continuation" \in more THEN {due, TRUE} ELSE {due}
  /\ executing' = {}
  /\ UNCHANGED <<burst, running, woken, refused>>

-----------------------------------------------------------------------------
(* The worker between two runs.                                               *)

(* wait_for_sidecar_retry_if_only_background_is_pending: the scheduler is     *)
(* read under its lock, which is released before the signal is observed.      *)
ReadRetryDelay(w) ==
  /\ Go(w, "retry", IF pending = {"continuation"} /\ ~due THEN "retry-observe" ELSE "check")
  /\ UNCHANGED <<scheduler, executing, running, woken, refused>>

ObserveForRetry(w) ==
  /\ Go(w, "retry-observe", "retry-wait")
  /\ woken' = woken \ {w}
  /\ UNCHANGED <<scheduler, executing, running, refused>>

RetryWaitEnds(w) ==    \* woken, or the delay is over
  /\ Go(w, "retry-wait", "check")
  /\ UNCHANGED <<scheduler, executing, running, woken, refused>>

CheckPending(w) ==
  /\ Go(w, "check", IF pending = {} THEN "idle-observe" ELSE "run")
  /\ UNCHANGED <<scheduler, executing, running, woken, refused>>

ObserveForWork(w) ==
  /\ Go(w, "idle-observe", "idle-wait")
  /\ woken' = woken \ {w}
  /\ UNCHANGED <<scheduler, executing, running, refused>>

WokenFromIdle(w) ==
  /\ w \in woken
  /\ Go(w, "idle-wait", "run")
  /\ UNCHANGED <<scheduler, executing, running, woken, refused>>

(* BACKGROUND_WORKER_IDLE_RETIRE_MS passed; maintenance.run_pending, which    *)
(* leaves the scheduler alone, goes before the next look at it.               *)
IdleTimeout(w) ==
  /\ w \notin woken
  /\ Go(w, "idle-wait", "check-again")
  /\ UNCHANGED <<scheduler, executing, running, woken, refused>>

CheckAgain(w) ==
  /\ Go(w, "check-again", IF pending = {} THEN "release" ELSE "run")
  /\ UNCHANGED <<scheduler, executing, running, woken, refused>>

(* relinquish_background_worker *)
Release(w) ==
  /\ Go(w, "release", "recheck")
  /\ running' = FALSE
  /\ UNCHANGED <<scheduler, executing, woken, refused>>

(* Mutant: the flag is released without another look at the scheduler. *)
RecheckNothing(w) ==
  /\ Go(w, "recheck", "none")
  /\ UNCHANGED <<scheduler, executing, running, woken, refused>>

Recheck(w) ==
  /\ Go(w, "recheck", IF pending = {} THEN "none" ELSE "reclaim")
  /\ UNCHANGED <<scheduler, executing, running, woken, refused>>

(* Mutant: the flag is taken back without a look at its old value. *)
ReclaimBlindly(w) ==
  /\ Go(w, "reclaim", "run")
  /\ running' = TRUE
  /\ UNCHANGED <<scheduler, executing, woken, refused>>

Reclaim(w) ==
  /\ Go(w, "reclaim", IF running THEN "none" ELSE "run")
  /\ running' = TRUE
  /\ UNCHANGED <<scheduler, executing, woken, refused>>

-----------------------------------------------------------------------------
BecomesDue ==
  /\ "continuation" \in pending /\ ~due
  /\ due' = TRUE
  /\ UNCHANGED <<pending, burst, executing, running, at, woken, refused>>

CallerContinues(c) == Wake(c) \/ Start(c) \/ Spawn(c) \/ SpawnRefused(c)
Run(t)             == RunBatch(t) \/ FinishBatch(t)
WorkerContinues(w) ==
  \/ ReadRetryDelay(w) \/ ObserveForRetry(w) \/ RetryWaitEnds(w)
  \/ CheckPending(w) \/ ObserveForWork(w) \/ WokenFromIdle(w) \/ IdleTimeout(w)
  \/ CheckAgain(w) \/ Release(w) \/ Recheck(w) \/ Reclaim(w)

Next ==
  \/ \E c \in Callers : Schedule(c) \/ CallerContinues(c)
  \/ \E t \in Threads : Run(t)
  \/ \E w \in Workers : WorkerContinues(w)
  \/ BecomesDue

(* A thread that can go on goes on, and the clock does not stop.  Nobody has  *)
(* to ask for work.                                                           *)
Fairness ==
  /\ \A c \in Callers : WF_vars(CallerContinues(c))
  /\ \A t \in Threads : WF_vars(Run(t))
  /\ \A w \in Workers : WF_vars(WorkerContinues(w))
  /\ WF_vars(BecomesDue)

Spec     == Init /\ [][Next]_vars
FairSpec == Spec /\ Fairness

-----------------------------------------------------------------------------
(* Properties.                                                               *)

Places ==
  [t \in Threads |->
     IF t \in Workers
     THEN {"none", "run", "running", "retry", "retry-observe", "retry-wait", "check", "idle-observe",
           "idle-wait", "check-again", "release", "recheck", "reclaim"}
     ELSE IF t \in Starters THEN {"idle", "wake", "start", "spawn"}
     ELSE {"idle", "wake", "run", "running"}]

TypeOK ==
  /\ pending \subseteq Sorts
  /\ due \in BOOLEAN /\ burst \in 0..ForegroundBurstLimit
  /\ executing \subseteq [thread : Threads, batch : SUBSET Sorts]
  /\ {e.thread : e \in executing} = {t \in Threads : at[t] = "running"}
  /\ running \in BOOLEAN
  /\ DOMAIN at = Threads /\ \A t \in Threads : at[t] \in Places[t]
  /\ woken \subseteq Workers
  /\ refused \in BOOLEAN

(* worker_running is set exactly while one thread answers for the work: the   *)
(* worker that loops, or the caller about to spawn it.  A worker that retires *)
(* and a caller that starts one at that moment never both end up looping, and *)
(* never both give up.                                                        *)
Owners == {w \in Workers : at[w] \notin {"none", "recheck", "reclaim"}}
          \cup {c \in Starters : at[c] = "spawn"}

OneOwner ==
  /\ \A s, t \in Owners : s = t
  /\ running <=> Owners # {}

(* Work that is pending while a worker is in charge gets done: a request is   *)
(* taken out, and a continuation is too unless requests keep coming.  A       *)
(* worker that retires, a wake-up that is lost and the two waits only delay   *)
(* it.  A thread the system refuses ends the promise.                         *)
WorkIsDone ==
  /\ (running /\ "request" \in pending) ~> ("request" \notin pending \/ refused)
  /\ (running /\ "continuation" \in pending)
       ~> ("continuation" \notin pending \/ "request" \in pending \/ refused)
=============================================================================
