-------------------------- MODULE IndexWorker_proofs --------------------------
(* Proofs about the worker of the index: of WorkerLoop, for any numbers of    *)
(* callers and worker threads, and of IndexerHost, whose processes the tasks  *)
(* of the worker use, for any numbers of failures and chunks.                 *)
EXTENDS WorkerLoop, WorkerHost, TLAPS

(* One batch runs at a time. *)
OneBatch == \A d, e \in executing : d = e

IInv == TypeOK /\ OneBatch /\ OneOwner

-----------------------------------------------------------------------------
(* A batch is made of the sorts of tasks that are pending. *)
LEMMA BatchesAreSorts ==
  ASSUME pending \subseteq Sorts
  PROVE  \A b \in Batches : b \subseteq Sorts
BY DEF Batches, Ready

(* The burst stays within the limit, whatever the batch. *)
LEMMA BurstsAreBounded ==
  ASSUME burst \in 0..ForegroundBurstLimit, NEW b
  PROVE  Bursts(b) \subseteq 0..ForegroundBurstLimit
BY LoopAssumption DEF Bursts, LoopAssumption

(* A thread that moves by itself, neither into nor out of a run, keeps the    *)
(* places and the batch that runs as they should be.                          *)
LEMMA MovesInPlace ==
  ASSUME LoopAssumption, TypeOK, NEW t \in Threads, NEW from, NEW to,
         Go(t, from, to), to \in Places[t], from # "running", to # "running",
         executing' = executing
  PROVE  /\ DOMAIN at' = Threads
         /\ \A u \in Threads : at'[u] \in Places[u]
         /\ {e.thread : e \in executing'} = {u \in Threads : at'[u] = "running"}
BY DEF TypeOK, Go

(* What such a move does to the owners. *)
Owns(t) == IF t \in Workers THEN at[t] \notin {"none", "recheck", "reclaim"}
           ELSE t \in Starters /\ at[t] = "spawn"

(* The owners are the threads that own a run. *)
LEMMA OwnersOwn ==
  ASSUME LoopAssumption
  PROVE  /\ Owners = {t \in Threads : Owns(t)}
         /\ Owners' = {t \in Threads : Owns(t)'}
BY DEF LoopAssumption, Owners, Owns, Threads, Callers

(* A step that leaves a thread where it was as an owner leaves the owners alone ... *)
LEMMA SameOwners ==
  ASSUME LoopAssumption, TypeOK, OneOwner, NEW t \in Threads, NEW from, NEW to,
         Go(t, from, to), Owns(t)' = Owns(t), running' = running
  PROVE  OneOwner'
<1>1. \A u \in Threads : Owns(u)' = Owns(u)
  BY DEF Go, Owns, TypeOK
<1>2. Owners' = Owners
  BY <1>1, OwnersOwn
<1>. QED  BY <1>2 DEF OneOwner

(* ... one that enters a run finds nobody in it ... *)
LEMMA NewOwner ==
  ASSUME LoopAssumption, TypeOK, OneOwner, NEW t \in Threads, NEW from, NEW to,
         Go(t, from, to), Owns(t)', ~running, running'
  PROVE  OneOwner'
<1>1. Owners = {}
  BY DEF OneOwner
<1>2. \A u \in Threads : ~Owns(u)
  BY <1>1, OwnersOwn
<1>3. \A u \in Threads \ {t} : Owns(u)' = Owns(u)
  BY DEF Go, Owns, TypeOK
<1>4. Owners' = {t}
  BY <1>2, <1>3, OwnersOwn
<1>. QED  BY <1>4 DEF OneOwner

(* ... and one that leaves the run leaves nobody behind. *)
LEMMA NoOwner ==
  ASSUME LoopAssumption, TypeOK, OneOwner, NEW t \in Threads, NEW from, NEW to,
         Go(t, from, to), Owns(t), ~Owns(t)', ~running'
  PROVE  OneOwner'
<1>1. \A u \in Threads : Owns(u) => u = t
  BY OwnersOwn DEF OneOwner
<1>2. \A u \in Threads \ {t} : Owns(u)' = Owns(u)
  BY DEF Go, Owns, TypeOK
<1>3. Owners' = {}
  BY <1>1, <1>2, OwnersOwn
<1>. QED  BY <1>3 DEF OneOwner

-----------------------------------------------------------------------------
(* The invariant holds at the start ... *)
LEMMA InitInvariant ==
  ASSUME LoopAssumption, Init
  PROVE  IInv
<1>1. TypeOK
  <2>1. DOMAIN at = Threads /\ \A t \in Threads : at[t] \in Places[t]
    BY DEF Init, Places, Threads
  <2>2. {e.thread : e \in executing} = {} /\ {t \in Threads : at[t] = "running"} = {}
    BY DEF Init
  <2>3. executing \subseteq [thread : Threads, batch : SUBSET Sorts]
    BY DEF Init
  <2>4. /\ pending \subseteq Sorts /\ due \in BOOLEAN /\ burst \in 0..ForegroundBurstLimit
        /\ running \in BOOLEAN /\ refused \in BOOLEAN /\ woken \subseteq Workers
    <3>1. pending \subseteq Sorts /\ woken \subseteq Workers
      BY DEF Init
    <3>2. burst \in 0..ForegroundBurstLimit
      BY LoopAssumption DEF Init, LoopAssumption
    <3>3. due \in BOOLEAN /\ running \in BOOLEAN /\ refused \in BOOLEAN
      BY Zenon DEF Init
    <3>. QED  BY <3>1, <3>2, <3>3, Zenon
  <2>5. {e.thread : e \in executing} = {t \in Threads : at[t] = "running"}
    BY <2>2
  <2>. QED  BY <2>1, <2>3, <2>4, <2>5 DEF TypeOK
<1>2. OneOwner
  BY DEF Init, LoopAssumption, OneOwner, Owners, Threads, Callers
<1>. QED  BY <1>1, <1>2 DEF Init, IInv, OneBatch

(* ... every step of a caller keeps it ... *)
LEMMA CallerInvariant ==
  ASSUME LoopAssumption, IInv, NEW c \in Callers, Schedule(c) \/ CallerContinues(c)
  PROVE  IInv'
<1>. /\ TypeOK /\ OneBatch /\ OneOwner
     /\ c \in Threads /\ c \notin Workers
     /\ Starters \subseteq Threads
  BY DEF IInv, LoopAssumption, Threads, Callers
<1>1. CASE Schedule(c)
  <2>1. TypeOK'
    <3>1. Go(c, "idle", "wake") /\ executing' = executing /\ "wake" \in Places[c]
      BY <1>1 DEF Schedule, Places, Callers
    <3>2. /\ DOMAIN at' = Threads
          /\ \A u \in Threads : at'[u] \in Places[u]
          /\ {e.thread : e \in executing'} = {u \in Threads : at'[u] = "running"}
      BY <3>1, MovesInPlace, Zenon
    <3>. QED  BY <1>1, <3>2 DEF Schedule, TypeOK, Sorts
  <2>2. OneOwner'
    <3>1. Go(c, "idle", "wake") /\ running' = running /\ Owns(c)' = Owns(c)
      BY <1>1 DEF Schedule, Owns, Go, TypeOK
    <3>. QED  BY <3>1, SameOwners, Zenon
  <2>. QED  BY <1>1, <2>1, <2>2 DEF Schedule, IInv, OneBatch
<1>2. CASE Wake(c)
  <2> DEFINE next == IF c \in Starters THEN "start" ELSE "run"
  <2>1. TypeOK'
    <3>1. Go(c, "wake", next) /\ executing' = executing
      BY <1>2 DEF Wake
    <3>2. next \in Places[c] /\ next # "running"
      BY DEF Places, Callers
    <3>3. /\ DOMAIN at' = Threads
          /\ \A u \in Threads : at'[u] \in Places[u]
          /\ {e.thread : e \in executing'} = {u \in Threads : at'[u] = "running"}
      <4>. HIDE DEF next
      <4>. QED  BY <3>1, <3>2, MovesInPlace
    <3>. QED  BY <1>2, <3>3 DEF Wake, TypeOK, scheduler
  <2>2. OneOwner'
    <3>1. Go(c, "wake", next) /\ running' = running /\ Owns(c)' = Owns(c)
      BY <1>2 DEF Wake, Owns, Go, TypeOK
    <3>. QED  BY <3>1, SameOwners
  <2>. QED  BY <1>2, <2>1, <2>2 DEF Wake, IInv, OneBatch
<1>3. CASE Start(c)
  <2>. c \in Starters /\ "start" \notin {"spawn"}
    BY <1>3 DEF Start, Go, TypeOK, Places, Callers
  <2> DEFINE next == IF running THEN "idle" ELSE "spawn"
  <2>0. Go(c, "start", next) /\ executing' = executing /\ running'
    BY <1>3 DEF Start
  <2>1. TypeOK'
    <3>2. next \in Places[c] /\ next # "running"
      BY DEF Places
    <3>3. /\ DOMAIN at' = Threads
          /\ \A u \in Threads : at'[u] \in Places[u]
          /\ {e.thread : e \in executing'} = {u \in Threads : at'[u] = "running"}
      <4>. HIDE DEF next
      <4>. QED  BY <2>0, <3>2, MovesInPlace
    <3>. QED  BY <1>3, <3>3 DEF Start, TypeOK, scheduler
  <2>2. OneOwner'
    <3>1. CASE running
      <4>1. Owns(c)' = Owns(c)
        BY <2>0, <3>1 DEF Owns, Go, TypeOK
      <4>2. running' = running
        BY <1>3, <3>1 DEF Start, TypeOK
      <4>. QED  BY <2>0, <4>1, <4>2, SameOwners
    <3>2. CASE ~running
      <4>1. Owns(c)'
        BY <2>0, <3>2 DEF Owns, Go, TypeOK
      <4>. QED  BY <2>0, <3>2, <4>1, NewOwner
    <3>. QED  BY <3>1, <3>2
  <2>. QED  BY <1>3, <2>1, <2>2 DEF Start, IInv, OneBatch
<1>4. CASE Spawn(c)
  <2>1. PICK w \in Workers : at[w] = "none" /\ at' = [at EXCEPT ![c] = "idle", ![w] = "run"]
    BY <1>4 DEF Spawn
  <2>2. at[c] = "spawn" /\ c \in Starters /\ w \in Threads /\ w # c
    BY <1>4, <2>1 DEF Spawn, TypeOK, Places, Callers, Threads
  <2>3. TypeOK'
    <3>1. /\ DOMAIN at' = Threads
          /\ \A u \in Threads : at'[u] \in Places[u]
      BY <2>1, <2>2 DEF TypeOK, Places
    <3>2. {u \in Threads : at'[u] = "running"} = {u \in Threads : at[u] = "running"}
      BY <2>1, <2>2 DEF TypeOK
    <3>. QED  BY <1>4, <3>1, <3>2 DEF Spawn, TypeOK, scheduler
  <2>4. OneOwner'
    <3>1. c \in Owners
      BY <2>2 DEF Owners
    <3>2. Owners = {c} /\ running
      BY <3>1 DEF OneOwner
    <3>3. \A u \in Threads : Owns(u) => u = c
      BY <3>2, OwnersOwn
    <3>4. \A u \in Threads : Owns(u)' <=> u = w
      BY <2>1, <2>2, <3>3 DEF Owns, TypeOK
    <3>5. Owners' = {w}
      BY <2>2, <3>4, OwnersOwn
    <3>. QED  BY <1>4, <3>2, <3>5 DEF Spawn, OneOwner
  <2>. QED  BY <1>4, <2>3, <2>4 DEF Spawn, IInv, OneBatch
<1>5. CASE SpawnRefused(c)
  <2>1. c \in Starters
    BY <1>5 DEF SpawnRefused, Go, TypeOK, Places, Callers
  <2>2. Go(c, "spawn", "idle") /\ executing' = executing /\ running' = FALSE
    BY <1>5 DEF SpawnRefused
  <2>3. TypeOK'
    <3>1. "idle" \in Places[c]
      BY DEF Places
    <3>2. /\ DOMAIN at' = Threads
          /\ \A u \in Threads : at'[u] \in Places[u]
          /\ {e.thread : e \in executing'} = {u \in Threads : at'[u] = "running"}
      BY <2>2, <3>1, MovesInPlace, Zenon
    <3>. QED  BY <1>5, <3>2 DEF SpawnRefused, TypeOK, scheduler
  <2>4. OneOwner'
    <3>1. Owns(c) /\ ~Owns(c)'
      BY <2>1, <2>2 DEF Owns, Go, TypeOK
    <3>. QED  BY <2>2, <3>1, NoOwner, Zenon
  <2>. QED  BY <1>5, <2>3, <2>4 DEF SpawnRefused, IInv, OneBatch
<1>. QED  BY <1>1, <1>2, <1>3, <1>4, <1>5 DEF CallerContinues

(* The steps of a worker that neither run a batch nor touch the flag. *)
LEMMA WorkerMoves ==
  ASSUME LoopAssumption, IInv, NEW w \in Workers, NEW from, NEW to,
         Go(w, from, to),
         from \notin {"none", "recheck", "reclaim", "running"},
         to \in Places[w] \ {"none", "recheck", "reclaim", "running"},
         woken' \subseteq Workers,
         UNCHANGED <<scheduler, executing, running, refused>>
  PROVE  IInv'
<1>. TypeOK /\ OneBatch /\ OneOwner /\ w \in Threads
  BY DEF IInv, Threads
<1>1. /\ DOMAIN at' = Threads
      /\ \A u \in Threads : at'[u] \in Places[u]
      /\ {e.thread : e \in executing'} = {u \in Threads : at'[u] = "running"}
  BY MovesInPlace
<1>2. TypeOK'
  BY <1>1 DEF TypeOK, scheduler
<1>3. Owns(w)' = Owns(w)
  BY DEF Owns, Go, TypeOK
<1>4. OneOwner'
  BY <1>3, SameOwners
<1>. QED  BY <1>2, <1>4 DEF IInv, OneBatch

(* ... every step of the worker thread does ... *)
LEMMA WorkerInvariant ==
  ASSUME LoopAssumption, IInv, NEW w \in Workers, WorkerContinues(w)
  PROVE  IInv'
<1>. /\ TypeOK /\ OneBatch /\ OneOwner /\ w \in Threads
     /\ Places[w] = {"none", "run", "running", "retry", "retry-observe", "retry-wait", "check",
                     "idle-observe", "idle-wait", "check-again", "release", "recheck", "reclaim"}
     /\ woken \subseteq Workers
  BY DEF IInv, Threads, Places, TypeOK
<1>1. CASE ReadRetryDelay(w)
  <2> DEFINE next == IF pending = {"continuation"} /\ ~due THEN "retry-observe" ELSE "check"
  <2>1. /\ Go(w, "retry", next) /\ woken' = woken
        /\ next \in Places[w] \ {"none", "recheck", "reclaim", "running"}
        /\ UNCHANGED <<scheduler, executing, running, refused>>
    BY <1>1 DEF ReadRetryDelay
  <2>. HIDE DEF next
  <2>. QED  BY <2>1, WorkerMoves
<1>2. CASE ObserveForRetry(w)
  <2>1. /\ Go(w, "retry-observe", "retry-wait") /\ woken' \subseteq Workers
        /\ UNCHANGED <<scheduler, executing, running, refused>>
    BY <1>2 DEF ObserveForRetry
  <2>. QED  BY <2>1, WorkerMoves
<1>3. CASE RetryWaitEnds(w)
  <2>1. /\ Go(w, "retry-wait", "check") /\ woken' \subseteq Workers
        /\ UNCHANGED <<scheduler, executing, running, refused>>
    BY <1>3 DEF RetryWaitEnds
  <2>. QED  BY <2>1, WorkerMoves
<1>4. CASE CheckPending(w)
  <2> DEFINE next == IF pending = {} THEN "idle-observe" ELSE "run"
  <2>1. /\ Go(w, "check", next) /\ woken' = woken
        /\ next \in Places[w] \ {"none", "recheck", "reclaim", "running"}
        /\ UNCHANGED <<scheduler, executing, running, refused>>
    BY <1>4 DEF CheckPending
  <2>. HIDE DEF next
  <2>. QED  BY <2>1, WorkerMoves
<1>5. CASE ObserveForWork(w)
  <2>1. /\ Go(w, "idle-observe", "idle-wait") /\ woken' \subseteq Workers
        /\ UNCHANGED <<scheduler, executing, running, refused>>
    BY <1>5 DEF ObserveForWork
  <2>. QED  BY <2>1, WorkerMoves
<1>6. CASE WokenFromIdle(w)
  <2>1. /\ Go(w, "idle-wait", "run") /\ woken' \subseteq Workers
        /\ UNCHANGED <<scheduler, executing, running, refused>>
    BY <1>6 DEF WokenFromIdle
  <2>. QED  BY <2>1, WorkerMoves
<1>7. CASE IdleTimeout(w)
  <2>1. /\ Go(w, "idle-wait", "check-again") /\ woken' \subseteq Workers
        /\ UNCHANGED <<scheduler, executing, running, refused>>
    BY <1>7 DEF IdleTimeout
  <2>. QED  BY <2>1, WorkerMoves
<1>8. CASE CheckAgain(w)
  <2> DEFINE next == IF pending = {} THEN "release" ELSE "run"
  <2>1. /\ Go(w, "check-again", next) /\ woken' = woken
        /\ next \in Places[w] \ {"none", "recheck", "reclaim", "running"}
        /\ UNCHANGED <<scheduler, executing, running, refused>>
    BY <1>8 DEF CheckAgain
  <2>. HIDE DEF next
  <2>. QED  BY <2>1, WorkerMoves
<1>9. CASE Release(w)
  <2>1. Go(w, "release", "recheck") /\ executing' = executing /\ running' = FALSE
    BY <1>9 DEF Release
  <2>2. TypeOK'
    <3>1. /\ DOMAIN at' = Threads
          /\ \A u \in Threads : at'[u] \in Places[u]
          /\ {e.thread : e \in executing'} = {u \in Threads : at'[u] = "running"}
      BY <2>1, MovesInPlace
    <3>. QED  BY <1>9, <3>1 DEF Release, TypeOK, scheduler
  <2>3. OneOwner'
    <3>1. Owns(w) /\ ~Owns(w)'
      BY <2>1 DEF Owns, Go, TypeOK
    <3>. QED  BY <2>1, <3>1, NoOwner
  <2>. QED  BY <1>9, <2>2, <2>3 DEF Release, IInv, OneBatch
<1>10. CASE Recheck(w)
  <2> DEFINE next == IF pending = {} THEN "none" ELSE "reclaim"
  <2>1. /\ Go(w, "recheck", next)
        /\ UNCHANGED <<scheduler, executing, running, woken, refused>>
    BY <1>10 DEF Recheck
  <2>2. next \in {"none", "reclaim"}
    OBVIOUS
  <2>. HIDE DEF next
  <2>3. TypeOK'
    <3>1. /\ DOMAIN at' = Threads
          /\ \A u \in Threads : at'[u] \in Places[u]
          /\ {e.thread : e \in executing'} = {u \in Threads : at'[u] = "running"}
      BY <2>1, <2>2, MovesInPlace
    <3>. QED  BY <2>1, <3>1 DEF TypeOK, scheduler
  <2>4. OneOwner'
    <3>1. Owns(w)' = Owns(w)
      BY <2>1, <2>2 DEF Owns, Go, TypeOK
    <3>. QED  BY <2>1, <3>1, SameOwners
  <2>. QED  BY <2>1, <2>3, <2>4 DEF IInv, OneBatch
<1>11. CASE Reclaim(w)
  <2> DEFINE next == IF running THEN "none" ELSE "run"
  <2>1. /\ Go(w, "reclaim", next) /\ running'
        /\ UNCHANGED <<scheduler, executing, woken, refused>>
    BY <1>11 DEF Reclaim
  <2>2. /\ next \in {"none", "run"}
        /\ running => next = "none"
        /\ ~running => next = "run"
    OBVIOUS
  <2>3. running' \in BOOLEAN
    BY <1>11 DEF Reclaim
  <2>4. running => running' = running
    BY <1>11 DEF Reclaim, TypeOK
  <2>. HIDE DEF next
  <2>5. TypeOK'
    <3>1. /\ DOMAIN at' = Threads
          /\ \A u \in Threads : at'[u] \in Places[u]
          /\ {e.thread : e \in executing'} = {u \in Threads : at'[u] = "running"}
      BY <2>1, <2>2, MovesInPlace
    <3>. QED  BY <2>1, <2>3, <3>1 DEF TypeOK, scheduler
  <2>6. OneOwner'
    <3>1. CASE running
      <4>1. Owns(w)' = Owns(w)
        BY <2>1, <2>2, <3>1 DEF Owns, Go, TypeOK
      <4>. QED  BY <2>1, <2>4, <3>1, <4>1, SameOwners
    <3>2. CASE ~running
      <4>1. Owns(w)'
        BY <2>1, <2>2, <3>2 DEF Owns, Go, TypeOK
      <4>. QED  BY <2>1, <3>2, <4>1, NewOwner
    <3>. QED  BY <3>1, <3>2
  <2>. QED  BY <2>1, <2>5, <2>6 DEF IInv, OneBatch
<1>. QED
  BY <1>1, <1>2, <1>3, <1>4, <1>5, <1>6, <1>7, <1>8, <1>9, <1>10, <1>11 DEF WorkerContinues

(* ... every step of a run does ... *)
LEMMA RunInvariant ==
  ASSUME LoopAssumption, IInv, NEW t \in Threads, Run(t)
  PROVE  IInv'
<1>. TypeOK /\ OneBatch /\ OneOwner
  BY DEF IInv
<1>1. CASE RunBatch(t)
  <2>1. Go(t, "run", "running") /\ executing = {} /\ running' = running
    BY <1>1 DEF RunBatch
  <2>2. PICK b \in Batches :
          /\ executing' = {[thread |-> t, batch |-> b]}
          /\ pending' = pending \ b
          /\ due' = (due /\ "continuation" \notin b)
          /\ burst' \in Bursts(b)
    BY <1>1 DEF RunBatch
  <2>3. t \in Workers \cup Drainers
    BY <2>1 DEF Go, TypeOK, Places, Threads, Callers
  <2>4. TypeOK'
    <3>1. executing' \subseteq [thread : Threads, batch : SUBSET Sorts]
      BY <2>2, BatchesAreSorts DEF TypeOK
    <3>2. DOMAIN at' = Threads /\ \A u \in Threads : at'[u] \in Places[u]
      BY <2>1, <2>3 DEF Go, TypeOK, Places, LoopAssumption
    <3>3. {u \in Threads : at[u] = "running"} = {}
      BY <2>1 DEF TypeOK
    <3>4. {u \in Threads : at'[u] = "running"} = {t}
      BY <2>1, <3>3 DEF Go, TypeOK
    <3>5. {e.thread : e \in executing'} = {t}
      BY <2>2
    <3>6. burst' \in 0..ForegroundBurstLimit
      BY <2>2, BurstsAreBounded DEF TypeOK
    <3>7. pending' \subseteq Sorts /\ due' \in BOOLEAN
      BY <2>2 DEF TypeOK
    <3>. QED  BY <1>1, <3>1, <3>2, <3>4, <3>5, <3>6, <3>7 DEF RunBatch, TypeOK
  <2>5. OneOwner'
    <3>1. Owns(t)' = Owns(t)
      BY <2>1, <2>3 DEF Owns, Go, TypeOK, LoopAssumption
    <3>. QED  BY <2>1, <3>1, SameOwners
  <2>6. OneBatch'
    BY <2>2 DEF OneBatch
  <2>. QED  BY <2>4, <2>5, <2>6 DEF IInv
<1>2. CASE FinishBatch(t)
  <2> DEFINE next == IF t \in Workers THEN "retry" ELSE "idle"
  <2>1. /\ Go(t, "running", next) /\ executing' = {}
        /\ UNCHANGED <<burst, running, woken, refused>>
    BY <1>2 DEF FinishBatch
  <2>2. pending' \subseteq Sorts /\ due' \in BOOLEAN
    <3>1. PICK mine \in executing :
            \E more \in IF mine.batch = {} THEN {{}} ELSE SUBSET Sorts :
              /\ pending' = pending \cup more
              /\ due' \in IF "continuation" \in more THEN {due, TRUE} ELSE {due}
      BY <1>2 DEF FinishBatch
    <3>2. PICK more \in IF mine.batch = {} THEN {{}} ELSE SUBSET Sorts :
              /\ pending' = pending \cup more
              /\ due' \in IF "continuation" \in more THEN {due, TRUE} ELSE {due}
      BY <3>1
    <3>. QED  BY <3>2 DEF TypeOK
  <2>3. /\ next \in Places[t] /\ next # "running"
        /\ t \in Workers => next = "retry"
        /\ t \notin Workers => next = "idle"
    BY DEF Places, Threads, Callers
  <2>. HIDE DEF next
  <2>4. TypeOK'
    <3>1. DOMAIN at' = Threads /\ \A u \in Threads : at'[u] \in Places[u]
      BY <2>1, <2>3 DEF Go, TypeOK
    <3>2. t \in {e.thread : e \in executing}
      BY <2>1 DEF Go, TypeOK
    <3>3. {u \in Threads : at[u] = "running"} = {t}
      BY <3>2 DEF TypeOK, OneBatch
    <3>4. {u \in Threads : at'[u] = "running"} = {}
      BY <2>1, <2>3, <3>3 DEF Go, TypeOK
    <3>. QED  BY <2>1, <2>2, <3>1, <3>4 DEF TypeOK
  <2>5. OneOwner'
    <3>1. Owns(t)' = Owns(t)
      BY <2>1, <2>3 DEF Owns, Go, TypeOK
    <3>. QED  BY <2>1, <3>1, SameOwners
  <2>6. OneBatch'
    BY <2>1 DEF OneBatch
  <2>. QED  BY <2>4, <2>5, <2>6 DEF IInv
<1>. QED  BY <1>1, <1>2 DEF Run

-----------------------------------------------------------------------------
(* ... so every step does. *)
LEMMA StepInvariant ==
  ASSUME LoopAssumption, IInv, [Next]_vars
  PROVE  IInv'
<1>1. ASSUME NEW c \in Callers, Schedule(c) \/ CallerContinues(c)
      PROVE  IInv'
  BY <1>1, CallerInvariant
<1>2. ASSUME NEW t \in Threads, Run(t)
      PROVE  IInv'
  BY <1>2, RunInvariant
<1>3. ASSUME NEW w \in Workers, WorkerContinues(w)
      PROVE  IInv'
  BY <1>3, WorkerInvariant
<1>4. CASE BecomesDue
  BY <1>4 DEF BecomesDue, IInv, TypeOK, OneBatch, OneOwner, Owners
<1>5. CASE UNCHANGED vars
  BY <1>5 DEF vars, IInv, TypeOK, OneBatch, OneOwner, Owners
<1>. QED  BY <1>1, <1>2, <1>3, <1>4, <1>5 DEF Next

(* The inductive invariant holds, whatever the numbers of threads.            *)
THEOREM Invariance == Spec => []IInv
<1>. USE LoopAssumption
<1>1. Init => IInv
  BY InitInvariant
<1>2. IInv /\ [Next]_vars => IInv'
  BY StepInvariant
<1>. QED  BY <1>1, <1>2, PTL DEF Spec

(* Type correctness of the worker loop. *)
THEOREM TypeCorrect == Spec => []TypeOK
<1>1. IInv => TypeOK
  BY DEF IInv
<1>. QED  BY <1>1, Invariance, PTL

(* worker_running is set exactly while one thread answers for the work: the   *)
(* swap in start_background_worker and the store and swap of                  *)
(* relinquish_background_worker never leave two loops, nor a flag nobody holds. *)
THEOREM OneOwnerAlways == Spec => []OneOwner
<1>1. IInv => OneOwner
  BY DEF IInv
<1>. QED  BY <1>1, Invariance, PTL
-----------------------------------------------------------------------------
(* The host of the processes that index for a task of the worker.             *)
(* Where a request holds its lane. *)
Taken == {"launch", "health", "send", "wait", "publish"}

Sessions == [up : BOOLEAN, owes : BOOLEAN, open : BOOLEAN]
LaneStates ==
  [session : Sessions, inFlight : BOOLEAN, failures : Nat, backoff : BOOLEAN]
Requests ==
  [at : Taken \cup {"none", "next", "ask", "done"}, session : Sessions, left : Nat,
   outcome : {"none", "applied", "deferred", "cancelled", "unavailable"}]

HostTyped ==
  /\ lanes \in [Host!Lanes -> LaneStates]
  /\ calls \in [Host!Lanes -> Requests]
  /\ task \in [kind : Host!Kinds \cup {"none"},
               outcome : {"none", "applied", "deferred", "cancelled", "failed"}]
  /\ token \in BOOLEAN /\ latency \in BOOLEAN /\ installed \in BOOLEAN

(* A process that is asked next, or whose rows are being published, has       *)
(* answered.                                                                  *)
Answered ==
  \A l \in Host!Lanes :
    calls[l].at \in {"send", "publish"} => ~calls[l].session.owes

(* Only the lanes of the task that runs have a request. *)
OfTheTask ==
  \A l \in Host!Lanes :
    calls[l].at # "none" => ~Host!Idle /\ l \in Host!LanesOf(task.kind)

HostInv == HostTyped /\ Answered /\ OfTheTask /\ Host!KeptSessionsOweNothing /\ Host!InFlightIsHeld

(* What a request may leave behind in its lane and at its own place. *)
Fits(lane, request) ==
  /\ lane \in LaneStates /\ request \in Requests
  /\ request.at # "none"
  /\ lane.session.open => ~lane.session.owes
  /\ lane.inFlight <=> request.at \in Taken
  /\ request.at \in {"send", "publish"} => ~request.session.owes

(* A step of one request that leaves both so keeps the invariant: the other   *)
(* lanes are not touched.                                                     *)
LEMMA RequestKeeps ==
  ASSUME HostInv, NEW l \in Host!Lanes, calls[l].at # "none",
         NEW lane, NEW request, Fits(lane, request),
         lanes' = [lanes EXCEPT ![l] = lane], calls' = [calls EXCEPT ![l] = request],
         UNCHANGED <<task, token, latency, installed>>
  PROVE  HostInv'
<1>1. HostTyped'
  BY DEF HostInv, HostTyped, Fits
<1>2. \A k \in Host!Lanes : lanes'[k] = IF k = l THEN lane ELSE lanes[k]
  BY DEF HostInv, HostTyped
<1>3. \A k \in Host!Lanes : calls'[k] = IF k = l THEN request ELSE calls[k]
  BY DEF HostInv, HostTyped
<1>4. Answered'
  BY <1>3 DEF HostInv, Answered, Fits
<1>5. OfTheTask'
  BY <1>3 DEF HostInv, OfTheTask, Fits, Host!Idle
<1>6. Host!KeptSessionsOweNothing'
  BY <1>2 DEF HostInv, Host!KeptSessionsOweNothing, Fits
<1>7. Host!InFlightIsHeld'
  BY <1>2, <1>3 DEF HostInv, Host!InFlightIsHeld, Fits, Taken
<1>. QED  BY <1>1, <1>4, <1>5, <1>6, <1>7 DEF HostInv

(* What becomes of a request that ended: the next chunk is asked for, or it   *)
(* is done.                                                                   *)
LEMMA EndsOf ==
  ASSUME HostTyped, NEW l \in Host!Lanes,
         NEW outcome \in {"applied", "deferred", "cancelled", "unavailable"},
         Host!Ended(l, outcome)
  PROVE  \E request \in Requests :
           /\ calls' = [calls EXCEPT ![l] = request]
           /\ request.at \in {"ask", "done"}
<1>1. CASE outcome = "applied" /\ calls[l].left > 1
  <2> DEFINE request == [Host!NoCall EXCEPT !.at = "ask", !.left = calls[l].left - 1]
  <2>0. calls[l].left - 1 \in Nat
    BY <1>1 DEF HostTyped, Requests
  <2>1. request \in Requests /\ request.at = "ask"
    BY <2>0 DEF Requests, Host!NoCall, Host!NoSession, Sessions
  <2>2. calls' = [calls EXCEPT ![l] = request]
    BY <1>1 DEF Host!Ended
  <2>. QED  BY <2>1, <2>2
<1>2. CASE ~(outcome = "applied" /\ calls[l].left > 1)
  <2> DEFINE request == [Host!NoCall EXCEPT !.at = "done", !.outcome = outcome]
  <2>1. request \in Requests /\ request.at = "done"
    BY DEF Requests, Host!NoCall, Host!NoSession, Sessions
  <2>2. calls' = [calls EXCEPT ![l] = request]
    BY <1>2 DEF Host!Ended
  <2>. QED  BY <2>1, <2>2
<1>. QED  BY <1>1, <1>2

(* A request that ended and left its lane free, with a session that owes      *)
(* nothing or with none, is such a step.                                      *)
LEMMA EndKeeps ==
  ASSUME HostInv, NEW l \in Host!Lanes, calls[l].at # "none",
         NEW session \in Sessions, session.open => ~session.owes,
         NEW failures \in Nat, NEW backoff \in BOOLEAN,
         Host!Settle(l, session, failures, backoff),
         NEW outcome \in {"applied", "deferred", "cancelled", "unavailable"},
         Host!Ended(l, outcome),
         UNCHANGED <<task, token, latency, installed>>
  PROVE  HostInv'
<1> DEFINE lane == [session |-> session, inFlight |-> FALSE,
                    failures |-> failures, backoff |-> backoff]
<1>1. PICK request \in Requests : /\ calls' = [calls EXCEPT ![l] = request]
                                  /\ request.at \in {"ask", "done"}
  BY EndsOf DEF HostInv
<1>2. lanes' = [lanes EXCEPT ![l] = lane]
  BY DEF Host!Settle
<1>3. Fits(lane, request)
  BY <1>1 DEF Fits, LaneStates, Taken
<1>. QED  BY <1>1, <1>2, <1>3, RequestKeeps

(* So a failure, which drops the session, ... *)
LEMMA FailureKeeps ==
  ASSUME HostInv, NEW l \in Host!Lanes, calls[l].at # "none",
         Host!FinishFailure(l),
         NEW outcome \in {"applied", "deferred", "cancelled", "unavailable"},
         Host!Ended(l, outcome),
         UNCHANGED <<task, token, latency, installed>>
  PROVE  HostInv'
<1> DEFINE failures == IF lanes[l].failures < MaxConsecutiveFailures
                       THEN lanes[l].failures + 1 ELSE lanes[l].failures
<1>1. failures \in Nat
  BY DEF HostInv, HostTyped, LaneStates
<1>2. Host!NoSession \in Sessions /\ ~Host!NoSession.open
  BY DEF Host!NoSession, Sessions
<1>3. Host!Settle(l, Host!NoSession, failures, TRUE)
  BY DEF Host!FinishFailure
<1> HIDE DEF failures
<1>. QED  BY <1>1, <1>2, <1>3, EndKeeps

(* ... and a cancellation, which drops it too, ... *)
LEMMA CancellationKeeps ==
  ASSUME HostInv, NEW l \in Host!Lanes, calls[l].at # "none",
         Host!FinishCancelled(l),
         NEW outcome \in {"applied", "deferred", "cancelled", "unavailable"},
         Host!Ended(l, outcome),
         UNCHANGED <<task, token, latency, installed>>
  PROVE  HostInv'
<1>1. Host!NoSession \in Sessions /\ ~Host!NoSession.open
  BY DEF Host!NoSession, Sessions
<1>2. Host!Settle(l, Host!NoSession, 0, FALSE)
  BY DEF Host!FinishCancelled
<1>. QED  BY <1>1, <1>2, EndKeeps

(* ... and a publication, which keeps the one that answered. *)
LEMMA PublicationKeeps ==
  ASSUME HostInv, NEW l \in Host!Lanes, calls[l].at = "publish",
         Host!Settle(l, calls[l].session, 0, FALSE),
         NEW outcome \in {"applied", "deferred", "cancelled", "unavailable"},
         Host!Ended(l, outcome),
         UNCHANGED <<task, token, latency, installed>>
  PROVE  HostInv'
<1>1. calls[l].session \in Sessions /\ ~calls[l].session.owes
  BY DEF HostInv, HostTyped, Requests, Answered
<1>. QED  BY <1>1, EndKeeps

-----------------------------------------------------------------------------
(* The lane is asked for: taken, or refused. *)
LEMMA CheckoutKeeps ==
  ASSUME HostInv, NEW l \in Host!Lanes,
         Host!Defer(l) \/ Host!Unavailable(l) \/ Host!Checkout(l)
  PROVE  HostInv'
<1>0. calls[l].at = "ask"
  BY DEF Host!Defer, Host!Unavailable, Host!Checkout, Host!At
<1>1. CASE Host!Defer(l) \/ Host!Unavailable(l)
  <2>1. PICK outcome \in {"deferred", "unavailable"} : Host!Ended(l, outcome)
    BY <1>1 DEF Host!Defer, Host!Unavailable
  <2>2. PICK request \in Requests : /\ calls' = [calls EXCEPT ![l] = request]
                                    /\ request.at \in {"ask", "done"}
    BY <2>1, EndsOf DEF HostInv
  <2>3. lanes' = [lanes EXCEPT ![l] = lanes[l]]
    BY <1>1 DEF Host!Defer, Host!Unavailable, HostInv, HostTyped
  <2>4. Fits(lanes[l], request)
    BY <1>0, <2>2 DEF Fits, HostInv, HostTyped, Taken, Host!KeptSessionsOweNothing,
                      Host!InFlightIsHeld
  <2>5. UNCHANGED <<task, token, latency, installed>>
    BY <1>1 DEF Host!Defer, Host!Unavailable
  <2>. QED  BY <1>0, <2>2, <2>3, <2>4, <2>5, RequestKeeps
<1>2. CASE Host!Checkout(l)
  <2> DEFINE lane == [lanes[l] EXCEPT !.inFlight = TRUE, !.session = Host!NoSession]
             request == [calls[l] EXCEPT
                           !.at = IF lanes[l].session.open THEN "send" ELSE "launch",
                           !.session = lanes[l].session]
  <2>1. lanes' = [lanes EXCEPT ![l] = lane] /\ calls' = [calls EXCEPT ![l] = request]
    BY <1>2 DEF Host!Checkout, HostInv, HostTyped
  <2>2. lane \in LaneStates /\ ~lane.session.open /\ lane.inFlight
    BY DEF HostInv, HostTyped, LaneStates, Sessions, Host!NoSession
  <2>3. request \in Requests /\ request.session = lanes[l].session
        /\ request.at = IF lanes[l].session.open THEN "send" ELSE "launch"
    BY DEF HostInv, HostTyped, LaneStates, Requests, Taken
  <2>4. Fits(lane, request)
    BY <2>2, <2>3 DEF Fits, HostInv, Taken, Host!KeptSessionsOweNothing
  <2>5. UNCHANGED <<task, token, latency, installed>>
    BY <1>2 DEF Host!Checkout
  <2> HIDE DEF lane, request
  <2>. QED  BY <1>0, <2>1, <2>4, <2>5, RequestKeeps
<1>. QED  BY <1>1, <1>2

(* A step within a request: the lane stays taken. *)
LEMMA GoingOnKeeps ==
  ASSUME HostInv, NEW l \in Host!Lanes, calls[l].at \in Taken,
         NEW session \in Sessions, NEW to \in Taken,
         to \in {"send", "publish"} => ~session.owes,
         calls' = [calls EXCEPT ![l].at = to, ![l].session = session],
         UNCHANGED <<lanes, task, token, latency, installed>>
  PROVE  HostInv'
<1> DEFINE request == [calls[l] EXCEPT !.at = to, !.session = session]
<1>1. calls' = [calls EXCEPT ![l] = request] /\ lanes' = [lanes EXCEPT ![l] = lanes[l]]
  BY DEF HostInv, HostTyped
<1>2. request \in Requests /\ request.at = to /\ request.session = session
  BY DEF HostInv, HostTyped, Requests
<1>3. Fits(lanes[l], request)
  BY <1>2 DEF Fits, HostInv, HostTyped, Taken, Host!KeptSessionsOweNothing,
              Host!InFlightIsHeld
<1>. QED  BY <1>1, <1>3, RequestKeeps DEF Taken

(* The process is started and asked for its health. *)
LEMMA LaunchKeeps ==
  ASSUME HostInv, NEW l \in Host!Lanes,
         Host!Launch(l) \/ Host!LaunchFails(l) \/ Host!Healthy(l) \/ Host!Unhealthy(l)
  PROVE  HostInv'
<1>1. CASE Host!Launch(l)
  <2> DEFINE session == [Host!Spawned EXCEPT !.owes = TRUE]
  <2>1. session \in Sessions
    BY DEF Host!Spawned, Sessions
  <2> HIDE DEF session
  <2>2. calls' = [calls EXCEPT ![l].at = "health", ![l].session = session]
    BY <1>1 DEF Host!Launch, session
  <2>. QED  BY <1>1, <2>1, <2>2, GoingOnKeeps DEF Host!Launch, Host!At, Taken
<1>2. CASE Host!Healthy(l)
  <2> DEFINE session == [calls[l].session EXCEPT !.owes = FALSE]
  <2>1. session \in Sessions /\ ~session.owes
    BY DEF HostInv, HostTyped, Requests, Sessions
  <2> HIDE DEF session
  <2>2. calls' = [calls EXCEPT ![l].at = "send", ![l].session = session]
    BY <1>2 DEF Host!Healthy, session, HostInv, HostTyped, Requests
  <2>. QED  BY <1>2, <2>1, <2>2, GoingOnKeeps DEF Host!Healthy, Host!At, Taken
<1>3. CASE Host!LaunchFails(l) \/ Host!Unhealthy(l)
  BY <1>3, FailureKeeps DEF Host!LaunchFails, Host!Unhealthy, Host!At
<1>. QED  BY <1>1, <1>2, <1>3

(* The exchange: the session owes an answer from the question to the answer,  *)
(* and is not kept when the question is given up in between.                  *)
LEMMA ExchangeKeeps ==
  ASSUME HostInv, NEW l \in Host!Lanes,
         \/ Host!Send(l) \/ Host!SendFails(l) \/ Host!Cancel(l)
         \/ Host!Prepared(l) \/ Host!StaleAnswer(l) \/ Host!ExchangeFails(l)
  PROVE  HostInv'
<1>1. CASE Host!Send(l)
  <2> DEFINE session == [calls[l].session EXCEPT !.owes = TRUE]
  <2>1. session \in Sessions
    BY DEF HostInv, HostTyped, Requests, Sessions
  <2> HIDE DEF session
  <2>2. calls' = [calls EXCEPT ![l].at = "wait", ![l].session = session]
    BY <1>1 DEF Host!Send, session, HostInv, HostTyped, Requests
  <2>. QED  BY <1>1, <2>1, <2>2, GoingOnKeeps DEF Host!Send, Host!At, Taken
<1>2. CASE Host!Prepared(l)
  <2> DEFINE session == [calls[l].session EXCEPT !.owes = FALSE]
  <2>1. session \in Sessions /\ ~session.owes
    BY DEF HostInv, HostTyped, Requests, Sessions
  <2> HIDE DEF session
  <2>2. calls' = [calls EXCEPT ![l].at = "publish", ![l].session = session]
    BY <1>2 DEF Host!Prepared, session, HostInv, HostTyped, Requests
  <2>. QED  BY <1>2, <2>1, <2>2, GoingOnKeeps DEF Host!Prepared, Host!At, Taken
<1>3. CASE Host!StaleAnswer(l)
  <2> DEFINE session == [calls[l].session EXCEPT !.owes = FALSE]
  <2>1. session \in Sessions /\ ~session.owes
    BY DEF HostInv, HostTyped, Requests, Sessions
  <2> DEFINE lane == [Host!NewLane EXCEPT !.session = session]
  <2>2. lane \in LaneStates /\ lane.session = session /\ ~lane.inFlight
    BY <2>1 DEF LaneStates, Host!NewLane, Host!NoSession, Sessions
  <2>3. lanes' = [lanes EXCEPT ![l] = lane]
    BY <1>3 DEF Host!StaleAnswer
  <2>4. PICK request \in Requests : /\ calls' = [calls EXCEPT ![l] = request]
                                    /\ request.at \in {"ask", "done"}
    BY <1>3, EndsOf DEF HostInv, Host!StaleAnswer
  <2>5. Fits(lane, request)
    BY <2>1, <2>2, <2>4 DEF Fits, Taken
  <2> HIDE DEF lane
  <2>. QED  BY <1>3, <2>3, <2>4, <2>5, RequestKeeps DEF Host!StaleAnswer, Host!At
<1>4. CASE Host!Cancel(l)
  <2>1. Host!GivenUp \in {"deferred", "cancelled"}
    BY DEF Host!GivenUp
  <2>. QED  BY <1>4, <2>1, CancellationKeeps DEF Host!Cancel
<1>5. CASE Host!SendFails(l) \/ Host!ExchangeFails(l)
  BY <1>5, FailureKeeps DEF Host!SendFails, Host!ExchangeFails, Host!At
<1>. QED  BY <1>1, <1>2, <1>3, <1>4, <1>5

(* What is made of the writer's answer. *)
LEMMA PublishKeeps ==
  ASSUME HostInv, NEW l \in Host!Lanes,
         \/ Host!Published(l) \/ Host!DetachedFails(l) \/ Host!PublicationStale(l)
         \/ Host!PublicationCancelled(l) \/ Host!PublicationFails(l)
  PROVE  HostInv'
<1>0. Host!GivenUp \in {"deferred", "cancelled"}
  BY DEF Host!GivenUp
<1>1. CASE Host!Published(l)
  BY <1>1, PublicationKeeps DEF Host!Published, Host!FinishSuccess, Host!At
<1>2. CASE Host!PublicationStale(l)
  BY <1>0, <1>2, PublicationKeeps DEF Host!PublicationStale, Host!FinishSuperseded, Host!At
<1>3. CASE Host!PublicationCancelled(l)
  BY <1>0, <1>3, CancellationKeeps DEF Host!PublicationCancelled, Host!At
<1>4. CASE Host!DetachedFails(l) \/ Host!PublicationFails(l)
  BY <1>4, FailureKeeps DEF Host!DetachedFails, Host!PublicationFails, Host!At
<1>. QED  BY <1>1, <1>2, <1>3, <1>4

-----------------------------------------------------------------------------
(* A new task finds every lane free. *)
LEMMA RunKeeps ==
  ASSUME HostInv, Host!Run \/ Host!RunUnready
  PROVE  HostInv'
<1>1. PICK kind \in Host!Kinds :
        /\ task' = [kind |-> kind, outcome |-> "none"]
        /\ calls' \in [Host!Lanes -> Requests]
        /\ \A l \in Host!Lanes : calls'[l].at \in {"none", "next", "ask", "done"}
        /\ \A l \in Host!Lanes \ Host!LanesOf(kind) : calls'[l].at = "none"
  <2>0. Host!NoCall \in Requests
    BY DEF Host!NoCall, Host!NoSession, Requests, Sessions
  <2>1. CASE Host!Run
    <3>1. PICK kind \in Host!Kinds, n \in 1..Chunks :
            /\ task' = [kind |-> kind, outcome |-> "none"]
            /\ calls' = [l \in Host!Lanes |->
                 IF l \notin Host!LanesOf(kind) THEN Host!NoCall
                 ELSE [Host!Asking(IF l = "discovery" THEN 1 ELSE n) EXCEPT
                         !.at = IF kind = "both" /\ l = "stub" /\ ~installed
                                THEN "next" ELSE @]]
      BY <2>1 DEF Host!Run
    <3>2. \A l \in Host!LanesOf(kind) \cap Host!Lanes :
            calls'[l] \in Requests /\ calls'[l].at \in {"next", "ask"}
      <4> SUFFICES ASSUME NEW l \in Host!LanesOf(kind) \cap Host!Lanes
                   PROVE  calls'[l] \in Requests /\ calls'[l].at \in {"next", "ask"}
        OBVIOUS
      <4>1. PICK left \in Nat, to \in {"next", "ask"} :
              calls'[l] = [at |-> to, session |-> Host!NoSession, left |-> left,
                           outcome |-> "none"]
        <5> DEFINE left == IF l = "discovery" THEN 1 ELSE n
                   to == IF kind = "both" /\ l = "stub" /\ ~installed THEN "next" ELSE "ask"
        <5>1. left \in Nat /\ to \in {"next", "ask"}
          OBVIOUS
        <5>2. calls'[l] = [Host!Asking(left) EXCEPT
                             !.at = IF kind = "both" /\ l = "stub" /\ ~installed
                                    THEN "next" ELSE @]
          BY <3>1
        <5> HIDE DEF left
        <5>3. calls'[l] = [at |-> to, session |-> Host!NoSession, left |-> left,
                           outcome |-> "none"]
          BY <5>2 DEF Host!Asking, Host!NoCall
        <5>. QED  BY <5>1, <5>3
      <4>2. Host!NoSession \in Sessions
        BY DEF Host!NoSession, Sessions
      <4>. QED  BY <4>1, <4>2 DEF Requests
    <3>3. \A l \in Host!Lanes \ Host!LanesOf(kind) : calls'[l] = Host!NoCall
      BY <3>1
    <3>4. calls' = [l \in Host!Lanes |-> calls'[l]]
      BY <3>1
    <3>. QED  BY <2>0, <3>1, <3>2, <3>3, <3>4 DEF Host!NoCall
  <2>2. CASE Host!RunUnready
    <3>1. PICK kind \in Host!Kinds :
            /\ task' = [kind |-> kind, outcome |-> "none"]
            /\ calls' = [l \in Host!Lanes |->
                 IF l \in Host!LanesOf(kind)
                 THEN [Host!NoCall EXCEPT !.at = "done", !.outcome = "unavailable"]
                 ELSE Host!NoCall]
      BY <2>2 DEF Host!RunUnready
    <3>2. [Host!NoCall EXCEPT !.at = "done", !.outcome = "unavailable"] \in Requests
      BY DEF Host!NoCall, Host!NoSession, Requests, Sessions
    <3>. QED  BY <2>0, <3>1, <3>2 DEF Host!NoCall
  <2>. QED  BY <2>1, <2>2
<1>2. \A l \in Host!Lanes : ~lanes[l].inFlight
  BY DEF Host!Run, Host!RunUnready, HostInv, OfTheTask, Host!InFlightIsHeld
<1>3. UNCHANGED <<lanes, installed>> /\ token' = FALSE /\ latency' = FALSE
  BY DEF Host!Run, Host!RunUnready
<1>4. HostTyped'
  BY <1>1, <1>3 DEF HostInv, HostTyped
<1>5. OfTheTask'
  BY <1>1 DEF OfTheTask, Host!Idle, Host!Kinds
<1>6. Answered' /\ Host!InFlightIsHeld' /\ Host!KeptSessionsOweNothing'
  BY <1>1, <1>2, <1>3 DEF HostInv, Answered, Host!InFlightIsHeld, Host!KeptSessionsOweNothing
<1>. QED  BY <1>4, <1>5, <1>6 DEF HostInv

(* Without an executable the symbols come after the content. *)
LEMMA AfterContentKeeps ==
  ASSUME HostInv, Host!StubAfterContent
  PROVE  HostInv'
<1>0. "stub" \in Host!Lanes /\ calls["stub"].at = "next"
  BY DEF Host!StubAfterContent, Host!At, Host!Lanes
<1>1. PICK request \in Requests : /\ calls' = [calls EXCEPT !["stub"] = request]
                                  /\ request.at \in {"ask", "done"}
  <2>1. CASE calls["content"].outcome = "applied"
    <3> DEFINE request == [calls["stub"] EXCEPT !.at = "ask"]
    <3>1. request \in Requests /\ request.at = "ask"
      BY <1>0 DEF HostInv, HostTyped, Requests
    <3>2. calls' = [calls EXCEPT !["stub"] = request]
      BY <2>1 DEF Host!StubAfterContent
    <3>. QED  BY <3>1, <3>2
  <2>2. CASE calls["content"].outcome # "applied"
    BY <1>0, <2>2, EndsOf DEF Host!StubAfterContent, HostInv
  <2>. QED  BY <2>1, <2>2
<1>2. lanes' = [lanes EXCEPT !["stub"] = lanes["stub"]]
  BY <1>0 DEF Host!StubAfterContent, HostInv, HostTyped
<1>3. Fits(lanes["stub"], request)
  BY <1>0, <1>1 DEF Fits, HostInv, HostTyped, Taken, Host!KeptSessionsOweNothing,
                    Host!InFlightIsHeld
<1>. QED  BY <1>0, <1>1, <1>2, <1>3, RequestKeeps DEF Host!StubAfterContent

(* The task ends when its requests have: no lane is left taken. *)
LEMMA FinishKeeps ==
  ASSUME HostInv, Host!Finish
  PROVE  HostInv'
<1>1. \A l \in Host!Lanes : calls[l].at \in {"none", "done"}
  BY DEF Host!Finish, Host!At, HostInv, OfTheTask
<1>2. \A l \in Host!Lanes : ~lanes[l].inFlight
  BY <1>1 DEF HostInv, Host!InFlightIsHeld
<1>3. \A l \in Host!Lanes : calls'[l] = Host!NoCall
  BY DEF Host!Finish
<1>4. HostTyped'
  <2>1. Host!NoCall \in Requests
    BY DEF Host!NoCall, Host!NoSession, Requests, Sessions
  <2>2. Host!DiscoveryUpdate \in {"cancelled", "applied"}
    BY DEF Host!DiscoveryUpdate
  <2>3. Host!LayerUpdate \in {"cancelled", "deferred", "failed", "applied"}
    BY DEF Host!LayerUpdate, Host!Degraded
  <2>. QED  BY <2>1, <2>2, <2>3 DEF Host!Finish, HostInv, HostTyped
<1>5. Answered' /\ OfTheTask' /\ Host!InFlightIsHeld' /\ Host!KeptSessionsOweNothing'
  BY <1>2, <1>3 DEF Host!Finish, HostInv, Answered, OfTheTask, Host!NoCall,
                    Host!InFlightIsHeld, Host!KeptSessionsOweNothing
<1>. QED  BY <1>4, <1>5 DEF HostInv

(* A process that ends by itself owes what it owed. *)
LEMMA CrashKeeps ==
  ASSUME HostInv, NEW l \in Host!Lanes, Host!Crash(l)
  PROVE  HostInv'
<1>1. CASE UNCHANGED <<calls, task, token, latency, installed>>
           /\ lanes' = [lanes EXCEPT ![l].session.up = FALSE]
  <2>1. lanes' \in [Host!Lanes -> LaneStates]
    BY <1>1 DEF HostInv, HostTyped, LaneStates, Sessions
  <2>2. \A k \in Host!Lanes : /\ lanes'[k].inFlight = lanes[k].inFlight
                              /\ lanes'[k].session.open = lanes[k].session.open
                              /\ lanes'[k].session.owes = lanes[k].session.owes
    BY <1>1 DEF HostInv, HostTyped, LaneStates, Sessions
  <2>. QED  BY <1>1, <2>1, <2>2 DEF HostInv, HostTyped, Answered, OfTheTask, Host!Idle,
                                    Host!InFlightIsHeld, Host!KeptSessionsOweNothing
<1>2. CASE UNCHANGED <<lanes, task, token, latency, installed>>
           /\ calls' = [calls EXCEPT ![l].session.up = FALSE]
  <2>0. [calls[l].session EXCEPT !.up = FALSE] \in Sessions
    BY DEF HostInv, HostTyped, Requests, Sessions
  <2>1. calls' \in [Host!Lanes -> Requests]
    BY <1>2, <2>0 DEF HostInv, HostTyped, Requests
  <2>2. \A k \in Host!Lanes : /\ calls'[k].at = calls[k].at
                              /\ calls'[k].session.owes = calls[k].session.owes
    BY <1>2 DEF HostInv, HostTyped, Requests, Sessions
  <2>. QED  BY <1>2, <2>1, <2>2 DEF HostInv, HostTyped, Answered, OfTheTask, Host!Idle,
                                    Host!InFlightIsHeld, Host!KeptSessionsOweNothing
<1>. QED  BY <1>1, <1>2 DEF Host!Crash

(* The delay before a restart is over. *)
LEMMA BackoffKeeps ==
  ASSUME HostInv, NEW l \in Host!Lanes, Host!BackoffEnds(l)
  PROVE  HostInv'
<1>1. lanes' \in [Host!Lanes -> LaneStates]
  BY DEF Host!BackoffEnds, HostInv, HostTyped, LaneStates
<1>2. \A k \in Host!Lanes : /\ lanes'[k].inFlight = lanes[k].inFlight
                            /\ lanes'[k].session = lanes[k].session
  BY DEF Host!BackoffEnds, HostInv, HostTyped, LaneStates
<1>. QED  BY <1>1, <1>2 DEF Host!BackoffEnds, HostInv, HostTyped, Answered, OfTheTask,
                    Host!Idle, Host!InFlightIsHeld, Host!KeptSessionsOweNothing

LEMMA HostInitInvariant == Host!Init => HostInv
<1> SUFFICES ASSUME Host!Init PROVE HostInv
  OBVIOUS
<1>1. Host!NewLane \in LaneStates /\ Host!NoCall \in Requests
  BY DEF Host!NewLane, Host!NoCall, Host!NoSession, LaneStates, Requests, Sessions
<1>2. HostTyped
  BY <1>1 DEF Host!Init, HostTyped, Host!NoTask
<1>. QED  BY <1>2 DEF Host!Init, HostInv, Answered, OfTheTask, Host!NewLane, Host!NoCall,
                      Host!NoSession, Host!InFlightIsHeld, Host!KeptSessionsOweNothing

LEMMA HostStepInvariant == HostInv /\ [Host!Next]_(Host!vars) => HostInv'
<1> SUFFICES ASSUME HostInv, [Host!Next]_(Host!vars) PROVE HostInv'
  OBVIOUS
<1>1. ASSUME NEW l \in Host!Lanes, Host!Request(l) PROVE HostInv'
  BY <1>1, CheckoutKeeps, LaunchKeeps, ExchangeKeeps, PublishKeeps DEF Host!Request
<1>2. ASSUME NEW l \in Host!Lanes, Host!Crash(l) \/ Host!BackoffEnds(l) PROVE HostInv'
  BY <1>2, CrashKeeps, BackoffKeeps
<1>3. CASE Host!Run \/ Host!RunUnready
  BY <1>3, RunKeeps
<1>4. CASE Host!StubAfterContent
  BY <1>4, AfterContentKeeps
<1>5. CASE Host!Finish
  BY <1>5, FinishKeeps
<1>6. CASE Host!CancelTask \/ Host!ChangeSensitivity \/ Host!Remove \/ UNCHANGED Host!vars
  <2>1. UNCHANGED <<lanes, calls, task>>
        /\ token' \in BOOLEAN /\ latency' \in BOOLEAN /\ installed' \in BOOLEAN
    BY <1>6 DEF Host!CancelTask, Host!ChangeSensitivity, Host!Remove, Host!vars, HostInv, HostTyped
  <2>. QED  BY <2>1 DEF HostInv, HostTyped, Answered, OfTheTask, Host!Idle,
                        Host!InFlightIsHeld, Host!KeptSessionsOweNothing
<1>. QED  BY <1>1, <1>2, <1>3, <1>4, <1>5, <1>6 DEF Host!Next

LEMMA HostInvariance == Host!Spec => []HostInv
<1>. QED  BY HostInitInvariant, HostStepInvariant, PTL DEF Host!Spec

(* Type correctness of the host of the indexing processes. *)
THEOREM HostTypeCorrect == Host!Spec => []HostTyped
<1>1. HostInv => HostTyped
  BY DEF HostInv
<1>. QED  BY <1>1, HostInvariance, PTL

(* A process goes back into its lane only when it has answered all it was     *)
(* asked: finish_cancelled and finish_failure drop it, finish_success and     *)
(* finish_superseded come after its answer.  The next request of the lane     *)
(* never reads the answer to one that was given up.                           *)
THEOREM NoAnswerIsLeft == Host!Spec => []KeptSessionsOweNothing
<1>1. HostInv => KeptSessionsOweNothing
  BY DEF HostInv, KeptSessionsOweNothing
<1>. QED  BY <1>1, HostInvariance, PTL

(* Every way out of checkout_session and of the exchange ends in one of the   *)
(* finish functions, so that a lane is in flight only while a request has it. *)
THEOREM LanesAreHeld == Host!Spec => []InFlightIsHeld
<1>1. HostInv => InFlightIsHeld
  BY DEF HostInv, InFlightIsHeld
<1>. QED  BY <1>1, HostInvariance, PTL
=============================================================================
